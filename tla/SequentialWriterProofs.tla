----------------------- MODULE SequentialWriterProofs -----------------------
(***************************************************************************)
(* Proofs about SequentialWriter, for any options, topics, depth and number   *)
(* of failures. Messages are stored once and in the order of the write()      *)
(* calls, none of them disappears, and the files listed are those on disk     *)
(* (IInv). The counts of the files, of their topics and of the bag are those  *)
(* of the messages, no file starts after a message of its own, and a          *)
(* snapshot's file has the dates of its ends (CountInv, DateInv, TotalInv).   *)
(* A file that a split opens starts with the last messages of the latched     *)
(* topics (HeadInv).                                                          *)
(***************************************************************************)
EXTENDS SequentialWriterProps, SumTheorems

-----------------------------------------------------------------------------
(* Sequences whose elements have no type. *)

IsSequence(s) == s \in Seq(Range(s))

(* What such a sequence is. *)
LEMMA SequenceFacts ==
  ASSUME NEW s, IsSequence(s)
  PROVE  /\ Len(s) \in Nat /\ DOMAIN s = 1 .. Len(s)
         /\ s = [i \in 1 .. Len(s) |-> s[i]]
         /\ Range(s) = {s[i] : i \in 1 .. Len(s)}
         /\ Len(s) = 0 <=> s = <<>>
  <1>1. s \in Seq(Range(s))
    BY DEF IsSequence
  <1>2. Len(s) \in Nat /\ DOMAIN s = 1 .. Len(s) /\ s \in [1 .. Len(s) -> Range(s)]
    BY <1>1, LenProperties
  <1>3. Len(s) = 0 <=> s = <<>>
    BY <1>1, EmptySeq
  <1> QED
    BY <1>2, <1>3 DEF Range

(* Any sequence is one, whatever set its elements are known to be of. *)
LEMMA SequenceOver ==
  ASSUME NEW S, NEW s \in Seq(S)
  PROVE  IsSequence(s)
  <1>1. DOMAIN s = 1 .. Len(s) /\ Len(s) \in Nat /\ s \in [1 .. Len(s) -> S]
    BY LenProperties
  <1>2. \A i \in 1 .. Len(s) : s[i] \in Range(s)
    BY <1>1 DEF Range
  <1>3. s \in [1 .. Len(s) -> Range(s)]
    BY <1>1, <1>2
  <1> QED
    BY <1>1, <1>3 DEF IsSequence

(* A function of the first numbers is a sequence. *)
LEMMA FunctionSequence ==
  ASSUME NEW n \in Nat, NEW s, s = [i \in 1 .. n |-> s[i]]
  PROVE  IsSequence(s) /\ Len(s) = n
  <1>1. DOMAIN s = 1 .. n
    BY Zenon
  <1>2. \A i \in 1 .. n : s[i] \in Range(s)
    BY <1>1 DEF Range
  <1>3. s \in [1 .. n -> Range(s)]
    BY <1>2
  <1>4. s \in Seq(Range(s))
    BY <1>3
  <1>5. DOMAIN s = 1 .. Len(s) /\ Len(s) \in Nat
    BY <1>4, LenProperties
  <1>6. Len(s) = n
    BY <1>1, <1>5
  <1> QED
    BY <1>4, <1>6 DEF IsSequence

(* The empty sequence. *)
LEMMA EmptySequence == IsSequence(<<>>) /\ Range(<<>>) = {} /\ Len(<<>>) = 0 /\ DOMAIN <<>> = {}
  <1>1. <<>> \in Seq({})
    OBVIOUS
  <1>2. DOMAIN <<>> = {} /\ Len(<<>>) = 0
    OBVIOUS
  <1> QED
    BY <1>1, <1>2, SequenceOver DEF Range

(* A sequence after another. *)
LEMMA ConcatFacts ==
  ASSUME NEW s, NEW t, IsSequence(s), IsSequence(t)
  PROVE  /\ IsSequence(s \o t)
         /\ Len(s \o t) = Len(s) + Len(t)
         /\ Range(s \o t) = Range(s) \cup Range(t)
         /\ \A i \in 1 .. Len(s) : (s \o t)[i] = s[i]
         /\ \A i \in 1 .. Len(t) : (s \o t)[Len(s) + i] = t[i]
         /\ \A i \in 1 .. Len(s) + Len(t) : i \in 1 .. Len(s) \/ \E j \in 1 .. Len(t) : i = Len(s) + j
  <1> DEFINE S == Range(s) \cup Range(t)
  <1>1. s \in Seq(S) /\ t \in Seq(S)
    BY SeqMonotonic DEF IsSequence
  <1>2. Len(s) \in Nat /\ Len(t) \in Nat
    BY SequenceFacts
  <1>3. /\ s \o t \in Seq(S) /\ Len(s \o t) = Len(s) + Len(t)
        /\ \A i \in 1 .. Len(s) + Len(t) : (s \o t)[i] = IF i <= Len(s) THEN s[i] ELSE t[i - Len(s)]
    BY <1>1, ConcatProperties
  <1>4. \A i \in 1 .. Len(s) : i \in 1 .. Len(s) + Len(t) /\ i <= Len(s)
    BY <1>2
  <1>5. \A i \in 1 .. Len(t) : Len(s) + i \in 1 .. Len(s) + Len(t) /\ ~(Len(s) + i <= Len(s)) /\ Len(s) + i - Len(s) = i
    BY <1>2
  <1>6. \A i \in 1 .. Len(s) + Len(t) : i \in 1 .. Len(s) \/ \E j \in 1 .. Len(t) : i = Len(s) + j
    <2> SUFFICES ASSUME NEW i \in 1 .. Len(s) + Len(t), i \notin 1 .. Len(s)
                 PROVE  \E j \in 1 .. Len(t) : i = Len(s) + j
      OBVIOUS
    <2>1. i - Len(s) \in 1 .. Len(t) /\ i = Len(s) + (i - Len(s))
      BY <1>2
    <2> QED
      BY <2>1
  <1>7. /\ \A i \in 1 .. Len(s) : (s \o t)[i] = s[i]
        /\ \A i \in 1 .. Len(t) : (s \o t)[Len(s) + i] = t[i]
    BY <1>3, <1>4, <1>5
  <1>8. IsSequence(s \o t) /\ DOMAIN (s \o t) = 1 .. Len(s) + Len(t)
    BY <1>3, SequenceOver, SequenceFacts
  <1>9. Range(s \o t) = {(s \o t)[i] : i \in 1 .. Len(s) + Len(t)}
    BY <1>8 DEF Range
  <1>10. Range(s) = {s[i] : i \in 1 .. Len(s)} /\ Range(t) = {t[i] : i \in 1 .. Len(t)}
    BY SequenceFacts
  <1>11. Range(s \o t) = Range(s) \cup Range(t)
    <2>1. ASSUME NEW x \in Range(s \o t) PROVE x \in Range(s) \cup Range(t)
      <3>1. PICK i \in 1 .. Len(s) + Len(t) : x = (s \o t)[i]
        BY <1>9
      <3> QED
        BY <1>6, <1>7, <1>10, <3>1
    <2>2. ASSUME NEW x \in Range(s) PROVE x \in Range(s \o t)
      <3>1. PICK i \in 1 .. Len(s) : x = s[i]
        BY <1>10
      <3> QED
        BY <1>4, <1>7, <1>9, <3>1
    <2>3. ASSUME NEW x \in Range(t) PROVE x \in Range(s \o t)
      <3>1. PICK i \in 1 .. Len(t) : x = t[i]
        BY <1>10
      <3> QED
        BY <1>5, <1>7, <1>9, <3>1
    <2> QED
      BY <2>1, <2>2, <2>3
  <1> QED
    BY <1>3, <1>6, <1>7, <1>8, <1>11

(* Nothing before or after a sequence. *)
LEMMA EmptyJoined ==
  ASSUME NEW s, IsSequence(s)
  PROVE  <<>> \o s = s /\ s \o <<>> = s
  BY ConcatEmptySeq DEF IsSequence

(* An element after a sequence. *)
LEMMA AppendFacts ==
  ASSUME NEW s, NEW e, IsSequence(s)
  PROVE  /\ IsSequence(Append(s, e))
         /\ Len(Append(s, e)) = Len(s) + 1
         /\ Range(Append(s, e)) = Range(s) \cup {e}
         /\ \A i \in 1 .. Len(s) : Append(s, e)[i] = s[i]
         /\ Append(s, e)[Len(s) + 1] = e
  <1> DEFINE S == Range(s) \cup {e}
  <1>1. s \in Seq(S) /\ e \in S
    BY SeqMonotonic DEF IsSequence
  <1>2. /\ Append(s, e) \in Seq(S) /\ Len(Append(s, e)) = Len(s) + 1
        /\ \A i \in 1 .. Len(s) : Append(s, e)[i] = s[i]
        /\ Append(s, e)[Len(s) + 1] = e
    BY <1>1
  <1>3. Len(s) \in Nat /\ Range(s) = {s[i] : i \in 1 .. Len(s)}
    BY SequenceFacts
  <1>4. IsSequence(Append(s, e)) /\ Range(Append(s, e)) = {Append(s, e)[i] : i \in 1 .. Len(s) + 1}
    BY <1>2, SequenceOver, SequenceFacts
  <1>5. 1 .. Len(s) + 1 = 1 .. Len(s) \cup {Len(s) + 1}
    BY <1>3
  <1> QED
    BY <1>2, <1>3, <1>4, <1>5

(* A sequence of one element. *)
LEMMA OneOnly ==
  ASSUME NEW e
  PROVE  IsSequence(<<e>>) /\ Len(<<e>>) = 1 /\ Range(<<e>>) = {e} /\ <<e>>[1] = e
  <1>1. <<e>> \in Seq({e}) /\ Len(<<e>>) = 1 /\ <<e>>[1] = e
    OBVIOUS
  <1>2. IsSequence(<<e>>)
    BY <1>1, SequenceOver
  <1>3. Range(<<e>>) = {<<e>>[i] : i \in 1 .. 1}
    BY <1>1, <1>2, SequenceFacts
  <1>4. 1 .. 1 = {1}
    OBVIOUS
  <1> QED
    BY <1>1, <1>2, <1>3, <1>4

(* What is left of a sequence from a position on. *)
LEMMA RestOf ==
  ASSUME NEW s, IsSequence(s), NEW m \in 1 .. Len(s) + 1
  PROVE  LET r == SubSeq(s, m, Len(s)) IN
         /\ IsSequence(r)
         /\ Len(r) = Len(s) - m + 1
         /\ \A i \in 1 .. Len(r) : m + i - 1 \in 1 .. Len(s) /\ r[i] = s[m + i - 1]
         /\ Range(r) \subseteq Range(s)
  <1> DEFINE r == SubSeq(s, m, Len(s))
  <1>1. Len(s) \in Nat /\ Range(s) = {s[i] : i \in 1 .. Len(s)}
    BY SequenceFacts
  <1>2. \A i \in m .. Len(s) : s[i] \in Range(s)
    BY <1>1
  <1>3. /\ r \in Seq(Range(s)) /\ Len(r) = IF m <= Len(s) THEN Len(s) - m + 1 ELSE 0
        /\ \A i \in 1 .. Len(s) - m + 1 : r[i] = s[m + i - 1]
    <2>1. m \in Int /\ Len(s) \in Int
      BY <1>1
    <2> QED
      BY <1>2, <2>1, SubSeqProperties
  <1>4. Len(r) = Len(s) - m + 1
    BY <1>1, <1>3
  <1>5. \A i \in 1 .. Len(r) : m + i - 1 \in 1 .. Len(s) /\ r[i] = s[m + i - 1]
    <2>1. \A i \in 1 .. Len(s) - m + 1 : m + i - 1 \in 1 .. Len(s)
      BY <1>1
    <2> QED
      BY <1>3, <1>4, <2>1
  <1>6. IsSequence(r)
    BY <1>3, SequenceOver
  <1>7. Range(r) = {r[i] : i \in 1 .. Len(r)}
    BY <1>6, SequenceFacts
  <1> HIDE DEF r
  <1>8. Range(r) \subseteq Range(s)
    BY <1>1, <1>5, <1>7
  <1> QED
    BY <1>4, <1>5, <1>6, <1>8 DEF r

-----------------------------------------------------------------------------
(* The elements at some positions. *)

RankOf(K, k) == Cardinality({j \in K : j <= k})

(* The position of a rank: there is one, and a higher rank has a later one. *)
LEMMA RankedFacts ==
  ASSUME NEW n \in Nat, NEW K \in SUBSET (1 .. n)
  PROVE  /\ Cardinality(K) \in Nat
         /\ \A i \in 1 .. Cardinality(K) : Ranked(K, i) \in K
         /\ \A i, j \in 1 .. Cardinality(K) : i < j => Ranked(K, i) < Ranked(K, j)
         /\ \A k \in K : \E i \in 1 .. Cardinality(K) : Ranked(K, i) = k
  <1>1. IsFiniteSet(K) /\ K \subseteq Nat
    <2>1. IsFiniteSet(1 .. n)
      BY FS_Interval
    <2>2. IsFiniteSet(K)
      BY <2>1, FS_Subset
    <2>3. K \subseteq Nat
      OBVIOUS
    <2> QED
      BY <2>2, <2>3
  <1>2. Cardinality(K) \in Nat
    BY <1>1, FS_CardinalityType
  <1>3. ASSUME NEW k \in K
        PROVE  RankOf(K, k) \in 1 .. Cardinality(K)
    <2> DEFINE below == {j \in K : j <= k}
    <2>1. below \in SUBSET K /\ k \in below
      BY <1>1
    <2>2. IsFiniteSet(below) /\ Cardinality(below) <= Cardinality(K)
      BY <1>1, <2>1, FS_Subset
    <2>3. Cardinality(below) \in Nat /\ Cardinality(below) # 0
      BY <2>1, <2>2, FS_CardinalityType, FS_EmptySet
    <2> QED
      BY <1>2, <2>2, <2>3 DEF RankOf
  <1>4. ASSUME NEW k \in K, NEW l \in K, k < l
        PROVE  RankOf(K, k) < RankOf(K, l)
    <2> DEFINE a == {j \in K : j <= k}
               b == {j \in K : j <= l}
    <2>1. a \in SUBSET b /\ b \in SUBSET K /\ l \in b /\ l \notin a
      <3>1. \A j \in K : j \in Nat
        BY <1>1
      <3>2. \A j \in K : j <= k => j <= l
        BY <1>4, <3>1
      <3>3. l <= l /\ ~(l <= k)
        BY <1>4, <3>1
      <3> QED
        BY <3>2, <3>3
    <2>2. IsFiniteSet(b)
      BY <1>1, <2>1, FS_Subset
    <2>3. IsFiniteSet(a) /\ Cardinality(a) <= Cardinality(b) /\ (Cardinality(b) = Cardinality(a) => b = a)
      BY <2>1, <2>2, FS_Subset
    <2>4. Cardinality(a) \in Nat /\ Cardinality(b) \in Nat
      BY <2>2, <2>3, FS_CardinalityType
    <2>5. Cardinality(a) # Cardinality(b)
      BY <2>1, <2>3
    <2>6. Cardinality(a) < Cardinality(b)
      BY <2>3, <2>4, <2>5
    <2> QED
      BY <2>6 DEF RankOf
  <1> DEFINE N == 1 .. Cardinality(K)
             f == [k \in K |-> RankOf(K, k)]
  <1>5. f \in Injection(K, N)
    <2>1. \A k, l \in K : f[k] = f[l] => k = l
      <3> SUFFICES ASSUME NEW k \in K, NEW l \in K, k # l
                   PROVE  RankOf(K, k) # RankOf(K, l)
        OBVIOUS
      <3>1. k < l \/ l < k
        BY <1>1
      <3>2. RankOf(K, k) \in Int /\ RankOf(K, l) \in Int
        BY <1>3
      <3> QED
        BY <1>4, <3>1, <3>2
    <2>2. f \in [K -> N]
      BY <1>3
    <2> QED
      BY <2>1, <2>2 DEF Injection, IsInjective
  <1>6. IsFiniteSet(N) /\ Cardinality(N) = Cardinality(K)
    BY <1>2, FS_Interval
  <1>7. f \in Surjection(K, N)
    BY <1>5, <1>6, FS_Injection
  <1>8. \A i \in N : \E k \in K : RankOf(K, k) = i
    BY <1>7 DEF Surjection
  <1>9. \A i \in N : Ranked(K, i) \in K /\ RankOf(K, Ranked(K, i)) = i
    <2> SUFFICES ASSUME NEW i \in N
                 PROVE  Ranked(K, i) \in K /\ RankOf(K, Ranked(K, i)) = i
      OBVIOUS
    <2>1. \E k \in K : Cardinality({j \in K : j <= k}) = i
      BY <1>8 DEF RankOf
    <2> QED
      BY <2>1 DEF Ranked, RankOf
  <1>10. ASSUME NEW i \in N, NEW j \in N, i < j
         PROVE  Ranked(K, i) < Ranked(K, j)
    <2> DEFINE k == Ranked(K, i)
               l == Ranked(K, j)
    <2>1. k \in K /\ l \in K /\ RankOf(K, k) = i /\ RankOf(K, l) = j
      BY <1>9
    <2>2. k \in Nat /\ l \in Nat
      BY <1>1, <2>1
    <2> HIDE DEF k, l
    <2>3. ~(l < k) /\ l # k
      <3>1. ~(j < i) /\ i # j
        BY <1>2, <1>10
      <3> QED
        BY <1>4, <2>1, <3>1
    <2>4. k < l
      BY <2>2, <2>3
    <2> QED
      BY <2>4 DEF k, l
  <1>11. ASSUME NEW k \in K
         PROVE  \E i \in N : Ranked(K, i) = k
    <2> DEFINE i == RankOf(K, k)
               l == Ranked(K, i)
    <2>1. i \in N
      BY <1>3
    <2>2. l \in K /\ RankOf(K, l) = i
      BY <1>9, <2>1
    <2>3. k \in Nat /\ l \in Nat /\ RankOf(K, k) \in Nat
      <3>1. RankOf(K, k) \in Nat
        BY <1>2, <2>1
      <3> QED
        BY <1>1, <2>2, <3>1
    <2>4. ~(k < l) /\ ~(l < k)
      <3>1. ~(RankOf(K, k) < RankOf(K, l)) /\ ~(RankOf(K, l) < RankOf(K, k))
        BY <2>2, <2>3
      <3> QED
        BY <1>4, <2>2, <3>1
    <2> HIDE DEF l
    <2>5. l = k
      BY <2>3, <2>4
    <2> QED
      BY <2>1, <2>5 DEF l
  <1> QED
    BY <1>2, <1>9, <1>10, <1>11

(* The elements at these positions, in their order. *)
LEMMA AtFacts ==
  ASSUME NEW s, IsSequence(s), NEW K \in SUBSET (DOMAIN s)
  PROVE  /\ IsSequence(At(s, K))
         /\ Range(At(s, K)) = {s[k] : k \in K}
         /\ \A i \in 1 .. Len(At(s, K)) : Ranked(K, i) \in K /\ At(s, K)[i] = s[Ranked(K, i)]
         /\ \A i, j \in 1 .. Len(At(s, K)) : i < j => Ranked(K, i) < Ranked(K, j)
  <1> DEFINE n == Cardinality(K)
             r == At(s, K)
  <1>1. Len(s) \in Nat /\ DOMAIN s = 1 .. Len(s)
    BY SequenceFacts
  <1>2. /\ n \in Nat
        /\ \A i \in 1 .. n : Ranked(K, i) \in K
        /\ \A i, j \in 1 .. n : i < j => Ranked(K, i) < Ranked(K, j)
        /\ \A k \in K : \E i \in 1 .. n : Ranked(K, i) = k
    BY <1>1, RankedFacts
  <1>3. r = [i \in 1 .. n |-> r[i]] /\ \A i \in 1 .. n : r[i] = s[Ranked(K, i)]
    BY DEF At
  <1> HIDE DEF n, r
  <1>4. IsSequence(r) /\ Len(r) = n
    BY <1>2, <1>3, FunctionSequence
  <1>5. Range(r) = {r[i] : i \in 1 .. n}
    BY <1>4, SequenceFacts
  <1>6. Range(r) = {s[k] : k \in K}
    BY <1>2, <1>3, <1>5
  <1> QED
    BY <1>2, <1>3, <1>4, <1>6 DEF r

(* One element of a sequence changes. *)
LEMMA OneChanged ==
  ASSUME NEW s, IsSequence(s), NEW n \in 1 .. Len(s), NEW e
  PROVE  LET r == [s EXCEPT ![n] = e] IN
         /\ IsSequence(r) /\ Len(r) = Len(s)
         /\ \A i \in 1 .. Len(s) : r[i] = IF i = n THEN e ELSE s[i]
  <1> DEFINE r == [s EXCEPT ![n] = e]
  <1>1. Len(s) \in Nat /\ DOMAIN s = 1 .. Len(s)
    BY SequenceFacts
  <1>2. r = [i \in 1 .. Len(s) |-> r[i]] /\ \A i \in 1 .. Len(s) : r[i] = IF i = n THEN e ELSE s[i]
    BY <1>1
  <1> HIDE DEF r
  <1>3. IsSequence(r) /\ Len(r) = Len(s)
    BY <1>1, <1>2, FunctionSequence
  <1> QED
    BY <1>2, <1>3 DEF r

(* The same of a sequence that is said to be the changed one. *)
LEMMA OneChangedIs ==
  ASSUME NEW s, IsSequence(s), NEW n \in 1 .. Len(s), NEW e, NEW r, r = [s EXCEPT ![n] = e]
  PROVE  /\ IsSequence(r) /\ Len(r) = Len(s)
         /\ \A i \in 1 .. Len(s) : r[i] = IF i = n THEN e ELSE s[i]
  <1>1. Len(s) \in Nat /\ DOMAIN s = 1 .. Len(s)
    BY SequenceFacts
  <1>2. r = [i \in 1 .. Len(s) |-> r[i]] /\ \A i \in 1 .. Len(s) : r[i] = IF i = n THEN e ELSE s[i]
    BY <1>1
  <1>3. IsSequence(r) /\ Len(r) = Len(s)
    BY <1>1, <1>2, FunctionSequence
  <1> QED
    BY <1>2, <1>3

-----------------------------------------------------------------------------
(* The bag and its files. *)

Fields == {"storage", "disk", "files", "per_file", "topics", "starting_time", "duration",
           "next_file_index", "asked"}

(* The files listed are those on disk, oldest first, and the last is written to. *)
Listed(b) ==
    /\ DOMAIN b = Fields
    /\ b.next_file_index \in Nat
    /\ IsSequence(b.files)
    /\ \A i \in 1 .. Len(b.files) : /\ "index" \in DOMAIN b.files[i]
                                    /\ b.files[i].index \in Nat
                                    /\ b.files[i].index < b.next_file_index
    /\ \A i, j \in 1 .. Len(b.files) : i < j => b.files[i].index < b.files[j].index
    /\ DOMAIN b.disk = {b.files[i].index : i \in 1 .. Len(b.files)}
    /\ \A k \in DOMAIN b.disk : "messages" \in DOMAIN b.disk[k] /\ IsSequence(b.disk[k].messages)
    /\ b.storage # NoFile => Len(b.files) > 0 /\ b.storage = b.files[Len(b.files)].index

(* From b to a the messages x were added to the file that is written, and      *)
(* perhaps dates and counts changed.                                         *)
Refiled(b, a, x) ==
    /\ DOMAIN a = Fields
    /\ a.storage = b.storage /\ a.next_file_index = b.next_file_index
    /\ IsSequence(a.files) /\ Len(a.files) = Len(b.files)
    /\ \A i \in 1 .. Len(b.files) : "index" \in DOMAIN a.files[i] /\ a.files[i].index = b.files[i].index
    /\ DOMAIN a.disk = DOMAIN b.disk
    /\ \A k \in DOMAIN b.disk :
          /\ "messages" \in DOMAIN a.disk[k]
          /\ k # b.storage => a.disk[k].messages = b.disk[k].messages
          /\ k = b.storage => a.disk[k].messages = b.disk[k].messages \o x

(* The file that is written to is the last one. *)
LEMMA StorageIsLast ==
  ASSUME NEW b, Listed(b), b.storage # NoFile
  PROVE  /\ b.storage \in DOMAIN b.disk /\ Len(b.files) \in Nat \ {0} /\ Len(b.files) \in 1 .. Len(b.files)
         /\ \A k \in DOMAIN b.disk : k \in Nat /\ k <= b.storage
         /\ b.storage \in Nat /\ b.storage < b.next_file_index
  <1>1. Len(b.files) \in Nat
    BY SequenceFacts DEF Listed
  <1>2. Len(b.files) \in 1 .. Len(b.files) /\ Len(b.files) \in Nat \ {0}
    BY <1>1 DEF Listed
  <1>3. ASSUME NEW k \in DOMAIN b.disk PROVE k \in Nat /\ k <= b.storage
    <2>1. PICK i \in 1 .. Len(b.files) : k = b.files[i].index
      BY DEF Listed
    <2>2. i < Len(b.files) \/ i = Len(b.files)
      BY <1>1
    <2>3. k \in Nat /\ b.storage \in Nat
      BY <1>2, <2>1 DEF Listed
    <2>4. k < b.storage \/ k = b.storage
      BY <1>2, <2>1, <2>2 DEF Listed
    <2> QED
      BY <2>3, <2>4
  <1> QED
    BY <1>2, <1>3 DEF Listed

(* The files are listed as before. *)
LEMMA RefiledIsListed ==
  ASSUME NEW b, NEW a, NEW x, Listed(b), IsSequence(x), Refiled(b, a, x)
  PROVE  Listed(a)
  <1>1. DOMAIN a.disk = {a.files[i].index : i \in 1 .. Len(a.files)}
    BY DEF Listed, Refiled
  <1>2. \A k \in DOMAIN a.disk : "messages" \in DOMAIN a.disk[k] /\ IsSequence(a.disk[k].messages)
    <2> SUFFICES ASSUME NEW k \in DOMAIN a.disk
                 PROVE  "messages" \in DOMAIN a.disk[k] /\ IsSequence(a.disk[k].messages)
      OBVIOUS
    <2>1. k \in DOMAIN b.disk /\ "messages" \in DOMAIN a.disk[k] /\ IsSequence(b.disk[k].messages)
      BY DEF Listed, Refiled
    <2>2. IsSequence(b.disk[k].messages \o x)
      BY <2>1, ConcatFacts
    <2>3. a.disk[k].messages = b.disk[k].messages \/ a.disk[k].messages = b.disk[k].messages \o x
      BY <2>1 DEF Refiled
    <2> QED
      BY <2>1, <2>2, <2>3
  <1>3. a.storage # NoFile => Len(a.files) > 0 /\ a.storage = a.files[Len(a.files)].index
    <2> SUFFICES ASSUME a.storage # NoFile PROVE Len(a.files) > 0 /\ a.storage = a.files[Len(a.files)].index
      OBVIOUS
    <2>1. Len(b.files) \in 1 .. Len(b.files) /\ b.storage # NoFile
      BY StorageIsLast DEF Refiled
    <2> QED
      BY <2>1 DEF Listed, Refiled
  <1> QED
    BY <1>1, <1>2, <1>3 DEF Listed, Refiled

(* Messages are added to the file, then dates change. *)
LEMMA RefiledTwice ==
  ASSUME NEW b, NEW c, NEW a, NEW x, Listed(b), IsSequence(x), Refiled(b, c, x), Refiled(c, a, <<>>)
  PROVE  Refiled(b, a, x)
  <1>1. \A k \in DOMAIN c.disk : c.disk[k].messages \o <<>> = c.disk[k].messages
    BY RefiledIsListed, EmptyJoined DEF Listed
  <1> QED
    BY <1>1 DEF Refiled

(* Nothing refiled, as Refiled is from a bag to itself. *)
LEMMA RefiledNot ==
  ASSUME NEW b, Listed(b)
  PROVE  Refiled(b, b, <<>>)
  BY EmptyJoined DEF Listed, Refiled

(* Dates of the last file, or anything else of the bag. *)
LEMMA Redated ==
  ASSUME NEW b, NEW a, Listed(b), DOMAIN a = Fields,
         a.storage = b.storage, a.next_file_index = b.next_file_index,
         a.disk = b.disk,
         \/ a.files = b.files
         \/ \E g : /\ a.files = [b.files EXCEPT ![Len(b.files)] = g]
                   /\ Len(b.files) > 0
                   /\ "index" \in DOMAIN g /\ g.index = b.files[Len(b.files)].index
  PROVE  Refiled(b, a, <<>>)
  <1>1. IsSequence(a.files) /\ Len(a.files) = Len(b.files)
        /\ \A i \in 1 .. Len(b.files) : "index" \in DOMAIN a.files[i] /\ a.files[i].index = b.files[i].index
    <2>1. CASE a.files = b.files
      BY <2>1 DEF Listed
    <2>2. ASSUME NEW g, a.files = [b.files EXCEPT ![Len(b.files)] = g], Len(b.files) > 0,
                 "index" \in DOMAIN g, g.index = b.files[Len(b.files)].index
          PROVE  IsSequence(a.files) /\ Len(a.files) = Len(b.files)
                 /\ \A i \in 1 .. Len(b.files) : "index" \in DOMAIN a.files[i] /\ a.files[i].index = b.files[i].index
      <3>1. IsSequence(b.files) /\ Len(b.files) \in 1 .. Len(b.files)
        BY <2>2, SequenceFacts DEF Listed
      <3>2. IsSequence(a.files) /\ Len(a.files) = Len(b.files)
            /\ \A i \in 1 .. Len(b.files) : a.files[i] = IF i = Len(b.files) THEN g ELSE b.files[i]
        BY <2>2, <3>1, OneChanged
      <3> QED
        BY <2>2, <3>2 DEF Listed
    <2> QED
      BY <2>1, <2>2
  <1>2. \A k \in DOMAIN b.disk : b.disk[k].messages \o <<>> = b.disk[k].messages
    BY EmptyJoined DEF Listed
  <1> QED
    BY <1>1, <1>2 DEF Refiled, Listed

(* The storage adds the messages to the last file. *)
LEMMA PutRefiles ==
  ASSUME NEW b, NEW x, Listed(b), IsSequence(x), x = <<>> \/ b.storage # NoFile
  PROVE  Refiled(b, Put(b, x), x)
  <1>1. CASE x = <<>>
    <2>1. Put(b, x) = b
      BY <1>1 DEF Put
    <2> QED
      BY <1>1, <2>1, RefiledNot
  <1>2. CASE x # <<>>
    <2> DEFINE a == Put(b, x)
               n == Len(b.files)
    <2>1. b.storage # NoFile
      BY <1>2
    <2>2. b.storage \in DOMAIN b.disk /\ n \in 1 .. n
      BY <2>1, StorageIsLast
    <2>3. DOMAIN b = Fields
      BY DEF Listed
    <2>4. DOMAIN a = Fields /\ a.storage = b.storage /\ a.next_file_index = b.next_file_index
      BY <1>2, <2>3 DEF Put, Fields
    <2>5. a.disk = [b.disk EXCEPT ![b.storage].messages = @ \o x]
      BY <1>2, <2>3 DEF Put, Fields
    <2>6. a.files = [b.files EXCEPT ![n].message_count = @ + Len(x)]
      BY <1>2, <2>3 DEF Put, Fields
    <2> DEFINE g == [b.files[n] EXCEPT !.message_count = @ + Len(x)]
    <2>7. a.files = [b.files EXCEPT ![n] = g]
      BY <2>6
    <2>8. "index" \in DOMAIN g /\ g.index = b.files[n].index
      BY <2>2 DEF Listed
    <2> HIDE DEF g, a
    <2>9. IsSequence(a.files) /\ Len(a.files) = n
          /\ \A i \in 1 .. n : a.files[i] = IF i = n THEN g ELSE b.files[i]
      <3>1. IsSequence(b.files) /\ n \in 1 .. Len(b.files)
        BY <2>2 DEF Listed
      <3> DEFINE r == [b.files EXCEPT ![n] = g]
      <3> HIDE DEF n
      <3>2. r = [b.files EXCEPT ![n] = g] /\ a.files = r
        BY <2>7
      <3> HIDE DEF r
      <3>3. /\ IsSequence(r) /\ Len(r) = Len(b.files)
            /\ \A i \in 1 .. Len(b.files) : r[i] = IF i = n THEN g ELSE b.files[i]
        BY <3>1, <3>2, OneChangedIs
      <3> QED
        BY <3>2, <3>3 DEF n
    <2>10. \A i \in 1 .. n : "index" \in DOMAIN a.files[i] /\ a.files[i].index = b.files[i].index
      BY <2>8, <2>9 DEF Listed
    <2>11. DOMAIN a.disk = DOMAIN b.disk
      BY <2>5
    <2>12. ASSUME NEW k \in DOMAIN b.disk
           PROVE  /\ "messages" \in DOMAIN a.disk[k]
                  /\ k # b.storage => a.disk[k].messages = b.disk[k].messages
                  /\ k = b.storage => a.disk[k].messages = b.disk[k].messages \o x
      <3>1. "messages" \in DOMAIN b.disk[k]
        BY DEF Listed
      <3>2. k # b.storage => a.disk[k] = b.disk[k]
        BY <2>5
      <3>3. k = b.storage => a.disk[k] = [b.disk[k] EXCEPT !.messages = @ \o x]
        BY <2>2, <2>5
      <3> QED
        BY <3>1, <3>2, <3>3
    <2> QED
      BY <2>4, <2>9, <2>10, <2>11, <2>12 DEF Refiled, a
  <1> QED
    BY <1>1, <1>2

(* Counting leaves the files and the storage as they are. *)
LEMMA CountInSame ==
  ASSUME NEW b, NEW x, DOMAIN b = Fields
  PROVE  LET a == CountIn(b, x) IN
         /\ DOMAIN a = Fields
         /\ a.storage = b.storage /\ a.next_file_index = b.next_file_index
         /\ a.disk = b.disk /\ a.files = b.files
         /\ a.starting_time = b.starting_time /\ a.duration = b.duration /\ a.asked = b.asked
         /\ DOMAIN a.topics = DOMAIN b.topics
  <1>1. CASE x = <<>>
    BY <1>1 DEF CountIn
  <1>2. CASE x # <<>>
    BY <1>2 DEF CountIn, Fields
  <1> QED
    BY <1>1, <1>2

(* write_messages() of nothing does nothing. *)
LEMMA NothingAdded ==
  ASSUME NEW b
  PROVE  AddToFile(b, <<>>) = b
  BY DEF AddToFile, Put, CountIn

(* write_messages() adds the messages to the last file. *)
LEMMA AddToFileRefiles ==
  ASSUME NEW b, NEW x, Listed(b), IsSequence(x), x = <<>> \/ b.storage # NoFile
  PROVE  Refiled(b, AddToFile(b, x), x)
  <1> DEFINE c == Put(b, x)
  <1>1. Refiled(b, c, x)
    BY PutRefiles
  <1>2. DOMAIN c = Fields
    BY <1>1 DEF Refiled
  <1> HIDE DEF c
  <1>3. /\ DOMAIN CountIn(c, x) = Fields
        /\ CountIn(c, x).storage = c.storage /\ CountIn(c, x).next_file_index = c.next_file_index
        /\ CountIn(c, x).disk = c.disk /\ CountIn(c, x).files = c.files
    BY <1>2, CountInSame
  <1>4. Refiled(b, CountIn(c, x), x)
    BY <1>1, <1>3 DEF Refiled
  <1> QED
    BY <1>4 DEF AddToFile, c

(* Span, Prepend and AddSnapshot change dates besides. *)
LEMMA SpanRedates ==
  ASSUME NEW b, NEW stamp, Listed(b), Len(b.files) > 0
  PROVE  Refiled(b, Span(b, stamp), <<>>)
  <1> DEFINE a == Span(b, stamp)
             n == Len(b.files)
             f == b.files[n]
             first == Least(f.starting_time, stamp)
             g == [f EXCEPT !.starting_time = first, !.duration = Greatest(@, stamp - first)]
  <1>1. DOMAIN b = Fields /\ n \in 1 .. n
    BY SequenceFacts DEF Listed
  <1>2. DOMAIN a = Fields /\ a.storage = b.storage /\ a.next_file_index = b.next_file_index /\ a.disk = b.disk
    BY <1>1 DEF Span, Fields
  <1>3. a.files = [b.files EXCEPT ![n].starting_time = first, ![n].duration = Greatest(@, stamp - first)]
    BY <1>1 DEF Span, Fields
  <1>4. n \in DOMAIN b.files
    BY <1>1, SequenceFacts DEF Listed
  <1>5. a.files = [b.files EXCEPT ![n] = g]
    BY <1>3, <1>4
  <1>6. "index" \in DOMAIN g /\ g.index = b.files[n].index
    BY <1>1 DEF Listed
  <1> HIDE DEF g, a
  <1>7. Refiled(b, a, <<>>)
    BY <1>2, <1>5, <1>6, Redated
  <1> QED
    BY <1>7 DEF a

(* write_transient_local_messages() adds its messages to the file. *)
LEMMA PrependRefiles ==
  ASSUME NEW b, NEW x, Listed(b), IsSequence(x), b.storage # NoFile, Heads = <<>> => x = <<>>
  PROVE  Refiled(b, Prepend(b, x), x)
  <1>1. CASE Heads = <<>>
    <2>1. Prepend(b, x) = b /\ x = <<>>
      BY <1>1 DEF Prepend
    <2> QED
      BY <2>1, RefiledNot
  <1>2. CASE Heads # <<>>
    <2> DEFINE c == AddToFile(b, x)
               a == Prepend(b, x)
               n == Len(b.files)
               g == [c.files[n] EXCEPT !.starting_time = Least(@, last_recv)]
    <2>1. Refiled(b, c, x) /\ Listed(c)
      BY AddToFileRefiles, RefiledIsListed
    <2>2. a = [c EXCEPT !.starting_time = Least(@, last_recv),
                        !.files[n].starting_time = Least(@, last_recv)]
      BY <1>2 DEF Prepend
    <2>3. DOMAIN c = Fields /\ Len(c.files) = n /\ n \in 1 .. n
      BY <2>1, StorageIsLast DEF Refiled
    <2> HIDE DEF a, c
    <2>4. /\ DOMAIN a = Fields /\ a.storage = c.storage /\ a.next_file_index = c.next_file_index
          /\ a.disk = c.disk /\ a.files = [c.files EXCEPT ![n] = g]
      BY <2>2, <2>3 DEF Fields
    <2>5. "index" \in DOMAIN g /\ g.index = c.files[n].index /\ Len(c.files) > 0
      BY <2>1, <2>3 DEF Listed
    <2> HIDE DEF g
    <2>6. Refiled(c, a, <<>>)
      BY <2>1, <2>3, <2>4, <2>5, Redated
    <2>7. Refiled(b, a, x)
      BY <2>1, <2>6, RefiledTwice
    <2> QED
      BY <2>7 DEF a
  <1> QED
    BY <1>1, <1>2

(* write_messages() of a snapshot adds it to the file. *)
LEMMA AddSnapshotRefiles ==
  ASSUME NEW b, NEW x, Listed(b), IsSequence(x), b.storage # NoFile
  PROVE  Refiled(b, AddSnapshot(b, x), x)
  <1>1. CASE x = <<>>
    <2>1. AddSnapshot(b, x) = b
      BY <1>1 DEF AddSnapshot
    <2> QED
      BY <1>1, <2>1, RefiledNot
  <1>2. CASE x # <<>>
    <2> DEFINE c == AddToFile(b, x)
               a == AddSnapshot(b, x)
               n == Len(b.files)
               g == [c.files[n] EXCEPT !.starting_time = Head(x).stamp,
                                       !.duration = Last(x).stamp - Head(x).stamp]
    <2>1. Refiled(b, c, x) /\ Listed(c)
      BY AddToFileRefiles, RefiledIsListed
    <2>2. a = [c EXCEPT !.files[n].starting_time = Head(x).stamp,
                        !.files[n].duration = Last(x).stamp - Head(x).stamp]
      BY <1>2 DEF AddSnapshot
    <2>3. DOMAIN c = Fields /\ Len(c.files) = n /\ n \in 1 .. n
      BY <2>1, StorageIsLast DEF Refiled
    <2>31. n \in DOMAIN c.files
      BY <2>1, <2>3, SequenceFacts DEF Listed
    <2> HIDE DEF a, c
    <2>4. /\ DOMAIN a = Fields /\ a.storage = c.storage /\ a.next_file_index = c.next_file_index
          /\ a.disk = c.disk
      BY <2>2, <2>3 DEF Fields
    <2>41. a.files = [c.files EXCEPT ![n].starting_time = Head(x).stamp,
                                     ![n].duration = Last(x).stamp - Head(x).stamp]
      BY <2>2, <2>3 DEF Fields
    <2>42. a.files = [c.files EXCEPT ![n] = g]
      BY <2>31, <2>41
    <2>5. "index" \in DOMAIN g /\ g.index = c.files[n].index /\ Len(c.files) > 0
      BY <2>1, <2>3 DEF Listed
    <2> HIDE DEF g
    <2>6. Refiled(c, a, <<>>)
      BY <2>1, <2>3, <2>4, <2>42, <2>5, Redated
    <2>7. Refiled(b, a, x)
      BY <2>1, <2>6, RefiledTwice
    <2> QED
      BY <2>7 DEF a
  <1> QED
    BY <1>1, <1>2

(* The next file is empty, and nothing happens to the files that are kept. *)
NextFileIs(b, a, n) ==
    LET k       == b.next_file_index
        dropped == {b.files[i].index : i \in 1 .. n}
    IN  /\ Listed(a)
        /\ a.storage = k /\ k \in Nat /\ k \notin DOMAIN b.disk
        /\ Len(a.files) = Len(b.files) + 1 - n
        /\ dropped \subseteq DOMAIN b.disk
        /\ DOMAIN a.disk = (DOMAIN b.disk \ dropped) \cup {k}
        /\ a.disk[k].messages = <<>>
        /\ \A j \in DOMAIN b.disk \ dropped : a.disk[j].messages = b.disk[j].messages
        /\ \A j \in DOMAIN b.disk : j < k

(* switch_to_next_storage() opens an empty file and forgets the oldest ones. *)
LEMMA NextFileLists ==
  ASSUME NEW b, Listed(b), NEW n \in 0 .. Len(b.files)
  PROVE  NextFileIs(b, NextFile(b, n), n)
  <1> DEFINE k == b.next_file_index
             l == Len(b.files)
             dropped == {b.files[i].index : i \in 1 .. n}
             fresh == [formats |-> [t \in DOMAIN b.topics |-> FALSE], messages |-> <<>>]
             c == [b EXCEPT !.storage = k,
                            !.next_file_index = k + 1,
                            !.disk = [i \in DOMAIN @ \cup {k} |-> IF i = k THEN fresh ELSE @[i]],
                            !.files = Append(@, NewFile(k)),
                            !.per_file = Append(@, NoCounts)]
             a == NextFile(b, n)
  <1>1. /\ DOMAIN b = Fields /\ k \in Nat /\ IsSequence(b.files) /\ l \in Nat
        /\ DOMAIN b.disk = {b.files[i].index : i \in 1 .. l}
        /\ \A i \in 1 .. l : b.files[i].index \in Nat /\ b.files[i].index < k
    BY SequenceFacts DEF Listed
  <1>2. \A j \in DOMAIN b.disk : j \in Nat /\ j < k
    BY <1>1
  <1>3. k \notin DOMAIN b.disk
    BY <1>2
  <1>4. /\ DOMAIN c = Fields /\ c.storage = k /\ c.next_file_index = k + 1
        /\ c.files = Append(b.files, NewFile(k))
        /\ c.disk = [i \in DOMAIN b.disk \cup {k} |-> IF i = k THEN fresh ELSE b.disk[i]]
    BY <1>1 DEF Fields
  <1>5. /\ IsSequence(c.files) /\ Len(c.files) = l + 1
        /\ \A i \in 1 .. l : c.files[i] = b.files[i]
        /\ c.files[l + 1] = NewFile(k)
    BY <1>1, <1>4, AppendFacts
  <1>6. a = DropOldest(c, n)
    BY DEF NextFile
  <1>7. NewFile(k).index = k /\ "index" \in DOMAIN NewFile(k)
    BY DEF NewFile
  <1>8. fresh.messages = <<>> /\ "messages" \in DOMAIN fresh
    OBVIOUS
  <1> HIDE DEF fresh, c
  <1> DEFINE older == {c.files[i].index : i \in 1 .. n}
  <1>9. n \in Nat /\ n <= l
    BY <1>1
  <1>10. older = dropped
    <2>1. \A i \in 1 .. n : i \in 1 .. l
      BY <1>1, <1>9
    <2> QED
      BY <1>5, <2>1
  <1>11. /\ DOMAIN a = Fields /\ a.storage = k /\ a.next_file_index = k + 1
         /\ a.files = SubSeq(c.files, n + 1, Len(c.files))
         /\ a.disk = [j \in DOMAIN c.disk \ older |-> c.disk[j]]
    BY <1>4, <1>6 DEF DropOldest, Fields
  <1> HIDE DEF a, older
  <1>12. n + 1 \in 1 .. Len(c.files) + 1
    BY <1>1, <1>5, <1>9
  <1>13. /\ IsSequence(a.files) /\ Len(a.files) = Len(c.files) - (n + 1) + 1
         /\ \A i \in 1 .. Len(a.files) : (n + 1) + i - 1 \in 1 .. Len(c.files) /\ a.files[i] = c.files[(n + 1) + i - 1]
    BY <1>5, <1>11, <1>12, RestOf
  <1>14. Len(a.files) = l + 1 - n /\ l + 1 - n \in Nat \ {0}
    BY <1>1, <1>5, <1>9, <1>13
  <1>15. \A i \in 1 .. l + 1 - n : n + i \in 1 .. l + 1 /\ a.files[i] = c.files[n + i]
    <2>1. \A i \in 1 .. l + 1 - n : (n + 1) + i - 1 = n + i
      BY <1>1, <1>9
    <2> QED
      BY <1>5, <1>13, <1>14, <2>1
  <1>16. \A i \in 1 .. l + 1 : i \in 1 .. l \/ i = l + 1
    BY <1>1
  <1>17. \A i \in 1 .. l + 1 : /\ "index" \in DOMAIN c.files[i]
                               /\ c.files[i].index \in Nat /\ c.files[i].index < k + 1
                               /\ i = l + 1 => c.files[i].index = k
                               /\ i # l + 1 => c.files[i].index = b.files[i].index
    <2>1. ASSUME NEW i \in 1 .. l PROVE /\ "index" \in DOMAIN c.files[i]
                               /\ c.files[i].index \in Nat /\ c.files[i].index < k + 1
                               /\ i # l + 1 /\ c.files[i].index = b.files[i].index
      <3>1. "index" \in DOMAIN b.files[i]
        BY DEF Listed
      <3> QED
        BY <1>1, <1>5, <3>1
    <2>2. "index" \in DOMAIN c.files[l + 1] /\ c.files[l + 1].index = k /\ k \in Nat /\ k < k + 1
      BY <1>1, <1>5, <1>7
    <2> QED
      BY <1>16, <2>1, <2>2
  <1>18. \A i, j \in 1 .. l + 1 : i < j => c.files[i].index < c.files[j].index
    <2> SUFFICES ASSUME NEW i \in 1 .. l + 1, NEW j \in 1 .. l + 1, i < j
                 PROVE  c.files[i].index < c.files[j].index
      OBVIOUS
    <2>1. i \in 1 .. l /\ i # l + 1
      BY <1>1
    <2>2. CASE j = l + 1
      BY <1>1, <1>17, <2>1, <2>2
    <2>3. CASE j # l + 1
      <3>1. j \in 1 .. l
        BY <1>16, <2>3
      <3>2. b.files[i].index < b.files[j].index
        BY <2>1, <3>1 DEF Listed
      <3> QED
        BY <1>17, <2>1, <2>3, <3>2
    <2> QED
      BY <2>2, <2>3
  <1>19. \A i, j \in 1 .. Len(a.files) : i < j => a.files[i].index < a.files[j].index
    <2> SUFFICES ASSUME NEW i \in 1 .. Len(a.files), NEW j \in 1 .. Len(a.files), i < j
                 PROVE  a.files[i].index < a.files[j].index
      OBVIOUS
    <2>1. i \in 1 .. l + 1 - n /\ j \in 1 .. l + 1 - n
      BY <1>14
    <2>2. n + i < n + j /\ n + i \in 1 .. l + 1 /\ n + j \in 1 .. l + 1
      BY <1>9, <1>15, <2>1
    <2> QED
      BY <1>15, <1>18, <2>1, <2>2
  <1>20. DOMAIN c.disk = DOMAIN b.disk \cup {k} /\ \A j \in DOMAIN c.disk : c.disk[j] = IF j = k THEN fresh ELSE b.disk[j]
    BY <1>4
  <1>21. dropped \subseteq DOMAIN b.disk /\ k \notin dropped
    <2>1. \A i \in 1 .. n : i \in 1 .. l
      BY <1>1, <1>9
    <2> QED
      BY <1>1, <1>3, <2>1
  <1>22. /\ DOMAIN a.disk = (DOMAIN b.disk \ dropped) \cup {k}
         /\ a.disk[k] = fresh
         /\ \A j \in DOMAIN b.disk \ dropped : a.disk[j] = b.disk[j]
    BY <1>3, <1>10, <1>11, <1>20, <1>21
  <1>23. DOMAIN a.disk = {a.files[i].index : i \in 1 .. Len(a.files)}
    <2>1. ASSUME NEW i \in 1 .. Len(a.files) PROVE a.files[i].index \in DOMAIN a.disk
      <3>1. i \in 1 .. l + 1 - n /\ n + i \in 1 .. l + 1 /\ a.files[i] = c.files[n + i]
        BY <1>14, <1>15
      <3>2. CASE n + i = l + 1
        BY <1>17, <1>22, <3>1, <3>2
      <3>3. CASE n + i # l + 1
        <4>1. n + i \in 1 .. l /\ a.files[i].index = b.files[n + i].index
          BY <1>16, <1>17, <3>1, <3>3
        <4>2. b.files[n + i].index \notin dropped
          <5> SUFFICES ASSUME NEW j \in 1 .. n, b.files[j].index = b.files[n + i].index PROVE FALSE
            OBVIOUS
          <5>1. j \in 1 .. l /\ j < n + i
            BY <1>1, <1>9, <3>1
          <5>2. b.files[j].index < b.files[n + i].index
            BY <4>1, <5>1 DEF Listed
          <5> QED
            BY <1>1, <4>1, <5>1, <5>2
        <4> QED
          BY <1>1, <1>22, <4>1, <4>2
      <3> QED
        BY <3>2, <3>3
    <2>2. ASSUME NEW x \in DOMAIN a.disk PROVE \E i \in 1 .. Len(a.files) : x = a.files[i].index
      <3>1. ASSUME NEW m \in 1 .. l + 1, m > n, x = c.files[m].index
            PROVE  \E i \in 1 .. Len(a.files) : x = a.files[i].index
        <4>1. m - n \in 1 .. l + 1 - n /\ n + (m - n) = m
          BY <1>1, <1>9, <3>1
        <4> QED
          BY <1>14, <1>15, <3>1, <4>1
      <3>2. CASE x = k
        <4>1. l + 1 \in 1 .. l + 1 /\ l + 1 > n /\ x = c.files[l + 1].index
          BY <1>1, <1>5, <1>7, <1>9, <3>2
        <4> QED
          BY <3>1, <4>1
      <3>3. CASE x # k
        <4>1. x \in DOMAIN b.disk /\ x \notin dropped
          BY <1>22, <3>3
        <4>2. PICK m \in 1 .. l : x = b.files[m].index
          BY <1>1, <4>1
        <4>3. m > n
          BY <1>9, <4>1, <4>2
        <4>4. m \in 1 .. l + 1 /\ x = c.files[m].index
          BY <1>1, <1>5, <4>2
        <4> QED
          BY <3>1, <4>3, <4>4
      <3> QED
        BY <3>2, <3>3
    <2> QED
      BY <2>1, <2>2
  <1>24. \A i \in 1 .. Len(a.files) : /\ "index" \in DOMAIN a.files[i]
                                      /\ a.files[i].index \in Nat /\ a.files[i].index < a.next_file_index
    BY <1>11, <1>14, <1>15, <1>17
  <1>25. \A j \in DOMAIN a.disk : "messages" \in DOMAIN a.disk[j] /\ IsSequence(a.disk[j].messages)
    BY <1>8, <1>22, EmptySequence DEF Listed
  <1>26. Len(a.files) > 0 /\ a.storage = a.files[Len(a.files)].index
    <2>1. l + 1 - n \in 1 .. l + 1 - n /\ n + (l + 1 - n) = l + 1
      BY <1>1, <1>9, <1>14
    <2>2. a.files[Len(a.files)] = c.files[l + 1]
      BY <1>14, <1>15, <2>1
    <2>3. c.files[l + 1].index = k
      BY <1>5, <1>7
    <2>4. Len(a.files) > 0
      BY <1>14
    <2> QED
      BY <1>11, <2>2, <2>3, <2>4
  <1>27. a.next_file_index \in Nat
    BY <1>1, <1>11
  <1>28. Listed(a)
    BY <1>11, <1>13, <1>19, <1>23, <1>24, <1>25, <1>26, <1>27 DEF Listed
  <1> QED
    BY <1>1, <1>2, <1>3, <1>8, <1>11, <1>14, <1>21, <1>22, <1>28 DEF NextFileIs, a

-----------------------------------------------------------------------------
(* The latched messages. *)

Latches(queues) ==
    /\ IsFiniteSet(DOMAIN queues)
    /\ \A t \in DOMAIN queues : /\ {"max_depth", "messages"} \subseteq DOMAIN queues[t]
                                /\ IsSequence(queues[t].messages)
                                /\ queues[t].max_depth \in Nat

Copies(x) == \A m \in Range(x) : m.repeat = TRUE

(* A sequence has finitely many elements. *)
LEMMA RangeIsFinite ==
  ASSUME NEW s, IsSequence(s)
  PROVE  IsFiniteSet(Range(s))
  <1>1. Len(s) \in Nat /\ Range(s) = {s[i] : i \in 1 .. Len(s)} /\ s = [i \in 1 .. Len(s) |-> s[i]]
    BY SequenceFacts
  <1>2. IsFiniteSet(1 .. Len(s))
    <2>1. 1 \in Int /\ Len(s) \in Int
      BY <1>1
    <2> QED
      BY <2>1, FS_Interval
  <1>3. s \in Surjection(1 .. Len(s), Range(s))
    BY <1>1 DEF Surjection
  <1> QED
    BY <1>2, <1>3, FS_Surjection

(* The latched messages can be counted, so they can be sorted. *)
LEMMA SortedSequence ==
  ASSUME NEW queues, Latches(queues)
  PROVE  IsSequence(SortedMessages(queues))
  <1> DEFINE parts == {Range(queues[t].messages) : t \in DOMAIN queues}
             all == UNION {Range(queues[t].messages) : t \in DOMAIN queues}
             f == [t \in DOMAIN queues |-> Range(queues[t].messages)]
             r == SortedMessages(queues)
             n == Cardinality(all)
  <1>1. IsFiniteSet(DOMAIN queues)
    BY DEF Latches
  <1>2. f \in Surjection(DOMAIN queues, parts)
    BY DEF Surjection
  <1>3. IsFiniteSet(parts)
    BY <1>1, <1>2, FS_Surjection
  <1>4. \A T \in parts : IsFiniteSet(T)
    BY RangeIsFinite DEF Latches
  <1>5. IsFiniteSet(all)
    <2>1. all = UNION parts
      OBVIOUS
    <2> HIDE DEF parts
    <2> QED
      BY <1>3, <1>4, <2>1, FS_UNION
  <1>6. n \in Nat
    BY <1>5, FS_CardinalityType
  <1>7. r = [i \in 1 .. n |-> r[i]]
    BY DEF SortedMessages
  <1> HIDE DEF r, n
  <1>8. IsSequence(r)
    BY <1>6, <1>7, FunctionSequence
  <1> QED
    BY <1>8 DEF r

(* The messages with an adjusted stamp are copies. *)
LEMMA AdjustedCopies ==
  ASSUME NEW s, NEW stamp, IsSequence(s)
  PROVE  IsSequence(Adjusted(s, stamp)) /\ Copies(Adjusted(s, stamp))
  <1> DEFINE r == Adjusted(s, stamp)
  <1>1. Len(s) \in Nat /\ DOMAIN s = 1 .. Len(s)
    BY SequenceFacts
  <1>2. r = [i \in 1 .. Len(s) |-> r[i]] /\ \A i \in 1 .. Len(s) : r[i].repeat = TRUE
    BY <1>1 DEF Adjusted
  <1> HIDE DEF r
  <1>3. IsSequence(r) /\ Len(r) = Len(s)
    BY <1>1, <1>2, FunctionSequence
  <1>4. Range(r) = {r[i] : i \in 1 .. Len(s)}
    BY <1>3, SequenceFacts
  <1> QED
    BY <1>2, <1>3, <1>4 DEF r, Copies

(* Only copies come at the head of a file. *)
LEMMA HeadsAreCopies ==
  ASSUME Latches(transient)
  PROVE  IsSequence(Heads) /\ Copies(Heads)
  <1>1. IsSequence(<<>>) /\ Copies(<<>>)
    BY EmptySequence DEF Copies
  <1> QED
    BY <1>1, SortedSequence, AdjustedCopies DEF Heads

(* A snapshot is the cache after some copies. *)
LEMMA SnapshotIs ==
  ASSUME Latches(transient), IsSequence(cache)
  PROVE  \E x : IsSequence(x) /\ Copies(x) /\ SnapshotMessages = x \o cache
  <1>1. CASE cache = <<>>
    <2>1. IsSequence(<<>>) /\ Copies(<<>>)
      BY EmptySequence DEF Copies
    <2>2. SnapshotMessages = <<>> /\ <<>> \o cache = <<>>
      BY <1>1, <2>1, EmptyJoined DEF SnapshotMessages
    <2> QED
      BY <2>1, <2>2
  <1>2. CASE cache # <<>>
    <2> DEFINE sorted == SortedMessages(transient)
               K == {i \in DOMAIN sorted : sorted[i].stamp < cache[1].stamp}
               x == Adjusted(At(sorted, K), cache[1].stamp)
    <2>1. IsSequence(sorted)
      BY SortedSequence
    <2>2. IsSequence(At(sorted, K))
      <3> HIDE DEF sorted
      <3>1. K \in SUBSET DOMAIN sorted
        OBVIOUS
      <3> QED
        BY <2>1, <3>1, AtFacts
    <2>3. IsSequence(x) /\ Copies(x)
      BY <2>2, AdjustedCopies
    <2>4. SnapshotMessages = x \o cache
      BY <1>2 DEF SnapshotMessages
    <2> QED
      BY <2>3, <2>4
  <1> QED
    BY <1>1, <1>2

(* The newest messages are the end of a queue. *)
LEMMA NewestFacts ==
  ASSUME NEW s, IsSequence(s), NEW depth \in Nat
  PROVE  /\ IsSequence(Newest(s, depth))
         /\ \E m \in 1 .. Len(s) + 1 : Newest(s, depth) = SubSeq(s, m, Len(s))
  <1> DEFINE m == IF Len(s) > depth THEN Len(s) - depth + 1 ELSE 1
  <1>1. Len(s) \in Nat
    BY SequenceFacts
  <1>2. m \in 1 .. Len(s) + 1
    BY <1>1
  <1>3. Newest(s, depth) = SubSeq(s, m, Len(s))
    BY DEF Newest
  <1> HIDE DEF m
  <1>4. IsSequence(SubSeq(s, m, Len(s)))
    BY <1>2, RestOf
  <1> QED
    BY <1>2, <1>3, <1>4

-----------------------------------------------------------------------------
(* Order. *)

Ordered(s) == \A p, q \in DOMAIN s : p < q /\ ~s[p].repeat /\ ~s[q].repeat => s[p].id < s[q].id
Below(S, T) == \A m \in S, n \in T : ~m.repeat /\ ~n.repeat => m.id < n.id
Stored(b) == UNION {Range(b.disk[k].messages) : k \in DOMAIN b.disk}

(* Each message is once in the files and then, in s, on its way to them.     *)
InOrder(b, s) ==
    /\ \A k \in DOMAIN b.disk : Ordered(b.disk[k].messages)
    /\ \A k, l \in DOMAIN b.disk : k < l => Below(Range(b.disk[k].messages), Range(b.disk[l].messages))
    /\ \A k \in DOMAIN b.disk : Below(Range(b.disk[k].messages), Range(s))
    /\ Ordered(s)

Numbered(S, n) == \A m \in S : ~m.repeat => m.id \in 1 .. n

(* The bag is sound: of n messages, some are in the files, some of s follow. *)
Sound(b, s, n) ==
    /\ Listed(b) /\ IsSequence(s)
    /\ InOrder(b, s)
    /\ Numbered(Stored(b) \cup Range(s), n)

(* y is made of messages of x, in their order, and copies.                   *)
PartOf(y, x) ==
    /\ IsSequence(y) /\ Ordered(y)
    /\ \A m \in Range(y) : ~m.repeat => m \in Range(x)

(* Two ordered sequences, the second above the first. *)
LEMMA OrderedJoined ==
  ASSUME NEW s, NEW t, IsSequence(s), IsSequence(t)
  PROVE  Ordered(s \o t) <=> Ordered(s) /\ Ordered(t) /\ Below(Range(s), Range(t))
  <1> DEFINE u == s \o t
  <1>1. /\ Len(s) \in Nat /\ Len(t) \in Nat /\ DOMAIN s = 1 .. Len(s) /\ DOMAIN t = 1 .. Len(t)
        /\ Range(s) = {s[i] : i \in 1 .. Len(s)} /\ Range(t) = {t[i] : i \in 1 .. Len(t)}
    BY SequenceFacts
  <1>2. /\ IsSequence(u) /\ Len(u) = Len(s) + Len(t)
        /\ \A i \in 1 .. Len(s) : u[i] = s[i]
        /\ \A i \in 1 .. Len(t) : u[Len(s) + i] = t[i]
        /\ \A i \in 1 .. Len(s) + Len(t) : i \in 1 .. Len(s) \/ \E j \in 1 .. Len(t) : i = Len(s) + j
    BY ConcatFacts
  <1>3. DOMAIN u = 1 .. Len(s) + Len(t)
    BY <1>2, SequenceFacts
  <1>4. \A i \in 1 .. Len(s) : i \in 1 .. Len(s) + Len(t)
    BY <1>1
  <1>5. \A i \in 1 .. Len(t) : Len(s) + i \in 1 .. Len(s) + Len(t)
    BY <1>1
  <1> HIDE DEF u
  <1>6. ASSUME Ordered(u) PROVE Ordered(s) /\ Ordered(t) /\ Below(Range(s), Range(t))
    <2>1. Ordered(s)
      BY <1>1, <1>2, <1>3, <1>4, <1>6 DEF Ordered
    <2>2. Ordered(t)
      <3> SUFFICES ASSUME NEW p \in 1 .. Len(t), NEW q \in 1 .. Len(t), p < q, ~t[p].repeat, ~t[q].repeat
                   PROVE  t[p].id < t[q].id
        BY <1>1 DEF Ordered
      <3>1. Len(s) + p < Len(s) + q
        BY <1>1
      <3> QED
        BY <1>2, <1>3, <1>5, <1>6, <3>1 DEF Ordered
    <2>3. Below(Range(s), Range(t))
      <3> SUFFICES ASSUME NEW p \in 1 .. Len(s), NEW q \in 1 .. Len(t), ~s[p].repeat, ~t[q].repeat
                   PROVE  s[p].id < t[q].id
        BY <1>1 DEF Below
      <3>1. p < Len(s) + q
        BY <1>1
      <3> QED
        BY <1>2, <1>3, <1>4, <1>5, <1>6, <3>1 DEF Ordered
    <2> QED
      BY <2>1, <2>2, <2>3
  <1>7. ASSUME Ordered(s), Ordered(t), Below(Range(s), Range(t)) PROVE Ordered(u)
    <2> SUFFICES ASSUME NEW p \in 1 .. Len(s) + Len(t), NEW q \in 1 .. Len(s) + Len(t),
                        p < q, ~u[p].repeat, ~u[q].repeat
                 PROVE  u[p].id < u[q].id
      BY <1>3 DEF Ordered
    <2>1. CASE p \in 1 .. Len(s) /\ q \in 1 .. Len(s)
      BY <1>1, <1>2, <1>7, <2>1 DEF Ordered
    <2>2. ASSUME p \in 1 .. Len(s), NEW j \in 1 .. Len(t), q = Len(s) + j PROVE u[p].id < u[q].id
      <3>1. s[p] \in Range(s) /\ t[j] \in Range(t)
        BY <1>1, <2>2
      <3> QED
        BY <1>2, <1>7, <2>2, <3>1 DEF Below
    <2>3. ASSUME NEW i \in 1 .. Len(t), p = Len(s) + i, NEW j \in 1 .. Len(t), q = Len(s) + j
          PROVE  u[p].id < u[q].id
      <3>1. i < j
        BY <1>1, <2>3
      <3>2. u[p] = t[i] /\ u[q] = t[j]
        BY <1>2, <2>3
      <3>3. ~t[i].repeat /\ ~t[j].repeat
        BY <3>2
      <3>4. t[i].id < t[j].id
        BY <1>1, <1>7, <3>1, <3>3 DEF Ordered
      <3> QED
        BY <3>2, <3>4
    <2>4. ASSUME NEW i \in 1 .. Len(t), p = Len(s) + i, q \in 1 .. Len(s) PROVE FALSE
      BY <1>1, <2>4
    <2> QED
      BY <1>2, <2>1, <2>2, <2>3, <2>4
  <1> QED
    BY <1>6, <1>7 DEF u

(* Copies are in any order. *)
LEMMA OrderedCopies ==
  ASSUME NEW s, IsSequence(s), Copies(s)
  PROVE  Ordered(s) /\ PartOf(s, <<>>)
  <1>1. \A i \in DOMAIN s : s[i] \in Range(s)
    BY DEF Range
  <1>2. Ordered(s)
    BY <1>1 DEF Ordered, Copies
  <1> QED
    BY <1>2 DEF PartOf, Copies

(* What the storage did not refuse. *)
LEMMA KeptFacts ==
  ASSUME NEW s, NEW losses, IsSequence(s)
  PROVE  /\ IsSequence(Kept(s, losses))
         /\ Range(Kept(s, losses)) = Range(s) \ losses
         /\ Ordered(s) => Ordered(Kept(s, losses))
         /\ s = <<>> => Kept(s, losses) = <<>>
  <1> DEFINE K == {i \in DOMAIN s : s[i] \notin losses}
             r == At(s, K)
  <1>1. Kept(s, losses) = r
    BY DEF Kept
  <1>2. K \in SUBSET DOMAIN s
    OBVIOUS
  <1>3. Len(s) \in Nat /\ DOMAIN s = 1 .. Len(s)
    BY SequenceFacts
  <1>4. \A k \in K : k \in DOMAIN s /\ k \in Nat /\ s[k] \notin losses
    BY <1>3
  <1>5. Range(s) \ losses = {s[k] : k \in K}
    BY DEF Range
  <1> HIDE DEF K
  <1>6. /\ IsSequence(r)
        /\ Range(r) = {s[k] : k \in K}
        /\ \A i \in 1 .. Len(r) : Ranked(K, i) \in K /\ r[i] = s[Ranked(K, i)]
        /\ \A i, j \in 1 .. Len(r) : i < j => Ranked(K, i) < Ranked(K, j)
    BY <1>2, AtFacts
  <1> HIDE DEF r
  <1>7. DOMAIN r = 1 .. Len(r)
    BY <1>6, SequenceFacts
  <1>8. Ordered(s) => Ordered(r)
    <2> SUFFICES ASSUME Ordered(s), NEW p \in 1 .. Len(r), NEW q \in 1 .. Len(r), p < q,
                        ~r[p].repeat, ~r[q].repeat
                 PROVE  r[p].id < r[q].id
      BY <1>7 DEF Ordered
    <2>1. Ranked(K, p) \in DOMAIN s /\ Ranked(K, q) \in DOMAIN s /\ Ranked(K, p) < Ranked(K, q)
      BY <1>4, <1>6
    <2> QED
      BY <1>6, <2>1 DEF Ordered
  <1>9. s = <<>> => r = <<>>
    <2> SUFFICES ASSUME s = <<>> PROVE r = <<>>
      OBVIOUS
    <2>1. Range(r) = {}
      BY <1>5, <1>6, EmptySequence
    <2>2. Len(r) \in Nat /\ Range(r) = {r[i] : i \in 1 .. Len(r)} /\ (Len(r) = 0 <=> r = <<>>)
      BY <1>6, SequenceFacts
    <2>3. \A i \in 1 .. Len(r) : r[i] \in Range(r)
      BY <2>2
    <2>4. 1 \notin 1 .. Len(r)
      BY <2>1, <2>3
    <2>5. Len(r) = 0
      BY <2>2, <2>4
    <2> QED
      BY <2>2, <2>5
  <1> QED
    BY <1>1, <1>5, <1>6, <1>8, <1>9

(* Some of these messages are as well. *)
LEMMA KeptIsPart ==
  ASSUME NEW s, NEW losses, NEW x, PartOf(s, x)
  PROVE  PartOf(Kept(s, losses), x)
  BY KeptFacts DEF PartOf

(* What the files hold once x is written. *)
LEMMA RefiledStored ==
  ASSUME NEW b, NEW a, NEW x, Listed(b), IsSequence(x), Refiled(b, a, x), x = <<>> \/ b.storage # NoFile
  PROVE  Stored(a) = Stored(b) \cup Range(x)
  <1>1. \A k \in DOMAIN b.disk : Range(b.disk[k].messages \o x) = Range(b.disk[k].messages) \cup Range(x)
    BY ConcatFacts DEF Listed
  <1>2. DOMAIN a.disk = DOMAIN b.disk
    BY DEF Refiled
  <1>3. \A k \in DOMAIN b.disk : /\ k # b.storage => Range(a.disk[k].messages) = Range(b.disk[k].messages)
                                 /\ k = b.storage => Range(a.disk[k].messages) = Range(b.disk[k].messages) \cup Range(x)
    BY <1>1 DEF Refiled
  <1>4. x = <<>> => Range(x) = {}
    BY EmptySequence
  <1>5. x # <<>> => b.storage \in DOMAIN b.disk
    BY StorageIsLast
  <1>6. ASSUME NEW m \in Stored(a) PROVE m \in Stored(b) \cup Range(x)
    BY <1>2, <1>3, <1>6 DEF Stored
  <1>7. ASSUME NEW m \in Stored(b) PROVE m \in Stored(a)
    BY <1>2, <1>3, <1>7 DEF Stored
  <1>8. ASSUME NEW m \in Range(x) PROVE m \in Stored(a)
    BY <1>2, <1>3, <1>4, <1>5, <1>8 DEF Stored
  <1> QED
    BY <1>6, <1>7, <1>8

(* What is known of what follows the files. *)
LEMMA SoundParts ==
  ASSUME NEW b, NEW x, NEW r, NEW n, Sound(b, x \o r, n), IsSequence(x), IsSequence(r)
  PROVE  /\ Ordered(x) /\ Ordered(r) /\ Below(Range(x), Range(r))
         /\ \A k \in DOMAIN b.disk : /\ Below(Range(b.disk[k].messages), Range(x))
                                     /\ Below(Range(b.disk[k].messages), Range(r))
         /\ Numbered(Stored(b), n) /\ Numbered(Range(x), n) /\ Numbered(Range(r), n)
  <1>1. Range(x \o r) = Range(x) \cup Range(r)
    BY ConcatFacts
  <1>2. Ordered(x) /\ Ordered(r) /\ Below(Range(x), Range(r))
    BY OrderedJoined DEF Sound, InOrder
  <1>3. ASSUME NEW k \in DOMAIN b.disk
        PROVE  Below(Range(b.disk[k].messages), Range(x)) /\ Below(Range(b.disk[k].messages), Range(r))
    <2>1. Below(Range(b.disk[k].messages), Range(x \o r))
      BY DEF Sound, InOrder
    <2> QED
      BY <1>1, <2>1 DEF Below
  <1>4. Numbered(Stored(b), n) /\ Numbered(Range(x), n) /\ Numbered(Range(r), n)
    BY <1>1 DEF Sound, Numbered
  <1> QED
    BY <1>2, <1>3, <1>4

(* What was to be written is. *)
LEMMA SoundOnceFiled ==
  ASSUME NEW b, NEW a, NEW x, NEW y, NEW r, NEW n,
         Sound(b, x \o r, n), IsSequence(x), IsSequence(r), PartOf(y, x),
         Refiled(b, a, y), y = <<>> \/ b.storage # NoFile
  PROVE  Sound(a, r, n)
  <1>1. /\ Ordered(x) /\ Ordered(r) /\ Below(Range(x), Range(r))
        /\ \A k \in DOMAIN b.disk : /\ Below(Range(b.disk[k].messages), Range(x))
                                    /\ Below(Range(b.disk[k].messages), Range(r))
        /\ Numbered(Stored(b), n) /\ Numbered(Range(x), n) /\ Numbered(Range(r), n)
    BY SoundParts
  <1>2. /\ IsSequence(y) /\ Ordered(y) /\ \A m \in Range(y) : ~m.repeat => m \in Range(x)
        /\ Listed(b)
    BY DEF PartOf, Sound
  <1>3. Below(Range(y), Range(r)) /\ Numbered(Range(y), n)
    BY <1>1, <1>2 DEF Below, Numbered
  <1>4. \A k \in DOMAIN b.disk : Below(Range(b.disk[k].messages), Range(y))
    BY <1>1, <1>2 DEF Below
  <1>5. Listed(a) /\ DOMAIN a.disk = DOMAIN b.disk
    BY <1>2, RefiledIsListed DEF Refiled
  <1>6. Stored(a) = Stored(b) \cup Range(y)
    BY <1>2, RefiledStored
  <1>7. \A k \in DOMAIN b.disk :
           /\ IsSequence(b.disk[k].messages) /\ Ordered(b.disk[k].messages)
           /\ k # b.storage => a.disk[k].messages = b.disk[k].messages
           /\ k = b.storage => a.disk[k].messages = b.disk[k].messages \o y
    BY <1>2 DEF Listed, Refiled, Sound, InOrder
  <1>8. \A k \in DOMAIN b.disk :
           Range(b.disk[k].messages \o y) = Range(b.disk[k].messages) \cup Range(y)
    BY <1>2, <1>7, ConcatFacts
  <1>9. ASSUME NEW k \in DOMAIN b.disk
        PROVE  Ordered(a.disk[k].messages) /\ Below(Range(a.disk[k].messages), Range(r))
    <2>1. CASE k # b.storage
      BY <1>1, <1>7, <2>1
    <2>2. CASE k = b.storage
      <3>1. Ordered(b.disk[k].messages \o y)
        BY <1>2, <1>4, <1>7, OrderedJoined
      <3>2. Below(Range(b.disk[k].messages \o y), Range(r))
        BY <1>1, <1>3, <1>8 DEF Below
      <3> QED
        BY <1>7, <2>2, <3>1, <3>2
    <2> QED
      BY <2>1, <2>2
  <1>10. ASSUME NEW k \in DOMAIN b.disk, NEW l \in DOMAIN b.disk, k < l
         PROVE  Below(Range(a.disk[k].messages), Range(a.disk[l].messages))
    <2>1. Below(Range(b.disk[k].messages), Range(b.disk[l].messages))
      BY <1>10 DEF Sound, InOrder
    <2>2. k # b.storage
      <3> SUFFICES ASSUME k = b.storage PROVE FALSE
        OBVIOUS
      <3>1. k \in Nat /\ l \in Nat
        <4>1. \A i \in 1 .. Len(b.files) : b.files[i].index \in Nat
          BY <1>2 DEF Listed
        <4> QED
          BY <1>2, <4>1 DEF Listed
      <3>2. b.storage # NoFile
        BY <3>1 DEF NoFile
      <3>3. l <= k
        BY <1>2, <3>2, StorageIsLast
      <3> QED
        BY <1>10, <3>1, <3>3
    <2>3. CASE l # b.storage
      BY <1>7, <2>1, <2>2, <2>3
    <2>4. CASE l = b.storage
      <3>1. Below(Range(b.disk[k].messages), Range(b.disk[l].messages \o y))
        BY <1>4, <1>8, <2>1 DEF Below
      <3> QED
        BY <1>7, <2>2, <2>4, <3>1
    <2> QED
      BY <2>3, <2>4
  <1>11. Numbered(Stored(a) \cup Range(r), n)
    BY <1>1, <1>3, <1>6 DEF Numbered
  <1> QED
    BY <1>1, <1>5, <1>9, <1>10, <1>11 DEF Sound, InOrder

(* Files become fewer, or empty ones are added. *)
LEMMA SoundFewer ==
  ASSUME NEW b, NEW a, NEW s, NEW n, Sound(b, s, n), Listed(a),
         \A k \in DOMAIN a.disk : \/ a.disk[k].messages = <<>>
                                  \/ k \in DOMAIN b.disk /\ a.disk[k].messages = b.disk[k].messages
  PROVE  Sound(a, s, n)
  <1>1. Range(<<>>) = {} /\ Ordered(<<>>)
    BY EmptySequence DEF Ordered
  <1>2. \A T : Below({}, T) /\ Below(T, {})
    BY DEF Below
  <1>3. \A k \in DOMAIN a.disk : Ordered(a.disk[k].messages) /\ Below(Range(a.disk[k].messages), Range(s))
    BY <1>1, <1>2 DEF Sound, InOrder
  <1>4. ASSUME NEW k \in DOMAIN a.disk, NEW l \in DOMAIN a.disk, k < l
        PROVE  Below(Range(a.disk[k].messages), Range(a.disk[l].messages))
    <2>1. CASE a.disk[k].messages = <<>> \/ a.disk[l].messages = <<>>
      BY <1>1, <1>2, <2>1
    <2>2. CASE ~(a.disk[k].messages = <<>> \/ a.disk[l].messages = <<>>)
      BY <1>4, <2>2 DEF Sound, InOrder
    <2> QED
      BY <2>1, <2>2
  <1>5. \A k \in DOMAIN a.disk : Range(a.disk[k].messages) \subseteq Stored(b)
    BY <1>1 DEF Stored
  <1>6. Stored(a) \subseteq Stored(b)
    BY <1>5 DEF Stored
  <1>7. Numbered(Stored(a) \cup Range(s), n)
    BY <1>6 DEF Sound, Numbered
  <1> QED
    BY <1>3, <1>4, <1>7 DEF Sound, InOrder

(* A new file, and old files deleted. *)
LEMMA SoundNext ==
  ASSUME NEW b, NEW a, NEW s, NEW n, NEW d, Sound(b, s, n), NextFileIs(b, a, d)
  PROVE  Sound(a, s, n)
  BY SoundFewer DEF NextFileIs

(* One more message is to be written. *)
LEMMA SoundQueued ==
  ASSUME NEW b, NEW s, NEW n \in Nat, NEW m, Sound(b, s, n), m.id = n + 1
  PROVE  Sound(b, Append(s, m), n + 1)
  <1> DEFINE u == Append(s, m)
  <1>1. IsSequence(s) /\ Ordered(s) /\ Numbered(Stored(b), n) /\ Numbered(Range(s), n)
    BY DEF Sound, InOrder, Numbered
  <1>2. /\ IsSequence(u) /\ Len(u) = Len(s) + 1 /\ Range(u) = Range(s) \cup {m}
        /\ \A i \in 1 .. Len(s) : u[i] = s[i]
        /\ u[Len(s) + 1] = m
    BY <1>1, AppendFacts
  <1>3. Len(s) \in Nat /\ DOMAIN s = 1 .. Len(s) /\ \A i \in 1 .. Len(s) : s[i] \in Range(s)
    BY <1>1, SequenceFacts
  <1>4. DOMAIN u = 1 .. Len(s) + 1
    BY <1>2, SequenceFacts
  <1> HIDE DEF u
  <1>5. \A i \in 1 .. n : i \in 1 .. n + 1 /\ i < n + 1
    OBVIOUS
  <1>6. Numbered(Stored(b) \cup Range(u), n + 1)
    <2>1. n + 1 \in 1 .. n + 1
      OBVIOUS
    <2> QED
      BY <1>1, <1>2, <1>5, <2>1 DEF Numbered
  <1>7. ASSUME NEW k \in DOMAIN b.disk PROVE Below(Range(b.disk[k].messages), Range(u))
    <2>1. Below(Range(b.disk[k].messages), Range(s))
      BY DEF Sound, InOrder
    <2>2. Range(b.disk[k].messages) \subseteq Stored(b)
      BY DEF Stored
    <2> QED
      BY <1>1, <1>2, <1>5, <2>1, <2>2 DEF Below, Numbered
  <1>8. Ordered(u)
    <2> SUFFICES ASSUME NEW p \in 1 .. Len(s) + 1, NEW q \in 1 .. Len(s) + 1, p < q,
                        ~u[p].repeat, ~u[q].repeat
                 PROVE  u[p].id < u[q].id
      BY <1>4 DEF Ordered
    <2>1. p \in 1 .. Len(s)
      BY <1>3
    <2>2. CASE q \in 1 .. Len(s)
      BY <1>1, <1>2, <1>3, <2>1, <2>2 DEF Ordered
    <2>3. CASE q \notin 1 .. Len(s)
      <3>1. q = Len(s) + 1
        BY <1>3, <2>3
      <3>2. u[p] = s[p] /\ s[p] \in Range(s)
        BY <1>2, <1>3, <2>1
      <3>3. s[p].id \in 1 .. n
        BY <1>1, <3>2 DEF Numbered
      <3> QED
        BY <1>2, <1>5, <3>1, <3>2, <3>3
    <2> QED
      BY <2>2, <2>3
  <1>9. Listed(b) /\ \A k \in DOMAIN b.disk : Ordered(b.disk[k].messages)
    BY DEF Sound, InOrder
  <1>10. \A k, l \in DOMAIN b.disk : k < l => Below(Range(b.disk[k].messages), Range(b.disk[l].messages))
    BY DEF Sound, InOrder
  <1>11. InOrder(b, u)
    BY <1>7, <1>8, <1>9, <1>10 DEF InOrder
  <1> QED
    BY <1>2, <1>6, <1>9, <1>11 DEF Sound, u

(* Some messages are not to be written. *)
LEMMA SoundPart ==
  ASSUME NEW b, NEW s, NEW u, NEW n \in Nat, Sound(b, s, n), PartOf(u, s)
  PROVE  Sound(b, u, n) /\ Sound(b, u, n + 1)
  <1>1. \A i \in 1 .. n : i \in 1 .. n + 1
    OBVIOUS
  <1>2. Listed(b) /\ IsSequence(u)
    BY DEF Sound, PartOf
  <1>3. InOrder(b, u)
    <2>1. \A k \in DOMAIN b.disk : Below(Range(b.disk[k].messages), Range(u))
      BY DEF Sound, InOrder, PartOf, Below
    <2> QED
      BY <2>1 DEF Sound, InOrder, PartOf
  <1>4. Numbered(Stored(b) \cup Range(u), n)
    BY DEF Sound, Numbered, PartOf
  <1>5. Numbered(Stored(b) \cup Range(u), n + 1)
    BY <1>1, <1>4 DEF Numbered
  <1> QED
    BY <1>2, <1>3, <1>4, <1>5 DEF Sound

(* A sequence is made of its own messages, in order, and so are its newest. *)
LEMMA PartsOfSequences ==
  ASSUME NEW s, IsSequence(s), Ordered(s)
  PROVE  /\ PartOf(s, s) /\ PartOf(<<>>, s)
         /\ \A depth \in Nat : PartOf(Newest(s, depth), s)
  <1>1. PartOf(s, s)
    BY DEF PartOf
  <1>2. PartOf(<<>>, s)
    BY EmptySequence DEF PartOf, Ordered
  <1>3. ASSUME NEW depth \in Nat PROVE PartOf(Newest(s, depth), s)
    <2> DEFINE r == Newest(s, depth)
    <2>1. PICK m \in 1 .. Len(s) + 1 : r = SubSeq(s, m, Len(s))
      BY NewestFacts
    <2>2. /\ IsSequence(r)
          /\ \A i \in 1 .. Len(r) : m + i - 1 \in 1 .. Len(s) /\ r[i] = s[m + i - 1]
          /\ Range(r) \subseteq Range(s)
      BY <2>1, RestOf
    <2> HIDE DEF r
    <2>3. Len(s) \in Nat /\ DOMAIN s = 1 .. Len(s) /\ DOMAIN r = 1 .. Len(r) /\ Len(r) \in Nat
      BY <2>2, SequenceFacts
    <2>4. Ordered(r)
      <3> SUFFICES ASSUME NEW p \in 1 .. Len(r), NEW q \in 1 .. Len(r), p < q,
                          ~r[p].repeat, ~r[q].repeat
                   PROVE  r[p].id < r[q].id
        BY <2>3 DEF Ordered
      <3>1. m + p - 1 < m + q - 1
        BY <2>3
      <3> QED
        BY <2>2, <2>3, <3>1 DEF Ordered
    <2> QED
      BY <2>2, <2>4 DEF r, PartOf
  <1> QED
    BY <1>1, <1>2, <1>3

-----------------------------------------------------------------------------
(* The invariant. *)

Todo == in_flight \o cache

Balanced(b, s, L, G, n) == 1 .. n = OriginalIds(L) \cup OriginalIds(Stored(b)) \cup OriginalIds(Range(s)) \cup G

Modes ==
    /\ consumer \in BOOLEAN
    /\ options.mode = "cache" \/ in_flight = <<>>
    /\ options.mode = "direct" => cache = <<>>
    /\ ~is_open => cache = <<>> /\ bag.storage = NoFile
    /\ bag.storage = NoFile => in_flight = <<>> /\ uncounted = <<>> /\ ~consumer
    /\ uncounted # <<>> => in_flight = <<>>
    /\ is_open => Len(bag.files) > 0
    /\ options.mode = "cache" /\ is_open /\ failed = 0 => consumer

IInv ==
    /\ options \in Configurations /\ failed \in Nat
    /\ IsSequence(log) /\ IsSequence(in_flight) /\ IsSequence(uncounted) /\ IsSequence(cache)
    /\ Sound(bag, Todo, Len(log))
    /\ Latches(transient)
    /\ Modes
    /\ RetentionLimit
    /\ options.mode # "snapshot" /\ failed = 0 => Balanced(bag, Todo, lost, gone, Len(log))

(* The originals of two sets. *)
LEMMA IdsOfUnion ==
  ASSUME NEW A, NEW B
  PROVE  OriginalIds(A \cup B) = OriginalIds(A) \cup OriginalIds(B)
  BY DEF OriginalIds

(* Copies are no originals. *)
LEMMA IdsOfCopies ==
  ASSUME NEW s, Copies(s)
  PROVE  OriginalIds(Range(s)) = {}
  BY DEF OriginalIds, Copies

(* No messages, no originals. *)
LEMMA NoIds == OriginalIds({}) = {} /\ OriginalIds(Range(<<>>)) = {}
  BY EmptySequence DEF OriginalIds

(* What was to be written is, or it is lost. *)
LEMMA IdsOfKept ==
  ASSUME NEW s, NEW losses, IsSequence(s)
  PROVE  /\ OriginalIds(Range(Kept(s, losses))) \subseteq OriginalIds(Range(s))
         /\ OriginalIds(Range(s)) \subseteq OriginalIds(losses) \cup OriginalIds(Range(Kept(s, losses)))
  <1>1. Range(Kept(s, losses)) = Range(s) \ losses
    BY KeptFacts
  <1> QED
    BY <1>1 DEF OriginalIds

(* The mode and the limits. *)
LEMMA OptionFacts ==
  ASSUME options \in Configurations
  PROVE  /\ options.mode \in {"direct", "cache", "snapshot"}
         /\ options.max_bag_files \in Nat /\ options.max_cache_size \in Nat
  <1>1. options \in Options
    BY WriterAssumption
  <1> QED
    BY <1>1 DEF Options

(* There are at most as many files to delete as there are files, and deleting them
   leaves no more than the limit with the new one. *)
LEMMA ExcessFacts ==
  ASSUME IInv, NEW n \in 0 .. Excess(bag)
  PROVE  /\ n \in 0 .. Len(bag.files)
         /\ options.max_bag_files > 0 /\ ~(n < Excess(bag)) => Len(bag.files) + 1 - n <= options.max_bag_files
  <1>1. Len(bag.files) \in Nat /\ options.max_bag_files \in Nat
    BY OptionFacts, SequenceFacts DEF IInv, Sound, Listed
  <1>2. CASE options.max_bag_files = 0
    BY <1>1, <1>2 DEF Excess
  <1>3. CASE options.max_bag_files # 0
    <2>1. Excess(bag) = Greatest(0, Len(bag.files) + 1 - options.max_bag_files)
      BY <1>3 DEF Excess
    <2>2. Excess(bag) = IF 0 < Len(bag.files) + 1 - options.max_bag_files
                        THEN Len(bag.files) + 1 - options.max_bag_files ELSE 0
      BY <2>1 DEF Greatest
    <2> QED
      BY <1>1, <1>3, <2>2
  <1> QED
    BY <1>2, <1>3

(* The consumer has written what it had to. *)
Rest == IF options.mode = "cache" THEN <<>> ELSE cache

(* The messages in the files are the same. *)
LEMMA SameFiles ==
  ASSUME NEW b, NEW a, NEW s, NEW n, Sound(b, s, n),
         DOMAIN a = Fields, a.storage = b.storage \/ a.storage = NoFile,
         a.next_file_index \in {b.next_file_index, b.next_file_index + 1},
         a.files = b.files, DOMAIN a.disk = DOMAIN b.disk,
         \A k \in DOMAIN b.disk : "messages" \in DOMAIN a.disk[k] /\ a.disk[k].messages = b.disk[k].messages
  PROVE  Sound(a, s, n) /\ Stored(a) = Stored(b)
  <1>1. Listed(b) /\ b.next_file_index \in Nat
    BY DEF Sound, Listed
  <1>2. a.next_file_index \in Nat /\ \A x \in Nat : x < b.next_file_index => x < a.next_file_index
    BY <1>1
  <1>3. \A i \in 1 .. Len(a.files) : /\ "index" \in DOMAIN a.files[i]
                                     /\ a.files[i].index \in Nat
                                     /\ a.files[i].index < a.next_file_index
    BY <1>1, <1>2 DEF Listed
  <1>4. Listed(a)
    BY <1>1, <1>2, <1>3 DEF Listed
  <1>5. Sound(a, s, n)
    BY <1>4, SoundFewer
  <1>6. Stored(a) = Stored(b)
    BY DEF Stored
  <1> QED
    BY <1>5, <1>6

(* What the consumer still counts is in the files already. *)
LEMMA WrittenSame ==
  ASSUME Listed(bag)
  PROVE  /\ DOMAIN Written = Fields
         /\ Written.storage = bag.storage /\ Written.next_file_index = bag.next_file_index
         /\ Written.disk = bag.disk /\ Written.files = bag.files
         /\ Written.starting_time = bag.starting_time /\ Written.duration = bag.duration
         /\ Listed(Written)
         /\ \A a, x : Refiled(Written, a, x) <=> Refiled(bag, a, x)
  <1>1. /\ DOMAIN Written = Fields
        /\ Written.storage = bag.storage /\ Written.next_file_index = bag.next_file_index
        /\ Written.disk = bag.disk /\ Written.files = bag.files
        /\ Written.starting_time = bag.starting_time /\ Written.duration = bag.duration
    BY CountInSame DEF Written, Listed
  <1>2. Listed(Written)
    BY <1>1 DEF Listed
  <1>3. \A a, x : Refiled(Written, a, x) <=> Refiled(bag, a, x)
    BY <1>1 DEF Refiled
  <1> QED
    BY <1>1, <1>2, <1>3

(* Stopping the consumer: what it had to write is in the file or refused. *)
LEMMA Flushing ==
  ASSUME IInv, NEW losses
  PROVE  LET y == Kept(Pending, losses)
             f == AddToFile(Written, y)
         IN  /\ Refiled(bag, f, y)
             /\ Sound(f, Rest, Len(log)) /\ IsSequence(Rest)
             /\ Stored(f) = Stored(bag) \cup Range(y)
             /\ IsSequence(y)
             /\ Pending = <<>> \/ Pending = Todo
             /\ IsSequence(Pending)
             /\ is_open /\ failed = 0 => Range(Todo) = Range(Pending) \cup Range(Rest)
  <1> DEFINE y == Kept(Pending, losses)
             f == AddToFile(Written, y)
  <1>1. /\ Sound(bag, Todo, Len(log)) /\ Listed(bag) /\ IsSequence(in_flight) /\ IsSequence(cache)
        /\ IsSequence(Todo) /\ Ordered(Todo) /\ IsSequence(<<>>)
    BY EmptySequence DEF IInv, Sound, InOrder
  <1>2. Len(log) \in Nat
    BY SequenceFacts DEF IInv
  <1>3. Pending = <<>> \/ Pending = Todo
    BY DEF Pending, Todo
  <1>4. IsSequence(Pending)
    BY <1>1, <1>3
  <1>5. bag.storage = NoFile => Pending = <<>>
    BY DEF IInv, Modes, Pending
  <1>6. IsSequence(y) /\ (y = <<>> \/ bag.storage # NoFile)
    BY <1>4, <1>5, KeptFacts
  <1>7. Refiled(bag, f, y)
    <2>1. Listed(Written) /\ Written.storage = bag.storage
      BY <1>1, WrittenSame
    <2>2. Refiled(Written, f, y)
      BY <1>6, <2>1, AddToFileRefiles
    <2> QED
      BY <1>1, <2>2, WrittenSame
  <1>8. Stored(f) = Stored(bag) \cup Range(y)
    BY <1>1, <1>6, <1>7, RefiledStored
  <1>9. Todo \o <<>> = Todo /\ <<>> \o Todo = Todo
    BY <1>1, EmptyJoined
  <1>10. IsSequence(Rest)
    BY <1>1 DEF Rest
  <1>11. options.mode # "cache" => Pending = <<>> /\ Todo = cache /\ Rest = cache
    BY <1>1, EmptyJoined DEF IInv, Modes, Pending, Todo, Rest
  <1>12. PartOf(Rest, Todo) /\ PartOf(<<>>, Todo)
    BY <1>1, <1>11, PartsOfSequences DEF Rest
  <1>13. CASE Pending = <<>>
    <2>1. Sound(bag, Rest, Len(log))
      BY <1>1, <1>2, <1>12, SoundPart
    <2>2. y = <<>>
      BY <1>4, <1>13, KeptFacts
    <2>3. f = Written
      BY <2>2, NothingAdded
    <2>4. Sound(f, Rest, Len(log))
      <3> DEFINE a == Written
      <3>1. /\ DOMAIN a = Fields /\ a.storage = bag.storage /\ a.next_file_index = bag.next_file_index
            /\ a.files = bag.files /\ a.disk = bag.disk
        BY <1>1, WrittenSame
      <3>2. \A k \in DOMAIN bag.disk : "messages" \in DOMAIN a.disk[k] /\ a.disk[k].messages = bag.disk[k].messages
        BY <1>1, <3>1 DEF Listed
      <3> HIDE DEF a
      <3>3. Sound(a, Rest, Len(log))
        BY <2>1, <3>1, <3>2, SameFiles
      <3> QED
        BY <2>3, <3>3 DEF a
    <2>5. is_open /\ failed = 0 => Range(Todo) = Range(Pending) \cup Range(Rest)
      <3>1. options.mode # "cache" => Range(Todo) = Range(Pending) \cup Range(Rest)
        BY <1>11, EmptySequence
      <3>2. options.mode = "cache" /\ is_open /\ failed = 0 => Pending = Todo /\ Rest = <<>>
        BY DEF IInv, Modes, Pending, Todo, Rest
      <3> QED
        BY <3>1, <3>2, EmptySequence
    <2> QED
      BY <1>3, <1>4, <1>6, <1>7, <1>8, <1>10, <2>4, <2>5
  <1>14. CASE Pending # <<>>
    <2>1. Pending = Todo /\ Rest = <<>>
      BY <1>3, <1>11, <1>14 DEF Rest
    <2>2. PartOf(Todo, Todo)
      BY <1>1, PartsOfSequences
    <2>3. PartOf(y, Todo)
      BY <2>1, <2>2, KeptIsPart
    <2>4. Sound(f, <<>>, Len(log))
      <3>1. Sound(bag, Todo \o <<>>, Len(log))
        BY <1>1, <1>9
      <3> HIDE DEF y, f
      <3> QED
        BY <1>1, <1>6, <1>7, <2>3, <3>1, SoundOnceFiled
    <2>5. Range(Todo) = Range(Pending) \cup Range(Rest)
      BY <2>1, EmptySequence
    <2> QED
      BY <1>3, <1>4, <1>6, <1>7, <1>8, <1>10, <2>1, <2>4, <2>5
  <1> QED
    BY <1>13, <1>14

(* The old files are deleted and the latched messages start the new one. *)
LEMMA Rolling ==
  ASSUME Latches(transient), NEW f, NEW r, NEW n, Sound(f, r, n), NEW losses, NEW d \in 0 .. Len(f.files)
  PROVE  LET a == Rolled(f, losses, d) IN
         /\ Sound(a, r, n)
         /\ a.storage # NoFile
         /\ Len(a.files) = Len(f.files) + 1 - d
         /\ OriginalIds(Stored(a)) \cup Originals(f, {f.files[i].index : i \in 1 .. d}) = OriginalIds(Stored(f))
  <1> DEFINE a == Rolled(f, losses, d)
             c == NextFile(f, d)
             h == Kept(Heads, losses)
             dropped == {f.files[i].index : i \in 1 .. d}
  <1>1. Listed(f)
    BY DEF Sound
  <1>2. NextFileIs(f, c, d)
    BY <1>1, NextFileLists
  <1>3. Sound(c, r, n)
    BY <1>2, SoundNext
  <1>4. /\ Listed(c) /\ c.storage \in Nat /\ Len(c.files) = Len(f.files) + 1 - d
    BY <1>2 DEF NextFileIs
  <1>5. IsSequence(Heads) /\ Copies(Heads)
    BY HeadsAreCopies
  <1>6. IsSequence(h) /\ Range(h) \subseteq Range(Heads) /\ (Heads = <<>> => h = <<>>)
    BY <1>5, KeptFacts
  <1>7. Copies(h)
    BY <1>5, <1>6 DEF Copies
  <1>8. c.storage # NoFile
    BY <1>4 DEF NoFile
  <1>9. Refiled(c, a, h)
    BY <1>4, <1>6, <1>8, PrependRefiles DEF Rolled
  <1>10. Stored(a) = Stored(c) \cup Range(h)
    BY <1>4, <1>6, <1>8, <1>9, RefiledStored
  <1>11. OriginalIds(Stored(a)) = OriginalIds(Stored(c))
    <2> HIDE DEF a, c, h
    <2>1. OriginalIds(Range(h)) = {}
      BY <1>7, IdsOfCopies
    <2>2. OriginalIds(Stored(c) \cup Range(h)) = OriginalIds(Stored(c)) \cup OriginalIds(Range(h))
      BY IdsOfUnion
    <2> QED
      BY <1>10, <2>1, <2>2
  <1>12. Sound(a, r, n)
    <2>1. IsSequence(r) /\ <<>> \o r = r /\ IsSequence(<<>>)
      BY EmptyJoined, EmptySequence DEF Sound
    <2>2. PartOf(h, <<>>)
      BY <1>6, <1>7, OrderedCopies
    <2>3. Sound(c, <<>> \o r, n)
      BY <1>3, <2>1
    <2> HIDE DEF a, c, h
    <2> QED
      BY <1>8, <1>9, <2>1, <2>2, <2>3, SoundOnceFiled
  <1>13. a.storage = c.storage /\ Len(a.files) = Len(c.files)
    BY <1>9, StorageIsLast, <1>4, <1>8 DEF Refiled
  <1>14. OriginalIds(Stored(c)) \cup Originals(f, dropped) = OriginalIds(Stored(f))
    <2> HIDE DEF c, dropped
    <2>1. Stored(f) = Stored(c) \cup UNION {Range(f.disk[k].messages) : k \in dropped}
      <3>1. /\ dropped \subseteq DOMAIN f.disk
            /\ DOMAIN c.disk = (DOMAIN f.disk \ dropped) \cup {f.next_file_index}
            /\ c.disk[f.next_file_index].messages = <<>>
            /\ f.next_file_index \notin DOMAIN f.disk
            /\ \A j \in DOMAIN f.disk \ dropped : c.disk[j].messages = f.disk[j].messages
        BY <1>2 DEF NextFileIs, dropped
      <3>2. ASSUME NEW m \in Stored(f) PROVE m \in Stored(c) \cup UNION {Range(f.disk[k].messages) : k \in dropped}
        <4>1. PICK k \in DOMAIN f.disk : m \in Range(f.disk[k].messages)
          BY <3>2 DEF Stored
        <4> QED
          BY <3>1, <4>1 DEF Stored
      <3>3. ASSUME NEW m \in Stored(c) PROVE m \in Stored(f)
        <4>1. PICK k \in DOMAIN c.disk : m \in Range(c.disk[k].messages)
          BY <3>3 DEF Stored
        <4>2. k \in DOMAIN f.disk \ dropped
          BY <3>1, <4>1, EmptySequence
        <4> QED
          BY <3>1, <4>1, <4>2 DEF Stored
      <3>4. UNION {Range(f.disk[k].messages) : k \in dropped} \subseteq Stored(f)
        BY <3>1 DEF Stored
      <3> QED
        BY <3>2, <3>3, <3>4
    <2> QED
      BY <2>1, IdsOfUnion DEF Originals
  <1> QED
    BY <1>4, <1>8, <1>11, <1>12, <1>13, <1>14

-----------------------------------------------------------------------------
(* The queues of the latched topics. *)

(* add_topic() makes a queue. *)
LEMMA AddTopicLatches ==
  ASSUME NEW queues, Latches(queues), NEW t, NEW depth \in Nat
  PROVE  Latches(AddTopic(queues, t, depth))
  <1> DEFINE a == AddTopic(queues, t, depth)
  <1>1. IsFiniteSet(DOMAIN queues \cup {t})
    BY FS_AddElement DEF Latches
  <1>2. IsSequence(Newest(Queue(queues, t), depth))
    BY EmptySequence, NewestFacts DEF Queue, Latches
  <1>3. DOMAIN a = DOMAIN queues \cup {t}
    BY DEF AddTopic
  <1>4. ASSUME NEW u \in DOMAIN a
        PROVE  /\ {"max_depth", "messages"} \subseteq DOMAIN a[u]
               /\ IsSequence(a[u].messages)
               /\ a[u].max_depth \in Nat
    <2>1. CASE u = t
      <3>1. a[u] = [max_depth |-> depth, messages |-> Newest(Queue(queues, t), depth)]
        BY <1>3, <2>1 DEF AddTopic
      <3> QED
        BY <1>2, <3>1
    <2>2. CASE u # t
      <3>1. u \in DOMAIN queues /\ a[u] = queues[u]
        BY <1>3, <2>2 DEF AddTopic
      <3> QED
        BY <3>1 DEF Latches
    <2> QED
      BY <2>1, <2>2
  <1> QED
    BY <1>1, <1>3, <1>4 DEF Latches

(* remove_topic() forgets one. *)
LEMMA ForgetTopicLatches ==
  ASSUME NEW queues, Latches(queues), NEW t
  PROVE  Latches(ForgetTopic(queues, t))
  <1>1. IsFiniteSet(DOMAIN queues \ {t})
    BY FS_Subset DEF Latches
  <1> QED
    BY <1>1 DEF Latches, ForgetTopic

(* push() adds to one. *)
LEMMA PushLatches ==
  ASSUME NEW queues, Latches(queues), NEW t \in DOMAIN queues, NEW m
  PROVE  Latches(PushLatched(queues, t, m))
  <1> DEFINE a == PushLatched(queues, t, m)
             fresh == Newest(Append(queues[t].messages, m), queues[t].max_depth)
  <1>1. {"max_depth", "messages"} \subseteq DOMAIN queues[t] /\ IsSequence(queues[t].messages) /\ queues[t].max_depth \in Nat
    BY DEF Latches
  <1>2. IsSequence(fresh)
    <2>1. IsSequence(Append(queues[t].messages, m))
      BY <1>1, AppendFacts
    <2> QED
      BY <1>1, <2>1, NewestFacts
  <1>3. a = [queues EXCEPT ![t].messages = fresh]
    BY DEF PushLatched
  <1> HIDE DEF fresh, a
  <1>4. DOMAIN a = DOMAIN queues
    BY <1>3
  <1>5. \A u \in DOMAIN queues : a[u] = IF u = t THEN [queues[t] EXCEPT !.messages = fresh] ELSE queues[u]
    BY <1>3
  <1>6. LET q == [queues[t] EXCEPT !.messages = fresh] IN
        DOMAIN q = DOMAIN queues[t] /\ q.messages = fresh /\ q.max_depth = queues[t].max_depth
    BY <1>1
  <1>7. \A u \in DOMAIN queues : /\ {"max_depth", "messages"} \subseteq DOMAIN a[u]
                                 /\ IsSequence(a[u].messages)
                                 /\ a[u].max_depth \in Nat
    BY <1>1, <1>2, <1>5, <1>6 DEF Latches
  <1>8. Latches(a)
    BY <1>4, <1>7 DEF Latches
  <1> QED
    BY <1>8 DEF a

(* A message after two sequences. *)
LEMMA AppendLast ==
  ASSUME NEW s, NEW t, NEW m, IsSequence(s), IsSequence(t)
  PROVE  s \o Append(t, m) = Append(s \o t, m)
  <1> DEFINE S == Range(s) \cup Range(t) \cup {m}
  <1>1. s \in Seq(S) /\ t \in Seq(S) /\ m \in S
    BY SeqMonotonic DEF IsSequence
  <1>2. <<m>> \in Seq(S) /\ s \o t \in Seq(S)
    BY <1>1, ConcatProperties
  <1>3. Append(t, m) = t \o <<m>> /\ Append(s \o t, m) = (s \o t) \o <<m>>
    BY <1>1, <1>2, AppendIsConcat
  <1>4. s \o (t \o <<m>>) = (s \o t) \o <<m>>
    BY <1>1, <1>2, ConcatAssociative
  <1> QED
    BY <1>3, <1>4

-----------------------------------------------------------------------------
(* write(). *)

(* The message was taken: it follows the bag b, the messages w and the queue,  *)
(* or it is lost.                                                             *)
Taken(b, w, queued, losses) ==
    /\ Sound(bag', w \o cache', Len(log')) /\ Latches(transient')
    /\ IsSequence(cache') /\ IsSequence(log') /\ Len(log') = Len(log) + 1 /\ Len(log) \in Nat
    /\ bag'.storage = b.storage /\ Len(bag'.files) = Len(b.files)
    /\ options.mode = "direct" => cache' = <<>>
    /\ \/ options.mode = "snapshot"
       \/ OriginalIds(lost') \cup OriginalIds(Stored(bag')) \cup OriginalIds(Range(w \o cache'))
          = OriginalIds(lost) \cup OriginalIds(losses) \cup OriginalIds(Stored(b))
            \cup OriginalIds(Range(w \o queued)) \cup {Len(log) + 1}

(* From the spans on: the message goes to the file or to the end of the queue, *)
(* or is reported lost.                                                       *)
LEMMA Storing ==
  ASSUME options \in Configurations, IsSequence(log), Latches(transient),
         NEW b, NEW w, NEW queued, NEW m, NEW losses,
         IsSequence(w), IsSequence(queued),
         Sound(b, w \o queued, Len(log)), Len(b.files) > 0,
         options.mode = "cache" \/ w = <<>>,
         options.mode = "direct" => queued = <<>> /\ b.storage # NoFile,
         m.id = Len(log) + 1, m.repeat = FALSE,
         Store(b, m, queued, losses)
  PROVE  Taken(b, w, queued, losses)
  <1> DEFINE n == Len(log)
             s == w \o queued
             c == Span(b, m.stamp)
             x == IF options.mode = "direct" THEN <<m>> ELSE <<>>
             y == Kept(x, losses)
             full == options.mode = "cache" /\ Len(queued) >= options.max_cache_size
             room == IF options.mode = "snapshot" THEN Newest(Append(queued, m), options.max_cache_size)
                     ELSE Append(queued, m)
  <1>1. options.mode \in {"direct", "cache", "snapshot"} /\ options.max_cache_size \in Nat
    BY OptionFacts
  <1>2. n \in Nat
    BY SequenceFacts
  <1>3. /\ bag' = AddToFile(c, y)
        /\ cache' = IF options.mode = "direct" \/ full THEN queued ELSE room
        /\ lost' = lost \cup losses \cup IF full THEN {m} ELSE {}
        /\ transient' = IF m.topic \in DOMAIN transient
                        THEN PushLatched(transient, m.topic, m) ELSE transient
        /\ log' = Append(log, [topic |-> m.topic, stamp |-> m.stamp])
    BY DEF Store
  <1>4. IsSequence(log') /\ Len(log') = n + 1
    BY <1>3, AppendFacts
  <1>5. Latches(transient')
    BY <1>3, PushLatches
  <1>6. Listed(b) /\ IsSequence(s) /\ Ordered(s)
    BY DEF Sound, InOrder
  <1>7. Refiled(b, c, <<>>)
    BY <1>6, SpanRedates
  <1>8. Sound(c, s, n) /\ Stored(c) = Stored(b) /\ Listed(c)
    <2>1. IsSequence(<<>>) /\ <<>> \o s = s /\ Range(<<>>) = {}
      BY <1>6, EmptyJoined, EmptySequence
    <2>2. PartOf(<<>>, <<>>)
      BY <2>1, EmptySequence, PartsOfSequences DEF Ordered
    <2>3. Sound(b, <<>> \o s, n)
      BY <2>1
    <2> HIDE DEF c, s, n
    <2>4. Stored(c) = Stored(b)
      <3>1. Stored(c) = Stored(b) \cup Range(<<>>)
        BY <1>6, <1>7, <2>1, RefiledStored
      <3> QED
        BY <2>1, <3>1
    <2>5. Sound(c, s, n)
      BY <1>6, <1>7, <2>1, <2>2, <2>3, SoundOnceFiled
    <2> QED
      BY <2>4, <2>5 DEF Sound
  <1>9. c.storage = b.storage /\ Len(c.files) = Len(b.files)
    BY <1>7 DEF Refiled
  <1>10. IsSequence(x) /\ IsSequence(y) /\ (x = <<>> => y = <<>>)
    <2>1. IsSequence(x)
      BY OneOnly, EmptySequence
    <2> QED
      BY <2>1, KeptFacts
  <1>11. x # <<>> => b.storage # NoFile
    OBVIOUS
  <1>12. Refiled(c, bag', y)
    BY <1>3, <1>8, <1>9, <1>10, <1>11, AddToFileRefiles
  <1>13. Stored(bag') = Stored(b) \cup Range(y)
    BY <1>8, <1>9, <1>10, <1>11, <1>12, RefiledStored
  <1>14. bag'.storage = b.storage /\ Len(bag'.files) = Len(b.files)
    BY <1>9, <1>12 DEF Refiled
  <1>15. Sound(c, Append(s, m), n + 1)
    BY <1>2, <1>8, SoundQueued
  <1>16. Append(s, m) = w \o Append(queued, m) /\ IsSequence(Append(queued, m))
    BY AppendLast, AppendFacts
  <1>17. OriginalIds({m}) = {n + 1}
    BY DEF OriginalIds
  <1>18. OriginalIds(Range(<<>>)) = {} /\ OriginalIds({}) = {} /\ Range(<<>>) = {}
    BY NoIds, EmptySequence
  <1> DEFINE L == OriginalIds(lost)
             X == OriginalIds(losses)
             S == OriginalIds(Stored(b))
             Q == OriginalIds(Range(s))
             New == OriginalIds(lost') \cup OriginalIds(Stored(bag')) \cup OriginalIds(Range(w \o cache'))
             Goal == /\ Sound(bag', w \o cache', n + 1)
                     /\ IsSequence(cache')
                     /\ options.mode = "direct" => cache' = <<>>
                     /\ options.mode = "snapshot" \/ New = L \cup X \cup S \cup Q \cup {n + 1}
  <1>19. ASSUME options.mode = "direct" PROVE Goal
    <2>1. w = <<>> /\ queued = <<>> /\ ~full /\ x = <<m>> /\ cache' = <<>>
      BY <1>1, <1>3, <1>19
    <2>2. <<>> \o <<>> = <<>> /\ IsSequence(<<>>)
      BY EmptyJoined, EmptySequence
    <2>3. Append(s, m) = <<m>>
      BY <2>1, <2>2
    <2>4. IsSequence(<<m>>) /\ Range(<<m>>) = {m} /\ <<m>> \o <<>> = <<m>> /\ Ordered(<<m>>)
      <3>1. IsSequence(<<m>>) /\ Range(<<m>>) = {m}
        BY OneOnly
      <3>2. Ordered(<<m>>)
        BY <1>15, <2>3 DEF Sound, InOrder
      <3> QED
        BY <3>1, <3>2, EmptyJoined
    <2>5. PartOf(y, <<m>>)
      <3>1. PartOf(<<m>>, <<m>>)
        BY <2>4, PartsOfSequences
      <3> QED
        BY <2>1, <3>1, KeptIsPart
    <2>6. Sound(bag', <<>>, n + 1)
      <3>1. Sound(c, <<m>> \o <<>>, n + 1)
        BY <1>15, <2>3, <2>4
      <3>2. y = <<>> \/ c.storage # NoFile
        BY <1>9, <1>19
      <3> HIDE DEF c, y, n, s
      <3> QED
        BY <1>12, <2>2, <2>4, <2>5, <3>1, <3>2, SoundOnceFiled
    <2>7. /\ OriginalIds(Range(y)) \subseteq {n + 1}
          /\ {n + 1} \subseteq OriginalIds(losses) \cup OriginalIds(Range(y))
      BY <1>10, <1>17, <2>1, <2>4, IdsOfKept
    <2>8. OriginalIds(lost') = OriginalIds(lost) \cup OriginalIds(losses)
      <3>1. lost' = lost \cup losses
        BY <1>3, <2>1
      <3> QED
        BY <3>1, IdsOfUnion
    <2>9. OriginalIds(Stored(bag')) = OriginalIds(Stored(b)) \cup OriginalIds(Range(y))
      BY <1>13, IdsOfUnion
    <2>10. w \o cache' = <<>> /\ s = <<>>
      BY <2>1, <2>2
    <2>11. OriginalIds(Range(w \o cache')) = {} /\ OriginalIds(Range(s)) = {}
      BY <1>18, <2>10
    <2>12. New = (L \cup X) \cup (S \cup OriginalIds(Range(y))) \cup {}
      BY <2>8, <2>9, <2>11
    <2>13. New = L \cup X \cup S \cup Q \cup {n + 1}
      <3>1. Q = {}
        BY <2>11
      <3> HIDE DEF New, L, X, S, Q, y, n
      <3>2. /\ OriginalIds(Range(y)) \subseteq {n + 1}
            /\ {n + 1} \subseteq X \cup OriginalIds(Range(y))
        BY <2>7 DEF X
      <3> QED
        BY <2>12, <3>1, <3>2
    <2>14. Sound(bag', w \o cache', n + 1) /\ IsSequence(cache') /\ cache' = <<>>
      BY <2>1, <2>2, <2>6
    <2> HIDE DEF New, L, X, S, Q, y, s, n
    <2> QED
      BY <2>13, <2>14
  <1>20. ASSUME options.mode # "direct" PROVE Goal
    <2>1. x = <<>> /\ y = <<>>
      BY <1>10, <1>20
    <2>2. bag' = c
      BY <1>3, <2>1, NothingAdded
    <2>3. Stored(bag') = Stored(b)
      BY <1>8, <2>2
    <2>4. CASE full
      <3>1. cache' = queued /\ lost' = lost \cup losses \cup {m}
        BY <1>3, <2>4
      <3>2. Sound(c, s, n + 1)
        <4>1. PartOf(s, s)
          BY <1>6, PartsOfSequences
        <4> QED
          BY <1>2, <1>8, <4>1, SoundPart
      <3>3. OriginalIds(lost') = L \cup X \cup {n + 1}
        <4>1. OriginalIds(lost') = OriginalIds(lost \cup losses) \cup OriginalIds({m})
          BY <3>1, IdsOfUnion
        <4>2. OriginalIds(lost \cup losses) = L \cup X
          BY IdsOfUnion
        <4> QED
          BY <1>17, <4>1, <4>2
      <3>4. w \o cache' = s
        BY <3>1
      <3>5. New = (L \cup X \cup {n + 1}) \cup S \cup Q
        BY <2>3, <3>3, <3>4
      <3>6. Sound(bag', w \o cache', n + 1) /\ IsSequence(cache')
        BY <2>2, <3>1, <3>2, <3>4
      <3> HIDE DEF New, L, X, S, Q, s, n
      <3>7. New = L \cup X \cup S \cup Q \cup {n + 1}
        BY <3>5
      <3> QED
        BY <1>20, <3>6, <3>7
    <2>5. CASE ~full /\ options.mode = "snapshot"
      <3>1. cache' = Newest(Append(queued, m), options.max_cache_size) /\ w = <<>>
        BY <1>3, <1>20, <2>5
      <3>2. IsSequence(cache')
        BY <1>1, <1>16, <3>1, NewestFacts
      <3>3. Append(s, m) = Append(queued, m) /\ w \o cache' = cache'
        BY <1>16, <3>1, <3>2, EmptyJoined
      <3>4. Sound(c, Append(queued, m), n + 1)
        BY <1>15, <3>3
      <3>5. PartOf(cache', Append(queued, m))
        <4>1. IsSequence(Append(queued, m)) /\ Ordered(Append(queued, m))
          BY <3>4 DEF Sound, InOrder
        <4> QED
          BY <1>1, <3>1, <4>1, PartsOfSequences
      <3>6. n + 1 \in Nat
        BY <1>2
      <3>7. Sound(c, cache', n + 1)
        BY <3>4, <3>5, <3>6, SoundPart
      <3>8. Sound(bag', w \o cache', n + 1) /\ IsSequence(cache')
        BY <2>2, <3>2, <3>3, <3>7
      <3> HIDE DEF New, L, X, S, Q, s, n
      <3> QED
        BY <2>5, <3>8
    <2>6. CASE ~full /\ options.mode # "snapshot"
      <3>1. cache' = Append(queued, m) /\ lost' = lost \cup losses
        BY <1>3, <1>20, <2>6
      <3>2. w \o cache' = Append(s, m)
        BY <1>16, <3>1
      <3>3. Range(Append(s, m)) = Range(s) \cup {m}
        BY <1>6, AppendFacts
      <3>4. OriginalIds(Range(w \o cache')) = Q \cup {n + 1}
        <4>1. OriginalIds(Range(s) \cup {m}) = Q \cup OriginalIds({m})
          BY IdsOfUnion
        <4> QED
          BY <1>17, <3>2, <3>3, <4>1
      <3>5. OriginalIds(lost') = L \cup X
        BY <3>1, IdsOfUnion
      <3>6. New = (L \cup X) \cup S \cup (Q \cup {n + 1})
        BY <2>3, <3>4, <3>5
      <3>7. Sound(bag', w \o cache', n + 1) /\ IsSequence(cache')
        BY <1>15, <1>16, <2>2, <3>1, <3>2
      <3> HIDE DEF New, L, X, S, Q, s, n
      <3>8. New = L \cup X \cup S \cup Q \cup {n + 1}
        BY <3>6
      <3> QED
        BY <1>20, <3>7, <3>8
    <2> QED
      BY <2>4, <2>5, <2>6
  <1>21. Goal
    BY <1>19, <1>20
  <1> QED
    BY <1>2, <1>4, <1>5, <1>14, <1>21 DEF Taken

-----------------------------------------------------------------------------
(* The steps. *)

(* What every step needs of the invariant. *)
LEMMA InvFacts ==
  ASSUME IInv
  PROVE  /\ Len(log) \in Nat /\ Listed(bag) /\ DOMAIN bag = Fields
         /\ IsSequence(Todo) /\ Ordered(Todo) /\ IsSequence(<<>>) /\ <<>> \o <<>> = <<>>
         /\ <<>> \o cache = cache /\ <<>> \o in_flight = in_flight
         /\ cache \o <<>> = cache /\ in_flight \o <<>> = in_flight
         /\ OriginalIds(Range(Todo)) \subseteq 1 .. Len(log)
         /\ options.mode \in {"direct", "cache", "snapshot"}
         /\ options.max_bag_files \in Nat
         /\ Len(bag.files) \in Nat
  <1>1. Sound(bag, Todo, Len(log)) /\ IsSequence(log) /\ IsSequence(in_flight) /\ IsSequence(cache)
    BY DEF IInv
  <1>2. Len(log) \in Nat
    BY <1>1, SequenceFacts
  <1>3. Listed(bag) /\ IsSequence(Todo) /\ Ordered(Todo)
    BY <1>1 DEF Sound, InOrder
  <1>4. IsSequence(<<>>) /\ <<>> \o <<>> = <<>>
    BY EmptySequence, EmptyJoined
  <1>5. OriginalIds(Range(Todo)) \subseteq 1 .. Len(log)
    BY <1>1 DEF Sound, Numbered, OriginalIds
  <1>6. Len(bag.files) \in Nat
    BY <1>3, SequenceFacts DEF Listed
  <1> QED
    BY <1>1, <1>2, <1>3, <1>4, <1>5, <1>6, EmptyJoined, OptionFacts DEF IInv, Listed

(* After the flush all messages are in the files, lost or deleted.           *)
LEMMA FlushedIds ==
  ASSUME IInv, is_open, failed = 0, options.mode # "snapshot", NEW losses
  PROVE  LET f == AddToFile(Written, Kept(Pending, losses)) IN
         /\ Rest = <<>>
         /\ OriginalIds(Range(Pending)) \subseteq 1 .. Len(log)
         /\ OriginalIds(lost) \cup OriginalIds(losses) \cup OriginalIds(Stored(f)) \cup gone
            = 1 .. Len(log) \cup OriginalIds(losses)
  <1> DEFINE y == Kept(Pending, losses)
             f == AddToFile(Written, y)
             n == 1 .. Len(log)
             L == OriginalIds(lost)
             X == OriginalIds(losses)
             S == OriginalIds(Stored(bag))
             Q == OriginalIds(Range(Todo))
             P == OriginalIds(Range(Pending))
             Y == OriginalIds(Range(y))
  <1>1. Rest = <<>>
    BY InvFacts DEF IInv, Modes, Rest
  <1>2. /\ Stored(f) = Stored(bag) \cup Range(y)
        /\ Range(Todo) = Range(Pending) \cup Range(Rest)
        /\ IsSequence(Pending)
    BY Flushing
  <1>3. Q = P
    BY <1>1, <1>2, EmptySequence
  <1>4. Q \subseteq n
    BY InvFacts
  <1>5. n = L \cup S \cup Q \cup gone
    BY DEF IInv, Balanced
  <1>6. Y \subseteq P /\ P \subseteq X \cup Y
    BY <1>2, IdsOfKept
  <1>7. OriginalIds(Stored(f)) = S \cup Y
    BY <1>2, IdsOfUnion
  <1>8. L \cup X \cup OriginalIds(Stored(f)) \cup gone = n \cup X
    <2> HIDE DEF L, X, S, Q, P, Y, n, f
    <2> QED
      BY <1>3, <1>5, <1>6, <1>7
  <1> QED
    BY <1>1, <1>3, <1>4, <1>8

(* open(): the files of the last bag are no longer this writer's. *)
LEMMA OpenKeeps ==
  ASSUME IInv, options' = options, NEW convert, Open(convert)
  PROVE  IInv'
  <1>1. /\ bag'.storage = 0 /\ bag'.files = <<NewFile(0)>> /\ bag'.next_file_index = 1
        /\ bag'.disk = [k \in {0} |-> [formats |-> [t \in Known |-> converter'], messages |-> <<>>]]
        /\ DOMAIN bag' = Fields
    BY DEF Open, Fields
  <1>2. /\ cache' = <<>> /\ in_flight' = <<>> /\ uncounted' = <<>>
        /\ consumer' = (options.mode # "direct") /\ is_open' = TRUE
        /\ gone' = gone \cup Originals(bag, DOMAIN bag.disk)
        /\ UNCHANGED <<transient, log, lost, failed>>
        /\ ~is_open
    BY DEF Open
  <1>3. in_flight = <<>> /\ cache = <<>> /\ Todo = <<>>
    <2>1. in_flight = <<>> /\ cache = <<>>
      BY <1>2 DEF IInv, Modes
    <2> QED
      BY <2>1, InvFacts DEF Todo
  <1>4. Todo' = Todo
    BY <1>2, <1>3 DEF Todo
  <1>5. DOMAIN bag'.disk = {0} /\ bag'.disk[0].messages = <<>> /\ "messages" \in DOMAIN bag'.disk[0]
    BY <1>1
  <1>6. /\ IsSequence(bag'.files) /\ Len(bag'.files) = 1 /\ bag'.files[1].index = 0
        /\ "index" \in DOMAIN bag'.files[1]
    BY <1>1, OneOnly DEF NewFile
  <1>7. Listed(bag')
    <2>1. 1 .. 1 = {1}
      OBVIOUS
    <2> HIDE DEF NewFile
    <2> QED
      BY <1>1, <1>5, <1>6, <2>1, InvFacts DEF Listed
  <1>8. Sound(bag', Todo, Len(log))
    BY <1>5, <1>7, SoundFewer DEF IInv
  <1>9. Stored(bag') = {}
    BY <1>5, EmptySequence DEF Stored
  <1>10. OriginalIds(Stored(bag')) = {} /\ Originals(bag, DOMAIN bag.disk) = OriginalIds(Stored(bag))
    BY <1>9, NoIds DEF Originals, Stored
  <1>11. options.mode # "snapshot" /\ failed = 0 => Balanced(bag', Todo, lost, gone', Len(log))
    BY <1>2, <1>10 DEF IInv, Balanced
  <1>12. Modes'
    <2>1. bag'.storage # NoFile
      BY <1>1 DEF NoFile
    <2>2. consumer' \in BOOLEAN
      BY <1>2
    <2>3. options'.mode = "cache" => consumer'
      BY <1>2
    <2>4. Len(bag'.files) > 0
      BY <1>6
    <2> QED
      BY <1>2, <2>1, <2>2, <2>3, <2>4 DEF Modes
  <1>13. RetentionLimit'
    BY <1>6, InvFacts DEF RetentionLimit
  <1> QED
    BY <1>2, <1>4, <1>8, <1>11, <1>12, <1>13, InvFacts DEF IInv

(* A failed open() leaves bag and cache alone. *)
LEMMA OpenFailsKeeps ==
  ASSUME IInv, options' = options, NEW convert, OpenFails(convert)
  PROVE  IInv'
  <1>1. UNCHANGED <<is_open, bag, transient, undeleted, cache, in_flight, uncounted, consumer, log, lost, gone, failed>>
    BY DEF OpenFails, pipe
  <1>2. Todo' = Todo /\ Modes' = Modes /\ RetentionLimit' = RetentionLimit
    BY <1>1 DEF Todo, Modes, RetentionLimit
  <1> QED
    BY <1>1, <1>2 DEF IInv

(* A crash leaves what is in the files. *)
LEMMA CrashKeeps ==
  ASSUME IInv, options' = options, Crash
  PROVE  IInv'
  <1>1. UNCHANGED <<is_open, bag, transient, undeleted, cache, in_flight, uncounted, consumer, log, lost, gone, failed>>
    BY DEF Crash, pipe, callVars, history
  <1>2. Todo' = Todo /\ Modes' = Modes /\ RetentionLimit' = RetentionLimit
    BY <1>1 DEF Todo, Modes, RetentionLimit
  <1> QED
    BY <1>1, <1>2 DEF IInv

(* The consumer takes what is cached: it comes before what is cached next. *)
LEMMA SwapBuffersKeeps ==
  ASSUME IInv, options' = options, SwapBuffers
  PROVE  IInv'
  <1>1. /\ in_flight = <<>> /\ in_flight' = cache /\ cache' = <<>> /\ options.mode = "cache" /\ consumer
        /\ uncounted = <<>>
        /\ UNCHANGED <<is_open, bag, transient, undeleted, uncounted, consumer, log, lost, gone, failed>>
    BY DEF SwapBuffers, callVars, history
  <1>2. Todo' = Todo
    BY <1>1, InvFacts DEF Todo
  <1>3. Modes'
    BY <1>1 DEF IInv, Modes
  <1>4. RetentionLimit'
    BY <1>1 DEF IInv, RetentionLimit
  <1>5. IsSequence(cache') /\ IsSequence(in_flight')
    BY <1>1, InvFacts DEF IInv
  <1> QED
    BY <1>1, <1>2, <1>3, <1>4, <1>5 DEF IInv

(* The consumer stores what it has taken. *)
LEMMA StoreMessagesKeeps ==
  ASSUME IInv, options' = options, NEW losses, StoreMessages(losses)
  PROVE  IInv'
  <1> DEFINE y == Kept(in_flight, losses)
  <1>1. /\ in_flight # <<>> /\ losses \in Losses(in_flight) /\ in_flight' = <<>>
        /\ bag' = Put(bag, y) /\ uncounted' = y /\ lost' = lost \cup losses
        /\ UNCHANGED <<is_open, transient, undeleted, cache, consumer, log, gone, failed>>
    BY DEF StoreMessages
  <1>2. bag.storage # NoFile
    BY <1>1 DEF IInv, Modes
  <1>3. losses \subseteq Range(in_flight)
    BY <1>1 DEF Losses
  <1>4. IsSequence(in_flight) /\ IsSequence(cache) /\ Listed(bag) /\ Sound(bag, in_flight \o cache, Len(log))
    BY InvFacts DEF IInv, Todo
  <1>5. IsSequence(y)
    BY <1>4, KeptFacts
  <1>6. Refiled(bag, bag', y)
    BY <1>1, <1>2, <1>4, <1>5, PutRefiles
  <1>7. Ordered(in_flight)
    BY <1>4, OrderedJoined DEF Sound, InOrder
  <1>8. PartOf(y, in_flight)
    <2>1. PartOf(in_flight, in_flight)
      BY <1>4, <1>7, PartsOfSequences
    <2> QED
      BY <2>1, KeptIsPart
  <1>9. Stored(bag') = Stored(bag) \cup Range(y)
    BY <1>2, <1>4, <1>5, <1>6, RefiledStored
  <1>10. Sound(bag', cache, Len(log))
    <2> HIDE DEF y
    <2> QED
      BY <1>2, <1>4, <1>6, <1>8, SoundOnceFiled
  <1>11. Todo' = cache
    BY <1>1, InvFacts DEF Todo
  <1>12. Range(Todo) = Range(in_flight) \cup Range(cache)
    BY <1>4, ConcatFacts DEF Todo
  <1>13. options.mode # "snapshot" /\ failed = 0 => Balanced(bag', cache, lost', gone, Len(log))
    <2> DEFINE L == OriginalIds(lost)
               X == OriginalIds(losses)
               S == OriginalIds(Stored(bag))
               F == OriginalIds(Range(in_flight))
               C == OriginalIds(Range(cache))
               Y == OriginalIds(Range(y))
               n == 1 .. Len(log)
    <2> SUFFICES ASSUME options.mode # "snapshot", failed = 0
                 PROVE  n = OriginalIds(lost') \cup OriginalIds(Stored(bag')) \cup C \cup gone
      BY DEF Balanced
    <2>1. n = L \cup S \cup OriginalIds(Range(Todo)) \cup gone
      BY DEF IInv, Balanced
    <2>2. OriginalIds(Range(Todo)) = F \cup C
      BY <1>12, IdsOfUnion
    <2>3. OriginalIds(lost') = L \cup X /\ OriginalIds(Stored(bag')) = S \cup Y
      BY <1>1, <1>9, IdsOfUnion
    <2>4. Y \subseteq F /\ F \subseteq X \cup Y
      BY <1>4, IdsOfKept
    <2>5. X \subseteq F
      BY <1>3 DEF OriginalIds
    <2> HIDE DEF L, X, S, F, C, Y, n
    <2> QED
      BY <2>1, <2>2, <2>3, <2>4, <2>5
  <1>14. bag'.storage = bag.storage /\ Len(bag'.files) = Len(bag.files)
    BY <1>6 DEF Refiled
  <1>15. Modes'
    BY <1>1, <1>2, <1>14 DEF IInv, Modes
  <1>16. RetentionLimit'
    BY <1>1, <1>14 DEF IInv, RetentionLimit
  <1>17. IsSequence(in_flight') /\ IsSequence(uncounted') /\ IsSequence(cache')
    BY <1>1, <1>4, <1>5, InvFacts
  <1>18. Sound(bag', Todo', Len(log')) /\ Len(log') = Len(log)
    BY <1>1, <1>10, <1>11
  <1>19. options'.mode # "snapshot" /\ failed' = 0 => Balanced(bag', Todo', lost', gone', Len(log'))
    BY <1>1, <1>11, <1>13, <1>18
  <1>20. options' \in Configurations /\ failed' \in Nat /\ IsSequence(log') /\ Latches(transient')
    BY <1>1 DEF IInv
  <1> HIDE DEF y
  <1> QED
    BY <1>15, <1>16, <1>17, <1>18, <1>19, <1>20 DEF IInv

(* The consumer counts what it has stored: the files stay as they are. *)
LEMMA CountMessagesKeeps ==
  ASSUME IInv, options' = options, CountMessages
  PROVE  IInv'
  <1> DEFINE a == Written
  <1>1. /\ bag' = a /\ uncounted' = <<>>
        /\ UNCHANGED <<is_open, transient, undeleted, cache, in_flight, consumer, log, lost, gone, failed>>
    BY DEF CountMessages, history
  <1>2. /\ DOMAIN a = Fields /\ a.storage = bag.storage /\ a.next_file_index = bag.next_file_index
        /\ a.files = bag.files /\ a.disk = bag.disk
    BY InvFacts, WrittenSame
  <1>3. \A k \in DOMAIN bag.disk : "messages" \in DOMAIN a.disk[k] /\ a.disk[k].messages = bag.disk[k].messages
    BY <1>2, InvFacts DEF Listed
  <1> HIDE DEF a
  <1>4. Sound(a, Todo, Len(log)) /\ Stored(a) = Stored(bag)
    BY <1>2, <1>3, SameFiles DEF IInv
  <1>5. Todo' = Todo
    BY <1>1 DEF Todo
  <1>6. options.mode # "snapshot" /\ failed = 0 => Balanced(a, Todo, lost, gone, Len(log))
    BY <1>4 DEF IInv, Balanced
  <1>7. Modes'
    BY <1>1, <1>2 DEF IInv, Modes
  <1>8. RetentionLimit'
    BY <1>1, <1>2 DEF IInv, RetentionLimit
  <1> QED
    BY <1>1, <1>4, <1>5, <1>6, <1>7, <1>8, InvFacts DEF IInv

(* close(): the consumer writes the rest to the last file. *)
LEMMA CloseKeeps ==
  ASSUME IInv, options' = options, NEW losses \in Losses(Pending), Close(losses)
  PROVE  IInv'
  <1> DEFINE f == AddToFile(Written, Kept(Pending, losses))
  <1>1. /\ is_open /\ is_open' = FALSE /\ consumer' = FALSE /\ cache' = <<>> /\ in_flight' = <<>> /\ uncounted' = <<>>
        /\ bag' = [f EXCEPT !.storage = NoFile, !.topics = [t \in Known |-> 0]]
        /\ lost' = lost \cup losses
        /\ UNCHANGED <<transient, undeleted, log, gone, failed>>
    BY DEF Close
  <1>2. /\ Refiled(bag, f, Kept(Pending, losses))
        /\ Sound(f, Rest, Len(log)) /\ IsSequence(Rest)
    BY Flushing
  <1>3. losses \subseteq Range(Pending)
    BY DEF Losses
  <1>4. options.mode # "snapshot" /\ failed = 0 =>
          /\ OriginalIds(Range(Pending)) \subseteq 1 .. Len(log)
          /\ OriginalIds(lost) \cup OriginalIds(losses) \cup OriginalIds(Stored(f)) \cup gone
             = 1 .. Len(log) \cup OriginalIds(losses)
    BY <1>1, FlushedIds
  <1> HIDE DEF f
  <1>5. DOMAIN f = Fields /\ Len(f.files) = Len(bag.files)
    BY <1>2 DEF Refiled
  <1>6. /\ DOMAIN bag' = Fields /\ bag'.storage = NoFile /\ bag'.next_file_index = f.next_file_index
        /\ bag'.files = f.files /\ bag'.disk = f.disk
    BY <1>1, <1>5 DEF Fields
  <1>7. Sound(bag', Rest, Len(log)) /\ Stored(bag') = Stored(f)
    <2>1. Listed(f)
      BY <1>2 DEF Sound
    <2>2. \A k \in DOMAIN f.disk : "messages" \in DOMAIN bag'.disk[k] /\ bag'.disk[k].messages = f.disk[k].messages
      BY <1>6, <2>1 DEF Listed
    <2> QED
      BY <1>2, <1>6, <2>2, SameFiles
  <1>8. Sound(bag', <<>>, Len(log))
    <2>1. PartOf(<<>>, Rest)
      BY <1>2, PartsOfSequences DEF Sound, InOrder
    <2> QED
      BY <1>7, <2>1, SoundPart, InvFacts
  <1>9. Todo' = <<>>
    BY <1>1, InvFacts DEF Todo
  <1>10. options.mode # "snapshot" /\ failed = 0 => Balanced(bag', <<>>, lost', gone, Len(log))
    <2> SUFFICES ASSUME options.mode # "snapshot", failed = 0
                 PROVE  1 .. Len(log) = OriginalIds(lost') \cup OriginalIds(Stored(bag')) \cup {} \cup gone
      BY NoIds DEF Balanced
    <2>1. OriginalIds(losses) \subseteq OriginalIds(Range(Pending))
      BY <1>3 DEF OriginalIds
    <2>2. OriginalIds(lost') = OriginalIds(lost) \cup OriginalIds(losses)
      BY <1>1, IdsOfUnion
    <2>3. OriginalIds(Stored(bag')) = OriginalIds(Stored(f))
      BY <1>7
    <2> QED
      BY <1>4, <2>1, <2>2, <2>3
  <1>11. Modes'
    BY <1>1, <1>6 DEF Modes
  <1>12. RetentionLimit'
    BY <1>1, <1>5, <1>6 DEF IInv, RetentionLimit
  <1> QED
    BY <1>1, <1>8, <1>9, <1>10, <1>11, <1>12, InvFacts DEF IInv

(* A rollover fails once the consumer has written the rest. *)
LEMMA RolloverFailsKeeps ==
  ASSUME IInv, options' = options, NEW losses, RolloverFails(losses)
  PROVE  IInv'
  <1> DEFINE f == AddToFile(Written, Kept(Pending, losses))
  <1>1. /\ is_open /\ consumer' = FALSE /\ cache' = Rest /\ in_flight' = <<>> /\ uncounted' = <<>>
        /\ bag' = [f EXCEPT !.storage = NoFile, !.next_file_index = @ + 1]
        /\ failed' = failed + 1
        /\ UNCHANGED <<is_open, transient, undeleted, log>>
    BY DEF RolloverFails, Rest
  <1>2. /\ Refiled(bag, f, Kept(Pending, losses))
        /\ Sound(f, Rest, Len(log)) /\ IsSequence(Rest)
    BY Flushing
  <1> HIDE DEF f
  <1>3. DOMAIN f = Fields /\ Len(f.files) = Len(bag.files)
    BY <1>2 DEF Refiled
  <1>4. /\ DOMAIN bag' = Fields /\ bag'.storage = NoFile /\ bag'.next_file_index = f.next_file_index + 1
        /\ bag'.files = f.files /\ bag'.disk = f.disk
    BY <1>1, <1>3 DEF Fields
  <1>5. Sound(bag', Rest, Len(log))
    <2>1. Listed(f)
      BY <1>2 DEF Sound
    <2>2. \A k \in DOMAIN f.disk : "messages" \in DOMAIN bag'.disk[k] /\ bag'.disk[k].messages = f.disk[k].messages
      BY <1>4, <2>1 DEF Listed
    <2> QED
      BY <1>2, <1>4, <2>2, SameFiles
  <1>6. Todo' = Rest
    BY <1>1, <1>2, EmptyJoined DEF Todo
  <1>7. failed' \in Nat /\ failed' # 0
    BY <1>1 DEF IInv
  <1>8. options.mode = "direct" => Rest = <<>>
    BY DEF IInv, Modes, Rest
  <1>9. Modes'
    BY <1>1, <1>3, <1>4, <1>7, <1>8 DEF IInv, Modes
  <1>10. RetentionLimit'
    BY <1>1, <1>3, <1>4 DEF IInv, RetentionLimit
  <1> QED
    BY <1>1, <1>2, <1>5, <1>6, <1>7, <1>9, <1>10, InvFacts DEF IInv

(* Only the topics and their formats change. *)
LEMMA RetopicKeeps ==
  ASSUME IInv, options' = options, NEW topics, NEW formats,
         bag' = IF is_open THEN [bag EXCEPT !.topics = topics, !.disk[bag.storage].formats = formats]
                ELSE [bag EXCEPT !.topics = topics],
         Latches(transient'),
         UNCHANGED <<is_open, undeleted, cache, in_flight, uncounted, consumer, log, lost, gone, failed>>
  PROVE  IInv'
  <1>1. DOMAIN bag = Fields /\ Listed(bag)
    BY InvFacts
  <1>2. /\ DOMAIN bag' = Fields /\ bag'.storage = bag.storage /\ bag'.next_file_index = bag.next_file_index
        /\ bag'.files = bag.files
        /\ bag'.disk = IF is_open THEN [bag.disk EXCEPT ![bag.storage].formats = formats] ELSE bag.disk
    <2>1. CASE is_open
      BY <1>1, <2>1 DEF Fields
    <2>2. CASE ~is_open
      BY <1>1, <2>2 DEF Fields
    <2> QED
      BY <2>1, <2>2
  <1>3. DOMAIN bag'.disk = DOMAIN bag.disk
    BY <1>2
  <1>4. \A k \in DOMAIN bag.disk : "messages" \in DOMAIN bag'.disk[k] /\ bag'.disk[k].messages = bag.disk[k].messages
    <2> SUFFICES ASSUME NEW k \in DOMAIN bag.disk
                 PROVE  "messages" \in DOMAIN bag'.disk[k] /\ bag'.disk[k].messages = bag.disk[k].messages
      OBVIOUS
    <2>1. "messages" \in DOMAIN bag.disk[k]
      BY <1>1 DEF Listed
    <2>2. bag'.disk[k] = bag.disk[k] \/ bag'.disk[k] = [bag.disk[k] EXCEPT !.formats = formats]
      BY <1>2
    <2> QED
      BY <2>1, <2>2
  <1>5. Sound(bag', Todo, Len(log)) /\ Stored(bag') = Stored(bag)
    <2> DEFINE b == bag
               a == bag'
    <2>1. Sound(b, Todo, Len(log))
      BY DEF IInv
    <2>2. /\ DOMAIN a = Fields /\ a.storage = b.storage
          /\ a.next_file_index = b.next_file_index
          /\ a.files = b.files /\ DOMAIN a.disk = DOMAIN b.disk
      BY <1>2, <1>3
    <2>3. \A k \in DOMAIN b.disk : "messages" \in DOMAIN a.disk[k] /\ a.disk[k].messages = b.disk[k].messages
      BY <1>4
    <2>4. Sound(a, Todo, Len(log)) /\ Stored(a) = Stored(b)
      <3> HIDE DEF a, b
      <3> QED
        BY <2>1, <2>2, <2>3, SameFiles
    <2> QED
      BY <2>4
  <1>6. Todo' = Todo
    BY DEF Todo
  <1>7. options.mode # "snapshot" /\ failed = 0 => Balanced(bag', Todo, lost, gone, Len(log))
    BY <1>5 DEF IInv, Balanced
  <1>8. Modes'
    BY <1>2 DEF IInv, Modes
  <1>9. RetentionLimit'
    BY <1>2 DEF IInv, RetentionLimit
  <1> QED
    BY <1>5, <1>6, <1>7, <1>8, <1>9 DEF IInv

(* create_topic() changes no message. *)
LEMMA CreateTopicKeeps ==
  ASSUME IInv, options' = options, NEW t, CreateTopic(t)
  PROVE  IInv'
  <1> DEFINE formats == With(bag.disk[bag.storage].formats, t, converter)
  <1>1. /\ bag' = IF is_open THEN [bag EXCEPT !.topics = With(bag.topics, t, 0),
                                              !.disk[bag.storage].formats = formats]
                  ELSE [bag EXCEPT !.topics = With(bag.topics, t, 0)]
        /\ transient' = IF t \in Latched THEN AddTopic(transient, t, Depth) ELSE transient
        /\ UNCHANGED <<is_open, undeleted, cache, in_flight, uncounted, consumer, log, lost, gone, failed>>
    BY DEF CreateTopic, pipe, history
  <1>2. Latches(transient')
    BY <1>1, AddTopicLatches, WriterAssumption DEF IInv
  <1> HIDE DEF formats
  <1> QED
    BY <1>1, <1>2, RetopicKeeps

(* remove_topic() changes no message. *)
LEMMA RemoveTopicKeeps ==
  ASSUME IInv, options' = options, NEW t, RemoveTopic(t)
  PROVE  IInv'
  <1> DEFINE formats == Without(bag.disk[bag.storage].formats, t)
  <1>1. /\ bag' = IF is_open THEN [bag EXCEPT !.topics = Without(bag.topics, t),
                                              !.disk[bag.storage].formats = formats]
                  ELSE [bag EXCEPT !.topics = Without(bag.topics, t)]
        /\ transient' = ForgetTopic(transient, t)
        /\ UNCHANGED <<is_open, undeleted, cache, in_flight, uncounted, consumer, log, lost, gone, failed>>
    BY DEF RemoveTopic, pipe, history
  <1>2. Latches(transient')
    BY <1>1, ForgetTopicLatches DEF IInv
  <1> HIDE DEF formats
  <1> QED
    BY <1>1, <1>2, RetopicKeeps

-----------------------------------------------------------------------------
(* Splits. *)

(* A split: the rest of the messages follows the new file. *)
LEMMA Splitting ==
  ASSUME IInv, options' = options, NEW flushed, NEW y, Refiled(bag, flushed, y),
         NEW r, Sound(flushed, r, Len(log)),
         NEW atRisk, NEW losses, NEW n, Split(flushed, atRisk, losses, n)
  PROVE  LET a == Rolled(flushed, losses, n) IN
         /\ Sound(a, r, Len(log)) /\ a.storage # NoFile /\ Len(a.files) > 0
         /\ options.max_bag_files > 0 /\ ~undeleted' => Len(a.files) <= options.max_bag_files
         /\ OriginalIds(Stored(a)) \cup gone' = OriginalIds(Stored(flushed)) \cup gone
  <1> DEFINE a == Rolled(flushed, losses, n)
  <1>1. /\ n \in 0 .. Excess(bag) /\ undeleted' = (n < Excess(bag))
        /\ gone' = gone \cup Originals(flushed, {bag.files[i].index : i \in 1 .. n})
    BY DEF Split
  <1>2. /\ n \in 0 .. Len(bag.files)
        /\ options.max_bag_files > 0 /\ ~(n < Excess(bag)) => Len(bag.files) + 1 - n <= options.max_bag_files
    BY <1>1, ExcessFacts
  <1>3. Len(flushed.files) = Len(bag.files) /\ Len(bag.files) \in Nat
        /\ \A i \in 1 .. Len(bag.files) : flushed.files[i].index = bag.files[i].index
    BY InvFacts DEF Refiled
  <1>4. {flushed.files[i].index : i \in 1 .. n} = {bag.files[i].index : i \in 1 .. n}
    <2>1. \A i \in 1 .. n : i \in 1 .. Len(bag.files)
      BY <1>2, <1>3
    <2> QED
      BY <1>3, <2>1
  <1>5. Latches(transient)
    BY DEF IInv
  <1>6. n \in 0 .. Len(flushed.files)
    BY <1>2, <1>3
  <1>7. /\ Sound(a, r, Len(log)) /\ a.storage # NoFile
        /\ Len(a.files) = Len(bag.files) + 1 - n
        /\ OriginalIds(Stored(a)) \cup Originals(flushed, {bag.files[i].index : i \in 1 .. n})
           = OriginalIds(Stored(flushed))
    <2>1. /\ Sound(a, r, Len(log)) /\ a.storage # NoFile
          /\ Len(a.files) = Len(flushed.files) + 1 - n
          /\ OriginalIds(Stored(a)) \cup Originals(flushed, {flushed.files[i].index : i \in 1 .. n})
             = OriginalIds(Stored(flushed))
      BY <1>5, <1>6, Rolling, ZenonT(60)
    <2> QED
      BY <1>3, <1>4, <2>1
  <1> HIDE DEF a
  <1>8. Len(a.files) > 0
    BY <1>2, <1>3, <1>7
  <1>9. options.max_bag_files > 0 /\ ~undeleted' => Len(a.files) <= options.max_bag_files
    BY <1>1, <1>2, <1>7
  <1>10. OriginalIds(Stored(a)) \cup gone' = OriginalIds(Stored(flushed)) \cup gone
    BY <1>1, <1>7
  <1> QED
    BY <1>7, <1>8, <1>9, <1>10 DEF a

(* What a split leaves: an open file, the consumer running, no more files than the
   limit if they could be deleted. *)
LEMMA SplitModes ==
  ASSUME IInv, options' = options,
         NEW flushed, NEW atRisk, NEW losses, NEW n, Split(flushed, atRisk, losses, n),
         bag'.storage # NoFile, Len(bag'.files) > 0,
         options.max_bag_files > 0 /\ ~undeleted' => Len(bag'.files) <= options.max_bag_files,
         options.mode = "direct" => cache' = <<>>
  PROVE  Modes' /\ RetentionLimit' /\ failed' \in Nat
  <1>1. /\ is_open' = TRUE /\ in_flight' = <<>> /\ uncounted' = <<>>
        /\ consumer' = (options.mode # "direct") /\ failed' = failed
    BY DEF Split
  <1>2. consumer' \in BOOLEAN /\ (options'.mode = "cache" => consumer')
    BY <1>1
  <1>3. Modes'
    BY <1>1, <1>2 DEF Modes
  <1>4. RetentionLimit'
    BY DEF RetentionLimit
  <1> QED
    BY <1>1, <1>3, <1>4 DEF IInv

(* split_bagfile(). *)
LEMMA SplitBagfileKeeps ==
  ASSUME IInv, options' = options, NEW losses, NEW n, SplitBagfile(losses, n)
  PROVE  IInv'
  <1> DEFINE y == Kept(Pending, losses)
             f == AddToFile(Written, y)
             atRisk == Range(Pending) \cup Range(Heads)
             N == 1 .. Len(log)
             X == OriginalIds(losses)
             L == OriginalIds(lost)
  <1>1. /\ Split(f, atRisk, losses, n)
        /\ bag' = Rolled(f, losses, n) /\ lost' = lost \cup losses /\ cache' = Rest
        /\ UNCHANGED <<transient, log>>
    BY DEF SplitBagfile, Rest
  <1>2. /\ is_open /\ losses \in SUBSET atRisk /\ in_flight' = <<>> /\ uncounted' = <<>> /\ failed' = failed
    BY <1>1 DEF Split
  <1>3. /\ Refiled(bag, f, y)
        /\ Sound(f, Rest, Len(log)) /\ IsSequence(Rest)
    BY Flushing
  <1>4. options.mode # "snapshot" /\ failed = 0 =>
          /\ Rest = <<>>
          /\ OriginalIds(Range(Pending)) \subseteq N
          /\ L \cup X \cup OriginalIds(Stored(f)) \cup gone = N \cup X
    BY <1>2, FlushedIds
  <1>5. X \subseteq OriginalIds(Range(Pending))
    <2>1. Copies(Heads)
      BY HeadsAreCopies DEF IInv
    <2>2. OriginalIds(Range(Heads)) = {}
      BY <2>1, IdsOfCopies
    <2>3. X \subseteq OriginalIds(Range(Pending) \cup Range(Heads))
      BY <1>2 DEF OriginalIds
    <2> QED
      BY <2>2, <2>3, IdsOfUnion
  <1> HIDE DEF f, y, atRisk
  <1>6. /\ Sound(bag', Rest, Len(log)) /\ bag'.storage # NoFile /\ Len(bag'.files) > 0
        /\ options.max_bag_files > 0 /\ ~undeleted' => Len(bag'.files) <= options.max_bag_files
        /\ OriginalIds(Stored(bag')) \cup gone' = OriginalIds(Stored(f)) \cup gone
    BY <1>1, <1>3, Splitting
  <1>7. options.mode = "direct" => cache' = <<>>
    BY <1>1 DEF IInv, Modes, Rest
  <1>8. Modes' /\ RetentionLimit' /\ failed' \in Nat
    BY <1>1, <1>6, <1>7, SplitModes
  <1>9. Todo' = Rest
    BY <1>1, <1>2, <1>3, EmptyJoined DEF Todo
  <1>10. options.mode # "snapshot" /\ failed = 0 => Balanced(bag', Rest, lost', gone', Len(log))
    <2> SUFFICES ASSUME options.mode # "snapshot", failed = 0
                 PROVE  N = OriginalIds(lost') \cup OriginalIds(Stored(bag')) \cup OriginalIds(Range(Rest)) \cup gone'
      BY DEF Balanced
    <2>1. OriginalIds(Range(Rest)) = {}
      BY <1>4, NoIds
    <2>2. OriginalIds(lost') = L \cup X
      BY <1>1, IdsOfUnion
    <2> HIDE DEF N, L, X
    <2>3. N = N \cup X
      BY <1>4, <1>5
    <2> QED
      BY <1>4, <1>6, <2>1, <2>2, <2>3
  <1> QED
    BY <1>1, <1>2, <1>3, <1>6, <1>8, <1>9, <1>10, InvFacts DEF IInv

(* take_snapshot(): the circular buffer goes to the file, with copies before it. *)
LEMMA TakeSnapshotKeeps ==
  ASSUME IInv, options' = options, NEW losses, NEW n, TakeSnapshot(losses, n)
  PROVE  IInv'
  <1> DEFINE y == Kept(SnapshotMessages, losses)
             f == AddSnapshot(Written, y)
             atRisk == Range(SnapshotMessages)
  <1>1. /\ options.mode = "snapshot" /\ Split(f, atRisk, losses, n)
        /\ bag' = Rolled(f, losses, n) /\ cache' = <<>>
        /\ UNCHANGED <<transient, log>>
    BY DEF TakeSnapshot
  <1>2. bag.storage # NoFile /\ in_flight' = <<>> /\ uncounted' = <<>> /\ failed' = failed
    BY <1>1 DEF Split
  <1>3. in_flight = <<>> /\ Todo = cache /\ IsSequence(cache)
    BY <1>1, InvFacts DEF IInv, Modes, Todo
  <1>4. Sound(bag, cache \o <<>>, Len(log)) /\ Ordered(cache)
    BY <1>3, InvFacts DEF IInv
  <1>5. PICK x : IsSequence(x) /\ Copies(x) /\ SnapshotMessages = x \o cache
    BY <1>3, SnapshotIs DEF IInv
  <1>6. PartOf(SnapshotMessages, cache)
    <2>1. Ordered(x) /\ Below(Range(x), Range(cache))
      BY <1>5, OrderedCopies DEF Below, Copies
    <2>2. Ordered(SnapshotMessages)
      BY <1>3, <1>4, <1>5, <2>1, OrderedJoined
    <2>3. IsSequence(SnapshotMessages) /\ Range(SnapshotMessages) = Range(x) \cup Range(cache)
      BY <1>3, <1>5, ConcatFacts
    <2> QED
      BY <1>5, <2>2, <2>3 DEF PartOf, Copies
  <1>7. PartOf(y, cache) /\ IsSequence(y)
    BY <1>6, KeptIsPart DEF PartOf
  <1>8. Refiled(bag, f, y)
    <2>1. Listed(Written) /\ Written.storage = bag.storage
      BY InvFacts, WrittenSame
    <2>2. Refiled(Written, f, y)
      BY <1>2, <1>7, <2>1, AddSnapshotRefiles
    <2> QED
      BY <2>2, InvFacts, WrittenSame
  <1> HIDE DEF f, y, atRisk
  <1>9. Sound(f, <<>>, Len(log))
    BY <1>2, <1>3, <1>4, <1>7, <1>8, InvFacts, SoundOnceFiled
  <1>10. /\ Sound(bag', <<>>, Len(log)) /\ bag'.storage # NoFile /\ Len(bag'.files) > 0
         /\ options.max_bag_files > 0 /\ ~undeleted' => Len(bag'.files) <= options.max_bag_files
    BY <1>1, <1>8, <1>9, Splitting
  <1>11. Modes' /\ RetentionLimit' /\ failed' \in Nat
    BY <1>1, <1>10, SplitModes
  <1>12. Todo' = <<>>
    BY <1>1, <1>2, InvFacts DEF Todo
  <1> QED
    BY <1>1, <1>2, <1>10, <1>11, <1>12, InvFacts DEF IInv

(* write() to the same file. *)
LEMMA WriteKeeps ==
  ASSUME IInv, options' = options, NEW t, NEW stamp, NEW losses, Write(t, stamp, losses)
  PROVE  IInv'
  <1> DEFINE m == NewMessage(t, stamp)
             x == IF options.mode = "direct" THEN <<m>> ELSE <<>>
             N == 1 .. Len(log)
             X == OriginalIds(losses)
             New == OriginalIds(lost') \cup OriginalIds(Stored(bag')) \cup OriginalIds(Range(in_flight \o cache'))
             Old == OriginalIds(lost) \cup X \cup OriginalIds(Stored(bag)) \cup OriginalIds(Range(Todo))
  <1>1. /\ is_open /\ (bag.storage = NoFile => options.mode # "direct")
        /\ losses \in Losses(x)
        /\ Store(bag, m, cache, losses)
        /\ UNCHANGED <<is_open, undeleted, in_flight, uncounted, consumer, gone, failed>>
    BY DEF Write, Writable
  <1>2. m.id = Len(log) + 1 /\ m.repeat = FALSE
    BY DEF NewMessage
  <1>3. /\ options \in Configurations /\ IsSequence(log) /\ Latches(transient)
        /\ IsSequence(in_flight) /\ IsSequence(cache) /\ Sound(bag, in_flight \o cache, Len(log))
        /\ Len(bag.files) > 0
        /\ options.mode = "cache" \/ in_flight = <<>>
        /\ options.mode = "direct" => cache = <<>> /\ bag.storage # NoFile
    BY <1>1 DEF IInv, Modes, Todo
  <1>4. losses \subseteq Range(x) /\ Range(x) \subseteq {m}
    BY <1>1, OneOnly, EmptySequence DEF Losses
  <1>5. X \subseteq {Len(log) + 1}
    BY <1>2, <1>4 DEF OriginalIds
  <1> HIDE DEF m
  <1>6. /\ Sound(bag', in_flight \o cache', Len(log')) /\ Latches(transient')
        /\ IsSequence(cache') /\ IsSequence(log') /\ Len(log') = Len(log) + 1 /\ Len(log) \in Nat
        /\ bag'.storage = bag.storage /\ Len(bag'.files) = Len(bag.files)
        /\ options.mode = "direct" => cache' = <<>>
        /\ options.mode = "snapshot" \/ New = Old \cup {Len(log) + 1}
    <2>1. Taken(bag, in_flight, cache, losses)
      BY <1>1, <1>2, <1>3, Storing
    <2> QED
      BY <2>1 DEF Taken, Todo
  <1>7. Todo' = in_flight \o cache'
    BY <1>1 DEF Todo
  <1>8. options.mode # "snapshot" /\ failed = 0 => Balanced(bag', Todo', lost', gone, Len(log'))
    <2> SUFFICES ASSUME options.mode # "snapshot", failed = 0
                 PROVE  1 .. Len(log) + 1 = New \cup gone
      BY <1>6, <1>7 DEF Balanced
    <2>1. N = OriginalIds(lost) \cup OriginalIds(Stored(bag)) \cup OriginalIds(Range(Todo)) \cup gone
      BY DEF IInv, Balanced
    <2>2. Old \cup gone = N \cup X
      BY <2>1
    <2>3. 1 .. Len(log) + 1 = N \cup {Len(log) + 1}
      BY <1>6
    <2>4. New = Old \cup {Len(log) + 1}
      BY <1>6
    <2> HIDE DEF N, X, Old, New
    <2> QED
      BY <1>5, <2>2, <2>3, <2>4
  <1>9. Modes'
    BY <1>1, <1>6 DEF IInv, Modes
  <1>10. RetentionLimit'
    BY <1>1, <1>6 DEF IInv, RetentionLimit
  <1> QED
    BY <1>1, <1>3, <1>6, <1>7, <1>8, <1>9, <1>10 DEF IInv

(* write() that splits: what was cached goes to the old file, the message to the new. *)
LEMMA SplitAndWriteKeeps ==
  ASSUME IInv, options' = options, NEW t, NEW stamp, NEW losses, NEW n, SplitAndWrite(t, stamp, losses, n)
  PROVE  IInv'
  <1> DEFINE m == NewMessage(t, stamp)
             new == IF options.mode = "direct" THEN {m} ELSE {}
             y == Kept(Pending, losses)
             f == AddToFile(Written, y)
             rolled == Rolled(f, losses, n)
             l == Len(rolled.files)
             b == [rolled EXCEPT !.files[l].starting_time = stamp]
             atRisk == Range(Pending) \cup Range(Heads) \cup new
             N == 1 .. Len(log)
             X == OriginalIds(losses)
             L == OriginalIds(lost)
             P == OriginalIds(Range(Pending))
             S == OriginalIds(Stored(b))
             New == OriginalIds(lost') \cup OriginalIds(Stored(bag')) \cup OriginalIds(Range(<<>> \o cache'))
  <1>1. /\ options.mode # "snapshot"
        /\ Split(f, atRisk, losses, n)
        /\ Store(b, m, <<>>, losses)
    BY DEF SplitAndWrite, SplitsFor
  <1>2. /\ is_open /\ losses \in SUBSET atRisk /\ in_flight' = <<>> /\ uncounted' = <<>> /\ failed' = failed
    BY <1>1 DEF Split
  <1>3. /\ Refiled(bag, f, y)
        /\ Sound(f, Rest, Len(log))
    BY Flushing
  <1>4. Rest = <<>>
    BY <1>1, InvFacts DEF IInv, Modes, Rest
  <1>5. failed = 0 => /\ P \subseteq N
                      /\ L \cup X \cup OriginalIds(Stored(f)) \cup gone = N \cup X
    BY <1>1, <1>2, FlushedIds
  <1>6. m.id = Len(log) + 1 /\ m.repeat = FALSE
    BY DEF NewMessage
  <1>7. X \subseteq P \cup {Len(log) + 1}
    <2>1. Copies(Heads)
      BY HeadsAreCopies DEF IInv
    <2>2. OriginalIds(Range(Heads)) = {}
      BY <2>1, IdsOfCopies
    <2>3. X \subseteq OriginalIds((Range(Pending) \cup Range(Heads)) \cup new)
      BY <1>2 DEF OriginalIds
    <2>4. OriginalIds((Range(Pending) \cup Range(Heads)) \cup new) = (P \cup OriginalIds(Range(Heads))) \cup OriginalIds(new)
      <3>1. OriginalIds(Range(Pending) \cup Range(Heads)) = P \cup OriginalIds(Range(Heads))
        BY IdsOfUnion
      <3> HIDE DEF new
      <3>2. OriginalIds((Range(Pending) \cup Range(Heads)) \cup new)
            = OriginalIds(Range(Pending) \cup Range(Heads)) \cup OriginalIds(new)
        BY IdsOfUnion
      <3> QED
        BY <3>1, <3>2
    <2>5. OriginalIds(new) \subseteq {Len(log) + 1}
      BY <1>6 DEF OriginalIds
    <2> QED
      BY <2>2, <2>3, <2>4, <2>5
  <1> HIDE DEF f, y, atRisk, m
  <1>8. /\ Sound(rolled, <<>>, Len(log)) /\ rolled.storage # NoFile /\ l > 0
        /\ options.max_bag_files > 0 /\ ~undeleted' => l <= options.max_bag_files
        /\ OriginalIds(Stored(rolled)) \cup gone' = OriginalIds(Stored(f)) \cup gone
    <2>1. Sound(f, <<>>, Len(log))
      BY <1>3, <1>4
    <2> QED
      BY <1>1, <1>3, <2>1, Splitting
  <1> HIDE DEF rolled
  <1>9. Listed(rolled) /\ DOMAIN rolled = Fields /\ l \in 1 .. l /\ l \in DOMAIN rolled.files
    <2>1. Listed(rolled)
      BY <1>8 DEF Sound
    <2> QED
      BY <2>1, <1>8, StorageIsLast, SequenceFacts DEF Listed
  <1>10. /\ DOMAIN b = Fields /\ b.storage = rolled.storage /\ b.next_file_index = rolled.next_file_index
         /\ b.disk = rolled.disk
         /\ b.files = [rolled.files EXCEPT ![l].starting_time = stamp]
    BY <1>9 DEF Fields
  <1>11. Refiled(rolled, b, <<>>)
    <2> DEFINE g == [rolled.files[l] EXCEPT !.starting_time = stamp]
    <2>1. b.files = [rolled.files EXCEPT ![l] = g]
      BY <1>9, <1>10
    <2>2. "index" \in DOMAIN g /\ g.index = rolled.files[l].index
      BY <1>9 DEF Listed
    <2> HIDE DEF g, b
    <2> QED
      BY <1>8, <1>9, <1>10, <2>1, <2>2, Redated
  <1> HIDE DEF b
  <1>12. Sound(b, <<>>, Len(log)) /\ Stored(b) = Stored(rolled)
    <2>1. PartOf(<<>>, <<>>) /\ IsSequence(<<>>) /\ <<>> \o <<>> = <<>> /\ Range(<<>>) = {}
      BY InvFacts, EmptySequence, PartsOfSequences DEF Ordered
    <2>2. Sound(rolled, <<>> \o <<>>, Len(log))
      BY <1>8, <2>1
    <2>3. Stored(b) = Stored(rolled)
      BY <1>9, <1>11, <2>1, RefiledStored
    <2> QED
      BY <1>11, <2>1, <2>2, <2>3, SoundOnceFiled
  <1>13. b.storage # NoFile /\ Len(b.files) = l
    BY <1>8, <1>11 DEF Refiled
  <1>14. /\ options \in Configurations /\ IsSequence(log) /\ Latches(transient)
         /\ IsSequence(<<>>) /\ Sound(b, <<>> \o <<>>, Len(log)) /\ <<>> \o <<>> = <<>>
    BY <1>12, InvFacts DEF IInv
  <1>15. OriginalIds(Range(<<>> \o <<>>)) = {}
    BY <1>14, NoIds
  <1>16. /\ Sound(bag', <<>> \o cache', Len(log')) /\ Latches(transient')
         /\ IsSequence(cache') /\ IsSequence(log') /\ Len(log') = Len(log) + 1 /\ Len(log) \in Nat
         /\ bag'.storage = b.storage /\ Len(bag'.files) = Len(b.files)
         /\ options.mode = "direct" => cache' = <<>>
         /\ options.mode = "snapshot" \/ New = L \cup X \cup S \cup OriginalIds(Range(<<>> \o <<>>)) \cup {Len(log) + 1}
    <2> DEFINE w == <<>>
               queued == <<>>
    <2>1. /\ IsSequence(w) /\ IsSequence(queued) /\ Sound(b, w \o queued, Len(log)) /\ w = <<>>
          /\ options.mode = "direct" => queued = <<>> /\ b.storage # NoFile
      BY <1>13, <1>14
    <2>2. Len(b.files) > 0 /\ Store(b, m, queued, losses)
      BY <1>1, <1>8, <1>13
    <2>3. Taken(b, w, queued, losses)
      <3> HIDE DEF w, queued
      <3> QED
        BY <1>6, <1>14, <2>1, <2>2, Storing
    <2> QED
      BY <2>3 DEF Taken
  <1>17. Todo' = <<>> \o cache'
    BY <1>2 DEF Todo
  <1>18. Modes' /\ RetentionLimit' /\ failed' \in Nat
    BY <1>1, <1>8, <1>13, <1>16, SplitModes
  <1>19. options.mode # "snapshot" /\ failed = 0 => Balanced(bag', Todo', lost', gone', Len(log'))
    <2> SUFFICES ASSUME failed = 0
                 PROVE  1 .. Len(log) + 1 = New \cup gone'
      BY <1>16, <1>17 DEF Balanced
    <2>1. New = L \cup X \cup S \cup {} \cup {Len(log) + 1}
      BY <1>1, <1>15, <1>16
    <2>2. 1 .. Len(log) + 1 = N \cup {Len(log) + 1}
      BY <1>16
    <2>3. S \cup gone' = OriginalIds(Stored(f)) \cup gone
      BY <1>8, <1>12
    <2> HIDE DEF N, X, L, S, P, New
    <2> QED
      BY <1>5, <1>7, <2>1, <2>2, <2>3
  <1> QED
    BY <1>2, <1>14, <1>16, <1>17, <1>18, <1>19, InvFacts DEF IInv

-----------------------------------------------------------------------------
(* The theorems. *)

(* Before open() there is no file and no message. *)
LEMMA InitHolds == Init => IInv
  <1> SUFFICES ASSUME Init PROVE IInv
    OBVIOUS
  <1>1. /\ options \in Configurations /\ is_open = FALSE /\ consumer = FALSE /\ failed = 0
        /\ cache = <<>> /\ in_flight = <<>> /\ uncounted = <<>> /\ log = <<>> /\ lost = {} /\ gone = {} /\ transient = <<>>
        /\ bag.storage = NoFile /\ bag.disk = <<>> /\ bag.files = <<>> /\ bag.next_file_index = 1
        /\ DOMAIN bag = Fields
    BY DEF Init, Fields
  <1>2. IsSequence(<<>>) /\ Range(<<>>) = {} /\ Len(<<>>) = 0 /\ DOMAIN <<>> = {} /\ <<>> \o <<>> = <<>>
    BY EmptySequence, EmptyJoined
  <1>3. Listed(bag)
    BY <1>1, <1>2 DEF Listed
  <1>4. Stored(bag) = {}
    BY <1>1, <1>2 DEF Stored
  <1>5. Sound(bag, Todo, Len(log))
    <2>1. Todo = <<>>
      BY <1>1, <1>2 DEF Todo
    <2> QED
      BY <1>1, <1>2, <1>3, <1>4, <2>1 DEF Sound, InOrder, Ordered, Numbered
  <1>6. Latches(transient)
    BY <1>1, <1>2, FS_EmptySet DEF Latches
  <1>7. Modes /\ RetentionLimit
    <2>1. RetentionLimit
      BY <1>1, <1>2, OptionFacts DEF RetentionLimit
    <2> QED
      BY <1>1, <2>1 DEF Modes
  <1>8. Balanced(bag, Todo, lost, gone, Len(log))
    <2>1. 1 .. 0 = {} /\ Todo = <<>>
      BY <1>1, <1>2 DEF Todo
    <2> QED
      BY <1>1, <1>2, <1>4, <2>1, NoIds DEF Balanced
  <1> QED
    BY <1>1, <1>2, <1>5, <1>6, <1>7, <1>8 DEF IInv

(* Every step of a call or of the consumer keeps it. *)
LEMMA NextKeeps == IInv /\ [Next]_vars => IInv'
  <1> SUFFICES ASSUME IInv, [Next]_vars PROVE IInv'
    OBVIOUS
  <1>1. CASE UNCHANGED vars
    <2>1. UNCHANGED <<options, is_open, bag, transient, undeleted, cache, in_flight, uncounted, consumer, log, lost, gone, failed>>
      BY <1>1 DEF vars, callVars, pipe, history
    <2>2. Todo' = Todo /\ Modes' = Modes /\ RetentionLimit' = RetentionLimit
      BY <2>1 DEF Todo, Modes, RetentionLimit
    <2> QED
      BY <2>1, <2>2 DEF IInv
  <1>2. CASE Next
    <2>1. options' = options
      BY <1>2 DEF Next
    <2>2. ASSUME NEW convert, Open(convert) \/ OpenFails(convert) PROVE IInv'
      BY <2>1, <2>2, OpenKeeps, OpenFailsKeeps
    <2>3. ASSUME NEW losses \in Losses(Pending), Close(losses) \/ RolloverFails(losses) PROVE IInv'
      BY <2>1, <2>3, CloseKeeps, RolloverFailsKeeps
    <2>4. ASSUME NEW t, CreateTopic(t) \/ RemoveTopic(t) PROVE IInv'
      BY <2>1, <2>4, CreateTopicKeeps, RemoveTopicKeeps
    <2>5. ASSUME NEW losses, NEW n, SplitBagfile(losses, n) \/ TakeSnapshot(losses, n) PROVE IInv'
      BY <2>1, <2>5, SplitBagfileKeeps, TakeSnapshotKeeps
    <2>6. ASSUME NEW t, NEW stamp, NEW losses, Write(t, stamp, losses) PROVE IInv'
      BY <2>1, <2>6, WriteKeeps
    <2>7. ASSUME NEW t, NEW stamp, NEW losses, NEW n, SplitAndWrite(t, stamp, losses, n) PROVE IInv'
      BY <2>1, <2>7, SplitAndWriteKeeps
    <2>8. CASE SwapBuffers
      BY <2>1, <2>8, SwapBuffersKeeps
    <2>9. ASSUME NEW losses, StoreMessages(losses) PROVE IInv'
      BY <2>1, <2>9, StoreMessagesKeeps
    <2>10. CASE CountMessages
      BY <2>1, <2>10, CountMessagesKeeps
    <2>11. CASE Crash
      BY <2>1, <2>11, CrashKeeps
    <2> QED
      BY <1>2, <2>2, <2>3, <2>4, <2>5, <2>6, <2>7, <2>8, <2>9, <2>10, <2>11 DEF Next
  <1> QED
    BY <1>1, <1>2

(* For any options, topics and depth, whatever the storage refuses and whenever the
   consumer runs: the files and the queue hold the messages in order, and none is missing. *)
THEOREM Invariance == Spec => []IInv
  BY InitHolds, NextKeeps, PTL DEF Spec

(* The parts of InOrderOnce and Accounted are the files, then the queue's two halves. *)
LEMMA PartsAre ==
  ASSUME IInv
  PROVE  LET l == Len(bag.files) IN
         /\ l \in Nat /\ DOMAIN Parts = 1 .. l + 2
         /\ \A i \in 1 .. l : /\ Parts[i] = bag.disk[bag.files[i].index].messages
                              /\ bag.files[i].index \in DOMAIN bag.disk
         /\ Parts[l + 1] = in_flight /\ Parts[l + 2] = cache
  <1> DEFINE l == Len(bag.files)
             f == [i \in DOMAIN bag.files |-> bag.disk[bag.files[i].index].messages]
             g == <<in_flight, cache>>
  <1>1. l \in Nat /\ DOMAIN bag.files = 1 .. l /\ DOMAIN bag.disk = {bag.files[i].index : i \in 1 .. l}
    BY InvFacts, SequenceFacts DEF Listed
  <1>2. /\ f = [i \in 1 .. l |-> f[i]]
        /\ \A i \in 1 .. l : f[i] = bag.disk[bag.files[i].index].messages
    BY <1>1
  <1>3. IsSequence(g) /\ Len(g) = 2 /\ g[1] = in_flight /\ g[2] = cache
    <2>1. g \in Seq({in_flight, cache}) /\ Len(g) = 2 /\ g[1] = in_flight /\ g[2] = cache
      OBVIOUS
    <2> QED
      BY <2>1, SequenceOver
  <1>4. Parts = f \o g
    BY DEF Parts
  <1> HIDE DEF f, g
  <1>5. IsSequence(f) /\ Len(f) = l
    <2> HIDE DEF l
    <2> QED
      BY <1>1, <1>2, FunctionSequence
  <1>6. /\ IsSequence(Parts) /\ Len(Parts) = l + 2
        /\ \A i \in 1 .. l : Parts[i] = f[i]
        /\ \A i \in 1 .. 2 : Parts[l + i] = g[i]
    <2>1. /\ IsSequence(f \o g) /\ Len(f \o g) = Len(f) + Len(g)
          /\ \A i \in 1 .. Len(f) : (f \o g)[i] = f[i]
          /\ \A i \in 1 .. Len(g) : (f \o g)[Len(f) + i] = g[i]
      <3>1. IsSequence(f) /\ IsSequence(g)
        BY <1>3, <1>5
      <3> QED
        BY <3>1, ConcatFacts, SMTT(30)
    <2> HIDE DEF l
    <2> QED
      BY <1>3, <1>4, <1>5, <2>1
  <1>7. DOMAIN Parts = 1 .. l + 2
    BY <1>6, SequenceFacts
  <1>8. 1 \in 1 .. 2 /\ 2 \in 1 .. 2
    OBVIOUS
  <1> QED
    BY <1>1, <1>2, <1>3, <1>6, <1>7, <1>8

(* Over all files, splits, deletions and flushes, each message that write() took is
   stored at most once and in the order of the calls. *)
THEOREM OrderSafety == Spec => []InOrderOnce
  <1>1. IInv => InOrderOnce
    <2> SUFFICES ASSUME IInv PROVE InOrderOnce
      OBVIOUS
    <2> DEFINE l == Len(bag.files)
    <2>1. /\ l \in Nat /\ DOMAIN Parts = 1 .. l + 2
          /\ \A i \in 1 .. l : /\ Parts[i] = bag.disk[bag.files[i].index].messages
                               /\ bag.files[i].index \in DOMAIN bag.disk
          /\ Parts[l + 1] = in_flight /\ Parts[l + 2] = cache
      BY PartsAre
    <2>2. IsSequence(in_flight) /\ IsSequence(cache) /\ Sound(bag, in_flight \o cache, Len(log)) /\ Listed(bag)
      BY InvFacts DEF IInv, Todo
    <2>3. /\ Ordered(in_flight) /\ Ordered(cache) /\ Below(Range(in_flight), Range(cache))
          /\ \A k \in DOMAIN bag.disk : /\ Below(Range(bag.disk[k].messages), Range(in_flight))
                                        /\ Below(Range(bag.disk[k].messages), Range(cache))
      BY <2>2, SoundParts
    <2>4. /\ \A k \in DOMAIN bag.disk : Ordered(bag.disk[k].messages)
          /\ \A k, j \in DOMAIN bag.disk : k < j => Below(Range(bag.disk[k].messages), Range(bag.disk[j].messages))
          /\ \A i, j \in 1 .. l : i < j => bag.files[i].index < bag.files[j].index
      BY <2>2 DEF Sound, InOrder, Listed
    <2>5. \A i \in 1 .. l + 2 : i \in 1 .. l \/ i = l + 1 \/ i = l + 2
      BY <2>1
    <2>6. \A i \in 1 .. l + 2 : Ordered(Parts[i])
      BY <2>1, <2>3, <2>4, <2>5
    <2>7. ASSUME NEW i \in 1 .. l + 2, NEW j \in 1 .. l + 2, i < j
          PROVE  Below(Range(Parts[i]), Range(Parts[j]))
      <3>1. CASE j \in 1 .. l
        <4>1. i \in 1 .. l
          BY <2>1, <2>7, <3>1
        <4> QED
          BY <2>1, <2>4, <2>7, <3>1, <4>1
      <3>2. CASE j = l + 1
        <4>1. i \in 1 .. l
          BY <2>1, <2>7, <3>2
        <4> QED
          BY <2>1, <2>3, <3>2, <4>1
      <3>3. CASE j = l + 2
        <4>1. i \in 1 .. l \/ i = l + 1
          BY <2>1, <2>7, <3>3
        <4> QED
          BY <2>1, <2>3, <3>3, <4>1
      <3> QED
        BY <2>5, <3>1, <3>2, <3>3
    <2>8. \A i \in 1 .. l + 2 : \A p \in DOMAIN Parts[i] : Parts[i][p] \in Range(Parts[i])
      BY DEF Range
    <2> HIDE DEF l
    <2> SUFFICES ASSUME NEW i \in 1 .. l + 2, NEW j \in 1 .. l + 2,
                        NEW p \in DOMAIN Parts[i], NEW q \in DOMAIN Parts[j],
                        i < j \/ (i = j /\ p < q), ~Parts[i][p].repeat, ~Parts[j][q].repeat
                 PROVE  Parts[i][p].id < Parts[j][q].id
      BY <2>1 DEF InOrderOnce
    <2>9. CASE i < j
      BY <2>7, <2>8, <2>9 DEF Below
    <2>10. CASE i = j /\ p < q
      BY <2>6, <2>10 DEF Ordered
    <2> QED
      BY <2>9, <2>10
  <1> QED
    BY <1>1, Invariance, PTL

(* Without a snapshot, each message that write() took is in a file, on its way to one,
   reported lost, or was in a deleted file (as long as no rollover fails). *)
THEOREM LossSafety == Spec => []NothingLostSilently
  <1>1. IInv => NothingLostSilently
    <2> SUFFICES ASSUME IInv, options.mode # "snapshot", ~(failed > 0) PROVE Accounted
      BY DEF NothingLostSilently
    <2> DEFINE l == Len(bag.files)
    <2>1. failed = 0
      BY DEF IInv
    <2>2. /\ l \in Nat /\ DOMAIN Parts = 1 .. l + 2
          /\ \A i \in 1 .. l : /\ Parts[i] = bag.disk[bag.files[i].index].messages
                               /\ bag.files[i].index \in DOMAIN bag.disk
          /\ Parts[l + 1] = in_flight /\ Parts[l + 2] = cache
      BY PartsAre
    <2>3. \A i \in 1 .. l + 2 : i \in 1 .. l \/ i = l + 1 \/ i = l + 2
      BY <2>2
    <2>4. DOMAIN bag.disk = {bag.files[i].index : i \in 1 .. l}
      BY InvFacts DEF Listed
    <2>5. Range(Todo) = Range(in_flight) \cup Range(cache)
      BY ConcatFacts DEF IInv, Todo
    <2>6. \A i \in 1 .. l : i \in 1 .. l + 2
      BY <2>2
    <2>7. l + 1 \in 1 .. l + 2 /\ l + 2 \in 1 .. l + 2
      BY <2>2
    <2> DEFINE all == UNION {Range(Parts[i]) : i \in DOMAIN Parts}
    <2>8. all = Stored(bag) \cup Range(Todo)
      <3> HIDE DEF l
      <3>1. ASSUME NEW m \in all PROVE m \in Stored(bag) \cup Range(Todo)
        <4>1. PICK i \in 1 .. l + 2 : m \in Range(Parts[i])
          BY <2>2, <3>1
        <4>2. CASE i \in 1 .. l
          BY <2>2, <4>1, <4>2 DEF Stored
        <4>3. CASE i = l + 1 \/ i = l + 2
          BY <2>2, <2>5, <4>1, <4>3
        <4> QED
          BY <2>3, <4>2, <4>3
      <3>2. ASSUME NEW m \in Stored(bag) PROVE m \in all
        <4>1. PICK k \in DOMAIN bag.disk : m \in Range(bag.disk[k].messages)
          BY <3>2 DEF Stored
        <4>2. PICK i \in 1 .. l : k = bag.files[i].index
          BY <2>4, <4>1
        <4>3. m \in Range(Parts[i]) /\ i \in DOMAIN Parts
          BY <2>2, <2>6, <4>1, <4>2
        <4> QED
          BY <4>3
      <3>3. Range(Todo) \subseteq all
        BY <2>2, <2>5, <2>7
      <3> QED
        BY <3>1, <3>2, <3>3
    <2>9. 1 .. Len(log) = OriginalIds(lost) \cup OriginalIds(Stored(bag)) \cup OriginalIds(Range(Todo)) \cup gone
      BY <2>1 DEF IInv, Balanced
    <2>10. OriginalIds(lost \cup all) = OriginalIds(lost) \cup OriginalIds(Stored(bag)) \cup OriginalIds(Range(Todo))
      <3>1. OriginalIds(lost \cup all) = OriginalIds(lost) \cup OriginalIds(all)
        BY IdsOfUnion
      <3>2. OriginalIds(all) = OriginalIds(Stored(bag)) \cup OriginalIds(Range(Todo))
        BY <2>8, IdsOfUnion
      <3> QED
        BY <3>1, <3>2
    <2>11. 1 .. Len(log) = OriginalIds(lost \cup all) \cup gone
      BY <2>9, <2>10
    <2> QED
      BY <2>11 DEF Accounted
  <1> QED
    BY <1>1, Invariance, PTL

(* metadata_ lists the files on disk, oldest first, the last one is written to, and
   there are no more than max_bag_files unless the last deletion failed. *)
THEOREM FilesSafety == Spec => [](FilesAreListed /\ RetentionLimit)
  <1>1. IInv => FilesAreListed /\ RetentionLimit
    <2> SUFFICES ASSUME IInv PROVE FilesAreListed
      BY DEF IInv
    <2>1. Listed(bag) /\ DOMAIN bag.files = 1 .. Len(bag.files)
      BY InvFacts, SequenceFacts DEF Listed
    <2>2. Last(bag.files) = bag.files[Len(bag.files)]
      BY DEF Last
    <2> QED
      BY <2>1, <2>2 DEF FilesAreListed, Listed
  <1> QED
    BY <1>1, Invariance, PTL

-----------------------------------------------------------------------------
(* Counts. *)

(* A finite set of times has a latest one. *)
LEMMA LatestOf ==
  ASSUME NEW S \in SUBSET Nat, IsFiniteSet(S), S # {}
  PROVE  \E x \in S : \A y \in S : y <= x
  <1> DEFINE Last1(T) == \E x \in T : \A y \in T : y <= x
             Of(T, n) == IsFiniteSet(T) /\ Cardinality(T) = n + 1
             P == {n \in Nat : \A T \in SUBSET S : Of(T, n) => Last1(T)}
  <1>1. 0 \in P
    <2> SUFFICES ASSUME NEW T \in SUBSET S, Of(T, 0) PROVE Last1(T)
      OBVIOUS
    <2>1. IsFiniteSet(T) /\ Cardinality(T) = 1
      OBVIOUS
    <2>2. PICK x : T = {x}
      BY <2>1, FS_Singleton
    <2>3. x \in Nat
      BY <2>2
    <2> QED
      BY <2>2, <2>3
  <1>2. ASSUME NEW n \in P PROVE n + 1 \in P
    <2> SUFFICES ASSUME NEW T \in SUBSET S, Of(T, n + 1) PROVE Last1(T)
      OBVIOUS
    <2>1. T # {}
      BY FS_EmptySet
    <2>2. PICK x \in T : TRUE
      BY <2>1
    <2>3. Of(T \ {x}, n) /\ T \ {x} \in SUBSET S
      BY <2>2, FS_RemoveElement
    <2>4. PICK z \in T \ {x} : \A y \in T \ {x} : y <= z
      BY <2>3
    <2>5. x \in Nat /\ z \in Nat /\ \A y \in T : y \in Nat /\ (y = x \/ y <= z)
      BY <2>2, <2>4
    <2>6. CASE x <= z
      BY <2>4, <2>5, <2>6
    <2>7. CASE ~(x <= z)
      <3>1. \A y \in T : y <= x
        BY <2>5, <2>7
      <3> QED
        BY <2>2, <3>1
    <2> QED
      BY <2>6, <2>7
  <1> HIDE DEF Last1, Of
  <1>3. P = Nat
    <2>1. P \in SUBSET Nat
      OBVIOUS
    <2> HIDE DEF P
    <2> QED
      BY <1>1, <1>2, <2>1, NatSetInduction
  <1>4. PICK n \in Nat : Cardinality(S) = n + 1
    <2>1. Cardinality(S) \in Nat /\ Cardinality(S) # 0
      BY FS_CardinalityType, FS_EmptySet
    <2>2. Cardinality(S) - 1 \in Nat /\ Cardinality(S) = Cardinality(S) - 1 + 1
      BY <2>1
    <2> QED
      BY <2>2
  <1>5. Of(S, n)
    BY <1>4 DEF Of
  <1>6. Last1(S)
    BY <1>3, <1>5
  <1> QED
    BY <1>6 DEF Last1

(* No time is later than all times. *)
LEMMA NoTimeIsLate ==
  ASSUME options \in Configurations
  PROVE  NoTime \in Nat /\ options.stamps \subseteq Nat
  <1> DEFINE S == options.stamps \cup {0}
  <1>1. options \in Options /\ IsFiniteSet(options.stamps)
    BY WriterAssumption
  <1>2. options.stamps \subseteq Nat
    BY <1>1 DEF Options
  <1>3. S \in SUBSET Nat /\ IsFiniteSet(S) /\ S # {}
    BY <1>1, <1>2, FS_AddElement
  <1>4. \E x \in S : \A y \in S : x >= y
    <2>1. PICK x \in S : \A y \in S : y <= x
      BY <1>3, LatestOf
    <2>2. \A y \in S : x >= y
      BY <1>3, <2>1
    <2> QED
      BY <2>2
  <1> HIDE DEF S
  <1>5. Max(S) \in S
    BY <1>4 DEF Max
  <1> QED
    BY <1>2, <1>3, <1>5 DEF NoTime, S

(* The number of messages on a topic is a number, and there are none in <<>>. *)
LEMMA CountFacts ==
  ASSUME NEW s, IsSequence(s), NEW t
  PROVE  /\ Count(s, t) \in Nat
         /\ Count(<<>>, t) = 0
         /\ Count(s, t) = 0 <=> \A i \in 1 .. Len(s) : s[i].topic # t
  <1> DEFINE K == {i \in DOMAIN s : s[i].topic = t}
  <1>1. Len(s) \in Nat /\ DOMAIN s = 1 .. Len(s)
    BY SequenceFacts
  <1>2. IsFiniteSet(1 .. Len(s)) /\ K \in SUBSET (1 .. Len(s))
    BY <1>1, FS_Interval
  <1>3. IsFiniteSet(K)
    BY <1>2, FS_Subset
  <1>4. Cardinality(K) \in Nat /\ (Cardinality(K) = 0 <=> K = {})
    BY <1>3, FS_CardinalityType, FS_EmptySet
  <1>5. {i \in DOMAIN <<>> : <<>>[i].topic = t} = {}
    BY EmptySequence
  <1>6. Count(<<>>, t) = 0
    BY <1>5, FS_EmptySet DEF Count
  <1> QED
    BY <1>1, <1>4, <1>6 DEF Count

(* Those of two sequences. *)
LEMMA CountConcat ==
  ASSUME NEW s, NEW x, IsSequence(s), IsSequence(x), NEW t
  PROVE  Count(s \o x, t) = Count(s, t) + Count(x, t)
  <1> DEFINE u == s \o x
             n == Len(s)
             A == {i \in DOMAIN s : s[i].topic = t}
             B == {i \in DOMAIN x : x[i].topic = t}
             C == {i \in DOMAIN u : u[i].topic = t}
             D == {n + j : j \in B}
             f == [j \in B |-> n + j]
  <1>1. n \in Nat /\ DOMAIN s = 1 .. n /\ Len(x) \in Nat /\ DOMAIN x = 1 .. Len(x)
    BY SequenceFacts
  <1>2. /\ IsSequence(u) /\ Len(u) = n + Len(x)
        /\ \A i \in 1 .. n : u[i] = s[i]
        /\ \A i \in 1 .. Len(x) : u[n + i] = x[i]
        /\ \A i \in 1 .. n + Len(x) : i \in 1 .. n \/ \E j \in 1 .. Len(x) : i = n + j
    BY ConcatFacts
  <1>3. DOMAIN u = 1 .. n + Len(x)
    BY <1>2, SequenceFacts
  <1> HIDE DEF u, n
  <1>4. IsFiniteSet(A) /\ IsFiniteSet(B)
    <2>1. IsFiniteSet(1 .. n) /\ IsFiniteSet(1 .. Len(x))
      BY <1>1, FS_Interval
    <2>2. A \in SUBSET (1 .. n) /\ B \in SUBSET (1 .. Len(x))
      BY <1>1
    <2> QED
      BY <2>1, <2>2, FS_Subset
  <1>5. C = A \cup D
    <2>1. ASSUME NEW i \in C PROVE i \in A \cup D
      <3>1. i \in 1 .. n + Len(x) /\ u[i].topic = t
        BY <1>3
      <3>2. CASE i \in 1 .. n
        BY <1>1, <1>2, <3>1, <3>2
      <3>3. CASE i \notin 1 .. n
        <4>1. PICK j \in 1 .. Len(x) : i = n + j
          BY <1>2, <3>1, <3>3
        <4>2. j \in B
          BY <1>1, <1>2, <3>1, <4>1
        <4> QED
          BY <4>1, <4>2
      <3> QED
        BY <3>2, <3>3
    <2>2. ASSUME NEW i \in A PROVE i \in C
      <3>1. i \in 1 .. n /\ i \in 1 .. n + Len(x)
        BY <1>1
      <3> QED
        BY <1>2, <1>3, <3>1
    <2>3. ASSUME NEW j \in B PROVE n + j \in C
      <3>1. j \in 1 .. Len(x) /\ n + j \in 1 .. n + Len(x)
        BY <1>1
      <3> QED
        BY <1>2, <1>3, <3>1
    <2> QED
      BY <2>1, <2>2, <2>3
  <1>6. A \cap D = {}
    BY <1>1
  <1>7. IsFiniteSet(D) /\ Cardinality(D) = Cardinality(B)
    <2>1. f \in Bijection(B, D)
      <3>1. \A j, k \in B : f[j] = f[k] => j = k
        BY <1>1
      <3>2. f \in [B -> D] /\ \A d \in D : \E j \in B : f[j] = d
        OBVIOUS
      <3> QED
        BY <3>1, <3>2 DEF Bijection, Injection, Surjection, IsInjective
    <2> QED
      BY <1>4, <2>1, FS_Bijection DEF ExistsBijection
  <1> HIDE DEF A, B, C, D
  <1>8. Cardinality(C) = Cardinality(A) + Cardinality(D) - 0
    BY <1>4, <1>5, <1>6, <1>7, FS_Union, FS_EmptySet
  <1>9. Cardinality(A) \in Nat /\ Cardinality(B) \in Nat
    BY <1>4, FS_CardinalityType
  <1>10. Cardinality(C) = Cardinality(A) + Cardinality(B)
    BY <1>7, <1>8, <1>9
  <1> QED
    BY <1>10 DEF Count, A, B, C, u

-----------------------------------------------------------------------------
(* Counts and dates of the files. *)

FileFields == {"index", "starting_time", "duration", "message_count"}

(* The counts of the topics are a table.                                   *)
Tabled(b) == b.topics = [t \in DOMAIN b.topics |-> b.topics[t]]

(* What is kept for each file, for each topic and in the storage is there. *)
Detailed(b) ==
    /\ \A i \in 1 .. Len(b.files) : DOMAIN b.files[i] = FileFields /\ b.files[i].message_count \in Nat
    /\ IsSequence(b.per_file) /\ Len(b.per_file) = Len(b.files)
    /\ \A i \in 1 .. Len(b.files) : b.per_file[i] \in [Topics -> Nat]
    /\ DOMAIN b.topics \subseteq Topics /\ IsFiniteSet(DOMAIN b.topics)
    /\ \A t \in DOMAIN b.topics : b.topics[t] \in Nat
    /\ Tabled(b)
    /\ \A k \in DOMAIN b.disk : DOMAIN b.disk[k] = {"formats", "messages"}
    /\ b.storage # NoFile => DOMAIN b.disk[b.storage].formats = DOMAIN b.topics

(* The counts of a file are those of its messages, but for u, messages of the *)
(* last file that are still to be counted, and for the topics M.             *)
Counted(b, u, M) ==
    /\ IsSequence(u)
    /\ \A i \in 1 .. Len(b.files) :
          LET messages == b.disk[b.files[i].index].messages
              rest == IF i = Len(b.files) THEN u ELSE <<>>
          IN  /\ b.files[i].message_count = Len(messages)
              /\ \A t \in Topics \ M : b.per_file[i][t] + Count(rest, t) = Count(messages, t)

(* From b to a the messages x were added to the last file and counted, and    *)
(* perhaps dates changed.                                                     *)
Grown(b, a, x) ==
    /\ Refiled(b, a, x)
    /\ \A i \in 1 .. Len(b.files) :
          /\ DOMAIN a.files[i] = FileFields
          /\ i # Len(b.files) => a.files[i] = b.files[i]
          /\ i = Len(b.files) => a.files[i].message_count = b.files[i].message_count + Len(x)
    /\ IsSequence(a.per_file) /\ Len(a.per_file) = Len(b.per_file)
    /\ \A i \in 1 .. Len(b.files) :
          /\ i # Len(b.files) => a.per_file[i] = b.per_file[i]
          /\ i = Len(b.files) => a.per_file[i] = [t \in Topics |-> b.per_file[i][t] + Count(x, t)]
    /\ DOMAIN a.topics = DOMAIN b.topics /\ Tabled(a)
    /\ \A t \in DOMAIN b.topics : a.topics[t] = b.topics[t] + Count(x, t)
    /\ \A k \in DOMAIN b.disk : DOMAIN a.disk[k] = DOMAIN b.disk[k] /\ a.disk[k].formats = b.disk[k].formats

OnTopics(x, T) == \A m \in Range(x) : m.topic \in T

(* Messages on other topics do not count. *)
LEMMA CountOthers ==
  ASSUME NEW x, IsSequence(x), NEW T, OnTopics(x, T), NEW t, t \notin T
  PROVE  Count(x, t) = 0
  <1>1. Len(x) \in Nat /\ Range(x) = {x[i] : i \in 1 .. Len(x)}
    BY SequenceFacts
  <1>2. \A i \in 1 .. Len(x) : x[i].topic # t
    BY <1>1 DEF OnTopics
  <1> QED
    BY <1>2, CountFacts

(* Nothing is added. *)
LEMMA GrownNot ==
  ASSUME NEW b, NEW a, Listed(b), Detailed(b), Refiled(b, a, <<>>),
         a.per_file = b.per_file, a.topics = b.topics, a.disk = b.disk,
         \/ a.files = b.files
         \/ \E g : /\ a.files = [b.files EXCEPT ![Len(b.files)] = g]
                   /\ Len(b.files) > 0
                   /\ DOMAIN g = FileFields /\ g.message_count = b.files[Len(b.files)].message_count
  PROVE  Grown(b, a, <<>>)
  <1> DEFINE n == Len(b.files)
  <1>1. n \in Nat /\ IsSequence(b.files)
    BY SequenceFacts DEF Listed
  <1>2. \A i \in 1 .. n : b.files[i].message_count \in Nat /\ b.per_file[i] \in [Topics -> Nat] /\ DOMAIN b.files[i] = FileFields
    BY DEF Detailed
  <1>3. \A t \in DOMAIN b.topics : b.topics[t] \in Nat
    BY DEF Detailed
  <1>4. Len(<<>>) = 0 /\ \A t : Count(<<>>, t) = 0
    BY CountFacts, EmptySequence
  <1>5. \A i \in 1 .. n :
          /\ DOMAIN a.files[i] = FileFields
          /\ i # n => a.files[i] = b.files[i]
          /\ i = n => a.files[i].message_count = b.files[i].message_count
    <2>1. CASE a.files = b.files
      BY <1>2, <2>1
    <2>2. ASSUME NEW g, a.files = [b.files EXCEPT ![n] = g], n > 0,
                 DOMAIN g = FileFields, g.message_count = b.files[n].message_count
          PROVE  \A i \in 1 .. n :
                    /\ DOMAIN a.files[i] = FileFields
                    /\ i # n => a.files[i] = b.files[i]
                    /\ i = n => a.files[i].message_count = b.files[i].message_count
      <3>1. n \in 1 .. n
        BY <1>1, <2>2
      <3>2. \A i \in 1 .. n : a.files[i] = IF i = n THEN g ELSE b.files[i]
        BY <1>1, <2>2, <3>1, OneChanged
      <3> QED
        BY <1>2, <2>2, <3>2
    <2> QED
      BY <2>1, <2>2
  <1>6. \A i \in 1 .. n : [t \in Topics |-> b.per_file[i][t] + 0] = b.per_file[i]
    BY <1>2
  <1>7. \A i \in 1 .. n : i = n => a.files[i].message_count = b.files[i].message_count + 0
    BY <1>2, <1>5
  <1>8. \A i \in 1 .. n : i = n => a.per_file[i] = [t \in Topics |-> b.per_file[i][t] + Count(<<>>, t)]
    BY <1>4, <1>6
  <1>9. \A t \in DOMAIN b.topics : a.topics[t] = b.topics[t] + Count(<<>>, t)
    BY <1>3, <1>4
  <1>10. IsSequence(b.per_file)
    BY DEF Detailed
  <1>11. Tabled(a)
    BY DEF Detailed, Tabled
  <1> QED
    BY <1>4, <1>5, <1>7, <1>8, <1>9, <1>10, <1>11 DEF Grown

(* Counts are not changed by a change of dates. *)
LEMMA GrownTwice ==
  ASSUME NEW b, NEW c, NEW a, NEW x, Listed(b), IsSequence(x), Detailed(b),
         Grown(b, c, x), Grown(c, a, <<>>)
  PROVE  Grown(b, a, x)
  <1>1. Refiled(b, a, x)
    BY RefiledTwice DEF Grown
  <1>2. Len(c.files) = Len(b.files) /\ DOMAIN c.disk = DOMAIN b.disk
    BY DEF Grown, Refiled
  <1>3. Len(<<>>) = 0 /\ \A t : Count(<<>>, t) = 0 /\ Count(x, t) \in Nat
    BY CountFacts, EmptySequence
  <1>4. Len(x) \in Nat
    BY SequenceFacts
  <1>5. \A i \in 1 .. Len(b.files) :
          /\ DOMAIN a.files[i] = FileFields
          /\ i # Len(b.files) => a.files[i] = b.files[i]
          /\ i = Len(b.files) => a.files[i].message_count = b.files[i].message_count + Len(x)
    <2> SUFFICES ASSUME NEW i \in 1 .. Len(b.files)
                 PROVE  /\ DOMAIN a.files[i] = FileFields
                        /\ i # Len(b.files) => a.files[i] = b.files[i]
                        /\ i = Len(b.files) => a.files[i].message_count = b.files[i].message_count + Len(x)
      OBVIOUS
    <2>1. b.files[i].message_count \in Nat
      BY DEF Detailed
    <2>2. i = Len(b.files) => c.files[i].message_count = b.files[i].message_count + Len(x)
      BY DEF Grown
    <2>3. i = Len(b.files) => a.files[i].message_count = c.files[i].message_count + 0
      BY <1>2, <1>3 DEF Grown
    <2>4. i = Len(b.files) => a.files[i].message_count = b.files[i].message_count + Len(x)
      BY <1>4, <2>1, <2>2, <2>3
    <2> QED
      BY <1>2, <2>4 DEF Grown
  <1>6. \A i \in 1 .. Len(b.files) :
          /\ i # Len(b.files) => a.per_file[i] = b.per_file[i]
          /\ i = Len(b.files) => a.per_file[i] = [t \in Topics |-> b.per_file[i][t] + Count(x, t)]
    <2> SUFFICES ASSUME NEW i \in 1 .. Len(b.files)
                 PROVE  /\ i # Len(b.files) => a.per_file[i] = b.per_file[i]
                        /\ i = Len(b.files) => a.per_file[i] = [t \in Topics |-> b.per_file[i][t] + Count(x, t)]
      OBVIOUS
    <2>1. b.per_file[i] \in [Topics -> Nat]
      BY DEF Detailed
    <2>2. CASE i = Len(b.files)
      <3>1. c.per_file[i] = [t \in Topics |-> b.per_file[i][t] + Count(x, t)]
        BY <2>2 DEF Grown
      <3>2. a.per_file[i] = [t \in Topics |-> c.per_file[i][t] + Count(<<>>, t)]
        BY <1>2, <2>2 DEF Grown
      <3>3. \A t \in Topics : c.per_file[i][t] \in Nat /\ c.per_file[i][t] = b.per_file[i][t] + Count(x, t)
        BY <1>3, <2>1, <3>1
      <3>4. \A t \in Topics : c.per_file[i][t] + Count(<<>>, t) = b.per_file[i][t] + Count(x, t)
        BY <1>3, <3>3
      <3> QED
        BY <2>2, <3>2, <3>4
    <2>3. CASE i # Len(b.files)
      BY <1>2, <2>3 DEF Grown
    <2> QED
      BY <2>2, <2>3
  <1>7. \A t \in DOMAIN b.topics : a.topics[t] = b.topics[t] + Count(x, t)
    <2> SUFFICES ASSUME NEW t \in DOMAIN b.topics PROVE a.topics[t] = b.topics[t] + Count(x, t)
      OBVIOUS
    <2>1. b.topics[t] \in Nat
      BY DEF Detailed
    <2>2. c.topics[t] = b.topics[t] + Count(x, t) /\ a.topics[t] = c.topics[t] + Count(<<>>, t)
      BY DEF Grown
    <2> QED
      BY <1>3, <2>1, <2>2
  <1>8. /\ IsSequence(a.per_file) /\ Len(a.per_file) = Len(b.per_file)
        /\ DOMAIN a.topics = DOMAIN b.topics /\ Tabled(a)
    BY DEF Grown
  <1>9. \A k \in DOMAIN b.disk : DOMAIN a.disk[k] = DOMAIN b.disk[k] /\ a.disk[k].formats = b.disk[k].formats
    BY <1>2 DEF Grown
  <1> QED
    BY <1>1, <1>5, <1>6, <1>7, <1>8, <1>9 DEF Grown

(* storage_->write_messages() counts what it writes. *)
LEMMA AddToFileGrows ==
  ASSUME NEW b, NEW x, Listed(b), Detailed(b), IsSequence(x), x = <<>> \/ b.storage # NoFile,
         OnTopics(x, DOMAIN b.topics)
  PROVE  LET a == AddToFile(b, x) IN
         /\ Grown(b, a, x)
         /\ \A i \in 1 .. Len(b.files) : a.files[i].starting_time = b.files[i].starting_time
  <1> DEFINE a == AddToFile(b, x)
             n == Len(b.files)
  <1>1. CASE x = <<>>
    <2>1. a = b
      BY <1>1, NothingAdded
    <2>2. Grown(b, b, <<>>)
      BY RefiledNot, GrownNot
    <2> QED
      BY <1>1, <2>1, <2>2
  <1>2. CASE x # <<>>
    <2>1. b.storage \in DOMAIN b.disk /\ n \in 1 .. n /\ DOMAIN b = Fields /\ IsSequence(b.files)
      BY <1>2, StorageIsLast DEF Listed
    <2>2. Refiled(b, a, x)
      BY AddToFileRefiles
    <2> DEFINE AddTo(counts) == [t \in DOMAIN counts |->
                            counts[t] + IF t \in DOMAIN b.topics THEN Count(x, t) ELSE 0]
               g == [b.files[n] EXCEPT !.message_count = @ + Len(x)]
    <2> DEFINE c == Put(b, x)
    <2>21. /\ DOMAIN c = Fields /\ c.per_file = b.per_file /\ c.topics = b.topics
           /\ c.disk = [b.disk EXCEPT ![b.storage].messages = @ \o x]
           /\ c.files = [b.files EXCEPT ![n] = g]
      BY <1>2, <2>1 DEF Put, Fields
    <2>22. Len(c.files) = n
      BY PutRefiles DEF Refiled
    <2>23. a = CountIn(c, x)
      BY DEF AddToFile
    <2> HIDE DEF c, g
    <2>24. a.per_file = [c.per_file EXCEPT ![n] = AddTo(@)] /\ a.topics = AddTo(c.topics)
      BY <1>2, <2>21, <2>22, <2>23 DEF CountIn, Fields
    <2>3. /\ a.disk = [b.disk EXCEPT ![b.storage].messages = @ \o x]
          /\ a.per_file = [b.per_file EXCEPT ![n] = AddTo(@)]
          /\ a.topics = AddTo(b.topics)
      BY <2>21, <2>23, <2>24, CountInSame
    <2>4. a.files = [b.files EXCEPT ![n] = g]
      BY <2>21, <2>23, CountInSame
    <2>5. DOMAIN b.files[n] = FileFields
      BY <2>1 DEF Detailed
    <2>6. DOMAIN g = FileFields /\ g.message_count = b.files[n].message_count + Len(x)
          /\ g.starting_time = b.files[n].starting_time
      BY <2>5 DEF FileFields, g
    <2> HIDE DEF a, AddTo
    <2>7. \A i \in 1 .. n : a.files[i] = IF i = n THEN g ELSE b.files[i]
      <3> DEFINE r == [b.files EXCEPT ![n] = g]
      <3>1. \A i \in 1 .. Len(b.files) : r[i] = IF i = n THEN g ELSE b.files[i]
        BY <2>1, OneChanged
      <3> QED
        BY <2>4, <3>1
    <2>8. /\ IsSequence(a.per_file) /\ Len(a.per_file) = n
          /\ \A i \in 1 .. n : a.per_file[i] = IF i = n THEN AddTo(b.per_file[n]) ELSE b.per_file[i]
      <3>1. IsSequence(b.per_file) /\ Len(b.per_file) = n
        BY DEF Detailed
      <3> DEFINE e == AddTo(b.per_file[n])
                 r == [b.per_file EXCEPT ![n] = e]
      <3>2. a.per_file = r
        BY <2>3
      <3> HIDE DEF e
      <3>21. n \in 1 .. Len(b.per_file)
        BY <2>1, <3>1
      <3>22. /\ IsSequence(r) /\ Len(r) = Len(b.per_file)
             /\ \A i \in 1 .. Len(b.per_file) : r[i] = IF i = n THEN e ELSE b.per_file[i]
        BY <3>1, <3>21, OneChanged
      <3> HIDE DEF r
      <3>3. /\ IsSequence(r) /\ Len(r) = n
            /\ \A i \in 1 .. n : r[i] = IF i = n THEN e ELSE b.per_file[i]
        BY <3>1, <3>22
      <3> HIDE DEF r
      <3> QED
        BY <3>2, <3>3 DEF e
    <2>9. \A t \in Topics : t \notin DOMAIN b.topics => Count(x, t) = 0
      BY CountOthers
    <2>10. b.per_file[n] \in [Topics -> Nat]
      BY <2>1 DEF Detailed
    <2>11. AddTo(b.per_file[n]) = [t \in Topics |-> b.per_file[n][t] + Count(x, t)]
      BY <2>9, <2>10 DEF AddTo
    <2>12. DOMAIN a.topics = DOMAIN b.topics /\ \A t \in DOMAIN b.topics : a.topics[t] = b.topics[t] + Count(x, t)
      BY <2>3 DEF AddTo
    <2>13. \A i \in 1 .. n :
          /\ DOMAIN a.files[i] = FileFields
          /\ i # n => a.files[i] = b.files[i]
          /\ i = n => a.files[i].message_count = b.files[i].message_count + Len(x)
          /\ a.files[i].starting_time = b.files[i].starting_time
      BY <2>6, <2>7 DEF Detailed
    <2>14. \A k \in DOMAIN b.disk : DOMAIN a.disk[k] = DOMAIN b.disk[k] /\ a.disk[k].formats = b.disk[k].formats
      <3> SUFFICES ASSUME NEW k \in DOMAIN b.disk
                   PROVE  DOMAIN a.disk[k] = DOMAIN b.disk[k] /\ a.disk[k].formats = b.disk[k].formats
        OBVIOUS
      <3>1. DOMAIN b.disk[k] = {"formats", "messages"}
        BY DEF Detailed
      <3>2. a.disk[k] = b.disk[k] \/ a.disk[k] = [b.disk[k] EXCEPT !.messages = @ \o x]
        BY <2>3
      <3> QED
        BY <3>1, <3>2
    <2>15. Len(b.per_file) = n
      BY DEF Detailed
    <2>16. Tabled(a)
      BY <2>3 DEF AddTo, Tabled
    <2> QED
      BY <2>2, <2>8, <2>11, <2>12, <2>13, <2>14, <2>15, <2>16 DEF Grown, a
  <1> QED
    BY <1>1, <1>2

(* write() changes dates only. *)
LEMMA SpanGrows ==
  ASSUME NEW b, NEW stamp, Listed(b), Detailed(b), Len(b.files) > 0
  PROVE  LET a == Span(b, stamp) IN
         /\ Grown(b, a, <<>>)
         /\ a.files[Len(b.files)].starting_time = Least(b.files[Len(b.files)].starting_time, stamp)
  <1> DEFINE a == Span(b, stamp)
             n == Len(b.files)
             f == b.files[n]
             first == Least(f.starting_time, stamp)
             g == [f EXCEPT !.starting_time = first, !.duration = Greatest(@, stamp - first)]
  <1>1. DOMAIN b = Fields /\ n \in 1 .. n /\ IsSequence(b.files)
    BY SequenceFacts DEF Listed
  <1>2. a.per_file = b.per_file /\ a.topics = b.topics /\ a.disk = b.disk
    BY <1>1 DEF Span, Fields
  <1>3. a.files = [b.files EXCEPT ![n].starting_time = first, ![n].duration = Greatest(@, stamp - first)]
    BY <1>1 DEF Span, Fields
  <1>4. n \in DOMAIN b.files
    BY <1>1, SequenceFacts
  <1>5. a.files = [b.files EXCEPT ![n] = g]
    BY <1>3, <1>4
  <1>6. DOMAIN b.files[n] = FileFields
    BY <1>1 DEF Detailed
  <1>7. DOMAIN g = FileFields /\ g.message_count = b.files[n].message_count /\ g.starting_time = first
    BY <1>6 DEF FileFields
  <1>8. Refiled(b, a, <<>>)
    BY SpanRedates
  <1> HIDE DEF g, a
  <1>9. Grown(b, a, <<>>)
    BY <1>2, <1>5, <1>7, <1>8, GrownNot
  <1>10. a.files[n] = g
    BY <1>4, <1>5
  <1> QED
    BY <1>7, <1>9, <1>10 DEF a

(* So does the split by write(), which moves the start of the new file. *)
LEMMA RestartGrows ==
  ASSUME NEW b, NEW stamp, Listed(b), Detailed(b), Len(b.files) > 0
  PROVE  LET a == [b EXCEPT !.files[Len(b.files)].starting_time = stamp] IN
         /\ Grown(b, a, <<>>)
         /\ a.files[Len(b.files)].starting_time = stamp
  <1> DEFINE a == [b EXCEPT !.files[Len(b.files)].starting_time = stamp]
             n == Len(b.files)
             g == [b.files[n] EXCEPT !.starting_time = stamp]
  <1>1. DOMAIN b = Fields /\ n \in 1 .. n /\ IsSequence(b.files)
    BY SequenceFacts DEF Listed
  <1>2. /\ a.per_file = b.per_file /\ a.topics = b.topics /\ a.disk = b.disk
        /\ DOMAIN a = Fields /\ a.storage = b.storage /\ a.next_file_index = b.next_file_index
    BY <1>1 DEF Fields
  <1>3. a.files = [b.files EXCEPT ![n] = g]
    BY <1>1 DEF Fields
  <1>4. n \in DOMAIN b.files
    BY <1>1, SequenceFacts
  <1>6. DOMAIN b.files[n] = FileFields
    BY <1>1 DEF Detailed
  <1>7. DOMAIN g = FileFields /\ g.message_count = b.files[n].message_count /\ g.starting_time = stamp
        /\ g.index = b.files[n].index /\ "index" \in DOMAIN g
    BY <1>6 DEF FileFields
  <1> HIDE DEF g, a
  <1>8. Refiled(b, a, <<>>)
    BY <1>2, <1>3, <1>7, Redated
  <1>9. Grown(b, a, <<>>)
    BY <1>2, <1>3, <1>7, <1>8, GrownNot
  <1>10. a.files[n] = g
    BY <1>3, <1>4
  <1> QED
    BY <1>7, <1>9, <1>10 DEF a

(* What has grown is listed and counted. *)
LEMMA GrownCounts ==
  ASSUME NEW b, NEW a, NEW x, Listed(b), Detailed(b), IsSequence(x), x = <<>> \/ b.storage # NoFile,
         Grown(b, a, x)
  PROVE  /\ Listed(a) /\ Detailed(a)
         /\ \A u, M : Counted(b, u, M) => Counted(a, u, M)
  <1> DEFINE n == Len(b.files)
  <1>1. Refiled(b, a, x) /\ Listed(a)
    BY RefiledIsListed DEF Grown
  <1>2. /\ Len(a.files) = n /\ n \in Nat /\ DOMAIN a.disk = DOMAIN b.disk /\ a.storage = b.storage
        /\ \A i \in 1 .. n : a.files[i].index = b.files[i].index /\ b.files[i].index \in DOMAIN b.disk
    BY <1>1, SequenceFacts DEF Refiled, Listed
  <1>3. Len(x) \in Nat /\ \A t : Count(x, t) \in Nat
    BY SequenceFacts, CountFacts
  <1>4. \A i \in 1 .. n : /\ a.files[i].message_count = b.files[i].message_count + (IF i = n THEN Len(x) ELSE 0)
                          /\ a.files[i].message_count \in Nat
    <2> SUFFICES ASSUME NEW i \in 1 .. n
                 PROVE  /\ a.files[i].message_count = b.files[i].message_count + (IF i = n THEN Len(x) ELSE 0)
                        /\ a.files[i].message_count \in Nat
      OBVIOUS
    <2>1. b.files[i].message_count \in Nat
      BY DEF Detailed
    <2>2. /\ i # n => a.files[i].message_count = b.files[i].message_count
          /\ i = n => a.files[i].message_count = b.files[i].message_count + Len(x)
      BY DEF Grown
    <2> QED
      BY <1>3, <2>1, <2>2
  <1>5. \A i \in 1 .. n : /\ a.per_file[i] \in [Topics -> Nat]
                          /\ \A t \in Topics : a.per_file[i][t] = b.per_file[i][t] + (IF i = n THEN Count(x, t) ELSE 0)
    <2> SUFFICES ASSUME NEW i \in 1 .. n
                 PROVE  /\ a.per_file[i] \in [Topics -> Nat]
                        /\ \A t \in Topics : a.per_file[i][t] = b.per_file[i][t] + (IF i = n THEN Count(x, t) ELSE 0)
      OBVIOUS
    <2>1. b.per_file[i] \in [Topics -> Nat]
      BY DEF Detailed
    <2>2. CASE i = n
      <3>1. a.per_file[i] = [t \in Topics |-> b.per_file[i][t] + Count(x, t)]
        BY <2>2 DEF Grown
      <3> QED
        BY <1>3, <2>1, <2>2, <3>1
    <2>3. CASE i # n
      <3>1. a.per_file[i] = b.per_file[i]
        BY <2>3 DEF Grown
      <3>2. \A t \in Topics : b.per_file[i][t] \in Nat
        BY <2>1
      <3> QED
        BY <2>1, <2>3, <3>1, <3>2
    <2> QED
      BY <2>2, <2>3
  <1>6. \A t \in DOMAIN b.topics : a.topics[t] \in Nat
    BY <1>3 DEF Grown, Detailed
  <1>7. a.storage # NoFile => DOMAIN a.disk[a.storage].formats = DOMAIN a.topics
    <2> SUFFICES ASSUME a.storage # NoFile PROVE DOMAIN a.disk[a.storage].formats = DOMAIN a.topics
      OBVIOUS
    <2>1. b.storage # NoFile /\ b.storage \in DOMAIN b.disk
      BY <1>2, StorageIsLast
    <2> QED
      BY <1>2, <2>1 DEF Grown, Detailed
  <1>8. Detailed(a)
    <2>1. \A k \in DOMAIN a.disk : DOMAIN a.disk[k] = {"formats", "messages"}
      BY <1>2 DEF Grown, Detailed
    <2>2. /\ IsSequence(a.per_file) /\ Len(a.per_file) = n
          /\ DOMAIN a.topics = DOMAIN b.topics /\ Tabled(a)
      BY DEF Grown, Detailed
    <2>3. \A i \in 1 .. n : DOMAIN a.files[i] = FileFields
      BY DEF Grown
    <2>4. DOMAIN b.topics \subseteq Topics /\ IsFiniteSet(DOMAIN b.topics)
      BY DEF Detailed
    <2> QED
      BY <1>2, <1>4, <1>5, <1>6, <1>7, <2>1, <2>2, <2>3, <2>4 DEF Detailed
  <1>9. ASSUME NEW u, NEW M, Counted(b, u, M), NEW i \in 1 .. n
        PROVE  LET messages == a.disk[a.files[i].index].messages
                   rest == IF i = n THEN u ELSE <<>>
               IN  /\ a.files[i].message_count = Len(messages)
                   /\ \A t \in Topics \ M : a.per_file[i][t] + Count(rest, t) = Count(messages, t)
    <2> DEFINE k == b.files[i].index
               s == b.disk[k].messages
               rest == IF i = n THEN u ELSE <<>>
    <2>1. k \in DOMAIN b.disk /\ a.files[i].index = k /\ IsSequence(s)
      BY <1>2 DEF Listed
    <2>2. b.files[i].message_count = Len(s) /\ \A t \in Topics \ M : b.per_file[i][t] + Count(rest, t) = Count(s, t)
      BY <1>9 DEF Counted
    <2>21. IsSequence(rest)
      BY <1>9, EmptySequence DEF Counted
    <2> HIDE DEF rest
    <2>22. \A t \in Topics : b.per_file[i][t] \in Nat /\ Count(rest, t) \in Nat
      BY <2>21, CountFacts DEF Detailed
    <2>3. Len(s) \in Nat /\ \A t : Count(s, t) \in Nat
      BY <2>1, SequenceFacts, CountFacts
    <2>4. CASE k = b.storage
      <3>1. i = n
        <4>1. k \in Nat /\ n \in 1 .. n
          BY <1>2, <2>1 DEF Listed
        <4>2. b.storage = b.files[n].index
          BY <2>4, <4>1 DEF Listed, NoFile
        <4>3. ~(i < n)
          <5>1. i < n => k < b.files[n].index
            BY <4>1 DEF Listed
          <5> QED
            BY <2>4, <4>1, <4>2, <5>1
        <4> QED
          BY <1>2, <4>3
      <3>2. a.disk[k].messages = s \o x
        BY <1>1, <2>1, <2>4 DEF Refiled
      <3>3. Len(s \o x) = Len(s) + Len(x) /\ \A t : Count(s \o x, t) = Count(s, t) + Count(x, t)
        BY <2>1, ConcatFacts, CountConcat
      <3>4. a.disk[a.files[i].index].messages = s \o x
        BY <2>1, <3>2, Zenon
      <3>5. a.files[i].message_count = Len(s) + Len(x)
        BY <1>4, <2>2, <3>1
      <3>6. ASSUME NEW t \in Topics \ M PROVE a.per_file[i][t] + Count(rest, t) = Count(s, t) + Count(x, t)
        <4>1. a.per_file[i][t] = b.per_file[i][t] + Count(x, t)
          BY <1>5, <3>1
        <4>2. Count(x, t) \in Nat /\ b.per_file[i][t] \in Nat /\ Count(rest, t) \in Nat
          BY <1>3, <2>22
        <4> QED
          BY <2>2, <4>1, <4>2
      <3> QED
        BY <3>3, <3>4, <3>5, <3>6, Zenon DEF rest
    <2>5. CASE k # b.storage
      <3>1. a.disk[k].messages = s
        BY <1>1, <2>1, <2>5 DEF Refiled
      <3>2. i = n => x = <<>>
        BY <2>5 DEF Listed
      <3>3. x = <<>> => Len(x) = 0 /\ \A t : Count(x, t) = 0
        BY CountFacts, EmptySequence
      <3>4. \A t \in Topics : a.per_file[i][t] = b.per_file[i][t] + 0
        BY <1>5, <3>2, <3>3
      <3>5. a.files[i].message_count = b.files[i].message_count + 0
        BY <1>4, <3>2, <3>3
      <3> QED
        <4>1. \A z \in Nat : z + 0 = z
          OBVIOUS
        <4>2. a.files[i].message_count = Len(s)
          BY <2>2, <2>3, <3>5, <4>1, Zenon
        <4>3. \A t \in Topics : a.per_file[i][t] = b.per_file[i][t]
          BY <2>22, <3>4, <4>1, Zenon
        <4>4. \A t \in Topics \ M : a.per_file[i][t] + Count(rest, t) = Count(s, t)
          BY <2>2, <4>3
        <4> QED
          BY <2>1, <3>1, <4>2, <4>4, Zenon DEF rest
    <2> QED
      BY <2>4, <2>5
  <1>10. ASSUME NEW u, NEW M, Counted(b, u, M) PROVE Counted(a, u, M)
    <2>1. IsSequence(u)
      BY <1>10 DEF Counted
    <2>2. \A i \in 1 .. n :
            LET messages == a.disk[a.files[i].index].messages
                rest == IF i = n THEN u ELSE <<>>
            IN  /\ a.files[i].message_count = Len(messages)
                /\ \A t \in Topics \ M : a.per_file[i][t] + Count(rest, t) = Count(messages, t)
      BY <1>9, <1>10
    <2> QED
      BY <1>2, <2>1, <2>2 DEF Counted
  <1> QED
    BY <1>1, <1>8, <1>10

(* write_transient_local_messages() counts what it writes. *)
LEMMA PrependGrows ==
  ASSUME NEW b, NEW x, Listed(b), Detailed(b), IsSequence(x), b.storage # NoFile, Heads = <<>> => x = <<>>,
         OnTopics(x, DOMAIN b.topics)
  PROVE  LET a == Prepend(b, x)
             n == Len(b.files)
         IN  /\ Grown(b, a, x)
             /\ a.files[n].starting_time \in {b.files[n].starting_time,
                                              Least(b.files[n].starting_time, last_recv)}
  <1>1. CASE Heads = <<>>
    <2>1. Prepend(b, x) = b /\ x = <<>>
      BY <1>1 DEF Prepend
    <2>2. Grown(b, b, <<>>)
      BY RefiledNot, GrownNot
    <2> QED
      BY <2>1, <2>2
  <1>2. CASE Heads # <<>>
    <2> DEFINE c == AddToFile(b, x)
               a == Prepend(b, x)
               n == Len(b.files)
               g == [c.files[n] EXCEPT !.starting_time = Least(@, last_recv)]
    <2>1. Grown(b, c, x) /\ \A i \in 1 .. n : c.files[i].starting_time = b.files[i].starting_time
      BY AddToFileGrows
    <2>11. Listed(c) /\ Detailed(c)
      BY <2>1, GrownCounts
    <2>2. a = [c EXCEPT !.starting_time = Least(@, last_recv),
                        !.files[n].starting_time = Least(@, last_recv)]
      BY <1>2 DEF Prepend
    <2>3. DOMAIN c = Fields /\ Len(c.files) = n /\ n \in 1 .. n /\ n > 0
      BY <2>1, StorageIsLast DEF Refiled, Grown
    <2>31. n \in DOMAIN c.files
      BY <2>3, <2>11, SequenceFacts DEF Listed
    <2> HIDE DEF a, c
    <2>4. /\ DOMAIN a = Fields /\ a.storage = c.storage /\ a.next_file_index = c.next_file_index
          /\ a.disk = c.disk /\ a.files = [c.files EXCEPT ![n] = g]
          /\ a.per_file = c.per_file /\ a.topics = c.topics
      BY <2>2, <2>3 DEF Fields
    <2>5. DOMAIN c.files[n] = FileFields
      BY <2>3, <2>11 DEF Detailed
    <2>6. DOMAIN g = FileFields /\ g.message_count = c.files[n].message_count
          /\ g.starting_time = Least(c.files[n].starting_time, last_recv)
          /\ "index" \in DOMAIN g /\ g.index = c.files[n].index
      BY <2>5 DEF FileFields
    <2> HIDE DEF g
    <2>7. Refiled(c, a, <<>>)
      BY <2>3, <2>4, <2>6, <2>11, Redated
    <2>8. Grown(c, a, <<>>)
      BY <2>3, <2>4, <2>6, <2>7, <2>11, GrownNot
    <2>9. Grown(b, a, x)
      BY <2>1, <2>8, GrownTwice
    <2>10. a.files[n] = g
      BY <2>4, <2>31
    <2>12. a.files[n].starting_time = Least(b.files[n].starting_time, last_recv)
      BY <2>1, <2>3, <2>6, <2>10
    <2> QED
      BY <2>9, <2>12 DEF a
  <1> QED
    BY <1>1, <1>2

(* write_messages() of a snapshot counts it, and dates the file by it. *)
LEMMA AddSnapshotGrows ==
  ASSUME NEW b, NEW x, Listed(b), Detailed(b), IsSequence(x), b.storage # NoFile,
         OnTopics(x, DOMAIN b.topics)
  PROVE  LET a == AddSnapshot(b, x)
             n == Len(b.files)
         IN  /\ Grown(b, a, x)
             /\ x # <<>> => /\ a.files[n].starting_time = Head(x).stamp
                            /\ a.files[n].duration = Last(x).stamp - Head(x).stamp
             /\ x = <<>> => a = b
  <1>1. CASE x = <<>>
    <2>1. AddSnapshot(b, x) = b
      BY <1>1 DEF AddSnapshot
    <2>2. Grown(b, b, <<>>)
      BY RefiledNot, GrownNot
    <2> QED
      BY <1>1, <2>1, <2>2
  <1>2. CASE x # <<>>
    <2> DEFINE c == AddToFile(b, x)
               a == AddSnapshot(b, x)
               n == Len(b.files)
               g == [c.files[n] EXCEPT !.starting_time = Head(x).stamp,
                                       !.duration = Last(x).stamp - Head(x).stamp]
    <2>1. Grown(b, c, x)
      BY AddToFileGrows
    <2>11. Listed(c) /\ Detailed(c)
      BY <2>1, GrownCounts
    <2>2. a = [c EXCEPT !.files[n].starting_time = Head(x).stamp,
                        !.files[n].duration = Last(x).stamp - Head(x).stamp]
      BY <1>2 DEF AddSnapshot
    <2>3. DOMAIN c = Fields /\ Len(c.files) = n /\ n \in 1 .. n /\ n > 0
      BY <2>1, StorageIsLast DEF Refiled, Grown
    <2>31. n \in DOMAIN c.files
      BY <2>3, <2>11, SequenceFacts DEF Listed
    <2> HIDE DEF a, c
    <2>4. /\ DOMAIN a = Fields /\ a.storage = c.storage /\ a.next_file_index = c.next_file_index
          /\ a.disk = c.disk /\ a.per_file = c.per_file /\ a.topics = c.topics
      BY <2>2, <2>3 DEF Fields
    <2>41. a.files = [c.files EXCEPT ![n].starting_time = Head(x).stamp,
                                     ![n].duration = Last(x).stamp - Head(x).stamp]
      BY <2>2, <2>3 DEF Fields
    <2>42. a.files = [c.files EXCEPT ![n] = g]
      BY <2>31, <2>41
    <2>5. DOMAIN c.files[n] = FileFields
      BY <2>3, <2>11 DEF Detailed
    <2>6. DOMAIN g = FileFields /\ g.message_count = c.files[n].message_count
          /\ g.starting_time = Head(x).stamp /\ g.duration = Last(x).stamp - Head(x).stamp
          /\ "index" \in DOMAIN g /\ g.index = c.files[n].index
      BY <2>5 DEF FileFields
    <2> HIDE DEF g
    <2>7. Refiled(c, a, <<>>)
      BY <2>3, <2>4, <2>42, <2>6, <2>11, Redated
    <2>8. Grown(c, a, <<>>)
      BY <2>3, <2>4, <2>42, <2>6, <2>7, <2>11, GrownNot
    <2>9. Grown(b, a, x)
      BY <2>1, <2>8, GrownTwice
    <2>10. a.files[n] = g
      BY <2>31, <2>42
    <2> QED
      BY <1>2, <2>6, <2>9, <2>10 DEF a
  <1> QED
    BY <1>1, <1>2

(* What the next file leaves of the files and of the counts. *)
NextFileCounts(b, a, n) ==
    LET l == Len(b.files) IN
    /\ Detailed(a)
    /\ \A M : Counted(b, <<>>, M) => Counted(a, <<>>, M)
    /\ Len(a.files) = l + 1 - n
    /\ \A i \in 1 .. l - n : n + i \in 1 .. l /\ a.files[i] = b.files[n + i]
    /\ a.files[l + 1 - n] = NewFile(b.next_file_index)
    /\ \A k \in DOMAIN a.disk : k # b.next_file_index => k \in DOMAIN b.disk /\ a.disk[k] = b.disk[k]
    /\ DOMAIN a.topics = DOMAIN b.topics
    /\ \A t \in DOMAIN b.topics : \E older \in Nat :
          /\ a.topics[t] = (b.topics[t] - older) % CountModulus
          /\ SumOver(b.per_file, t) = older + SumOver(a.per_file, t)

(* The counts kept for the files can be added up. *)
LEMMA SumOverFields ==
  ASSUME NEW b, Detailed(b), NEW t \in Topics
  PROVE  /\ Measured(b.per_file, Len(b.files), t) /\ SumOver(b.per_file, t) \in Nat
         /\ Len(b.files) \in Nat
  <1>1. DOMAIN b.per_file = 1 .. Len(b.files) /\ Len(b.files) \in Nat
    BY SequenceFacts DEF Detailed
  <1>2. \A i \in 1 .. Len(b.files) : b.per_file[i][t] \in Nat
    BY DEF Detailed
  <1>3. SumOver(b.per_file, t) \in Nat
    BY <1>1, <1>2, SumOverNat
  <1> QED
    BY <1>1, <1>2, <1>3 DEF Measured

(* switch_to_next_storage() takes the counts of the deleted files away. *)
LEMMA NextFileCountsIt ==
  ASSUME NEW b, Listed(b), Detailed(b), NEW n \in 0 .. Len(b.files)
  PROVE  NextFileCounts(b, NextFile(b, n), n)
  <1> DEFINE k == b.next_file_index
             l == Len(b.files)
             dropped == {b.files[i].index : i \in 1 .. n}
             fresh == [formats |-> [t \in DOMAIN b.topics |-> FALSE], messages |-> <<>>]
             c == [b EXCEPT !.storage = k,
                            !.next_file_index = k + 1,
                            !.disk = [i \in DOMAIN @ \cup {k} |-> IF i = k THEN fresh ELSE @[i]],
                            !.files = Append(@, NewFile(k)),
                            !.per_file = Append(@, NoCounts)]
             a == NextFile(b, n)
             old == SubSeq(Append(b.per_file, NoCounts), 1, n)
  <1>1. /\ DOMAIN b = Fields /\ k \in Nat /\ IsSequence(b.files) /\ l \in Nat
        /\ IsSequence(b.per_file) /\ Len(b.per_file) = l
        /\ n \in Nat /\ n <= l
    BY SequenceFacts DEF Listed, Detailed
  <1>2. /\ DOMAIN c = Fields /\ c.storage = k
        /\ c.files = Append(b.files, NewFile(k)) /\ c.per_file = Append(b.per_file, NoCounts)
        /\ c.topics = b.topics
        /\ c.disk = [i \in DOMAIN b.disk \cup {k} |-> IF i = k THEN fresh ELSE b.disk[i]]
    BY <1>1 DEF Fields
  <1>3. a = DropOldest(c, n)
    BY DEF NextFile
  <1>4. DOMAIN fresh.formats = DOMAIN b.topics /\ DOMAIN fresh = {"formats", "messages"} /\ fresh.messages = <<>>
    OBVIOUS
  <1>5. NextFileIs(b, a, n)
    BY NextFileLists
  <1> HIDE DEF fresh, c
  <1>6. /\ a.storage = k
        /\ a.files = SubSeq(c.files, n + 1, Len(c.files))
        /\ a.per_file = SubSeq(c.per_file, n + 1, Len(c.per_file))
        /\ a.disk = [j \in DOMAIN c.disk \ {c.files[i].index : i \in 1 .. n} |-> c.disk[j]]
        /\ a.topics = [t \in DOMAIN b.topics |-> (b.topics[t] - SumOver(old, t)) % CountModulus]
    <2>1. \A t : FoldLeft(LAMBDA sum, counts : sum + counts[t], 0, SubSeq(c.per_file, 1, n)) = SumOver(old, t)
      BY <1>2 DEF SumOver
    <2>2. a.topics = [t \in DOMAIN c.topics |->
                       (c.topics[t] - FoldLeft(LAMBDA sum, counts : sum + counts[t], 0, SubSeq(c.per_file, 1, n)))
                       % CountModulus]
      BY <1>2, <1>3 DEF DropOldest, Fields
    <2> HIDE DEF old
    <2>3. a.topics = [t \in DOMAIN b.topics |-> (b.topics[t] - SumOver(old, t)) % CountModulus]
      BY <1>2, <2>1, <2>2
    <2>4. /\ a.storage = k
          /\ a.files = SubSeq(c.files, n + 1, Len(c.files))
          /\ a.per_file = SubSeq(c.per_file, n + 1, Len(c.per_file))
      BY <1>2, <1>3 DEF DropOldest, Fields
    <2>5. a.disk = [j \in DOMAIN c.disk \ {c.files[i].index : i \in 1 .. n} |-> c.disk[j]]
      BY <1>2, <1>3 DEF DropOldest, Fields
    <2> QED
      BY <2>3, <2>4, <2>5
  <1> HIDE DEF a
  <1>7. /\ IsSequence(c.files) /\ Len(c.files) = l + 1
        /\ \A i \in 1 .. l : c.files[i] = b.files[i]
        /\ c.files[l + 1] = NewFile(k)
    BY <1>1, <1>2, AppendFacts
  <1>8. /\ IsSequence(c.per_file) /\ Len(c.per_file) = l + 1
        /\ \A i \in 1 .. l : c.per_file[i] = b.per_file[i]
        /\ c.per_file[l + 1] = NoCounts
    BY <1>1, <1>2, AppendFacts
  <1>9. n + 1 \in 1 .. (l + 1) + 1 /\ (l + 1) - (n + 1) + 1 = l + 1 - n
    BY <1>1
  <1>10. /\ IsSequence(a.files) /\ Len(a.files) = l + 1 - n
         /\ \A i \in 1 .. l + 1 - n : (n + 1) + i - 1 \in 1 .. l + 1 /\ a.files[i] = c.files[(n + 1) + i - 1]
    BY <1>6, <1>7, <1>9, RestOf
  <1>11. /\ IsSequence(a.per_file) /\ Len(a.per_file) = l + 1 - n
         /\ \A i \in 1 .. l + 1 - n : (n + 1) + i - 1 \in 1 .. l + 1 /\ a.per_file[i] = c.per_file[(n + 1) + i - 1]
    BY <1>6, <1>8, <1>9, RestOf
  <1>12. \A i \in 1 .. l + 1 - n : (n + 1) + i - 1 = n + i
    BY <1>1
  <1>13. \A i \in 1 .. l - n : i \in 1 .. l + 1 - n /\ n + i \in 1 .. l
    BY <1>1
  <1>14. l + 1 - n \in 1 .. l + 1 - n /\ n + (l + 1 - n) = l + 1
    BY <1>1
  <1>15. /\ \A i \in 1 .. l - n : a.files[i] = b.files[n + i] /\ a.per_file[i] = b.per_file[n + i]
         /\ a.files[l + 1 - n] = NewFile(k)
         /\ a.per_file[l + 1 - n] = NoCounts
    <2>1. ASSUME NEW i \in 1 .. l - n
          PROVE  a.files[i] = b.files[n + i] /\ a.per_file[i] = b.per_file[n + i]
      <3>1. a.files[i] = c.files[n + i] /\ a.per_file[i] = c.per_file[n + i]
        BY <1>10, <1>11, <1>12, <1>13
      <3> QED
        BY <1>7, <1>8, <1>13, <3>1
    <2>2. a.files[l + 1 - n] = c.files[l + 1] /\ a.per_file[l + 1 - n] = c.per_file[l + 1]
      BY <1>10, <1>11, <1>12, <1>14
    <2> QED
      BY <1>7, <1>8, <2>1, <2>2
  <1>16. \A i \in 1 .. l + 1 - n : i \in 1 .. l - n \/ i = l + 1 - n
    BY <1>1
  <1>17. DOMAIN NewFile(k) = FileFields /\ NewFile(k).message_count = 0 /\ NewFile(k).index = k
    BY DEF NewFile, FileFields
  <1>18. NoCounts \in [Topics -> Nat] /\ \A t \in Topics : NoCounts[t] = 0
    BY DEF NoCounts
  <1>19. DOMAIN c.disk = DOMAIN b.disk \cup {k} /\ c.disk[k] = fresh
         /\ \A j \in DOMAIN b.disk : j # k => c.disk[j] = b.disk[j]
    BY <1>2
  <1>20. DOMAIN a.disk \subseteq DOMAIN b.disk \cup {k} /\ k \in DOMAIN a.disk
         /\ \A j \in DOMAIN a.disk : a.disk[j] = c.disk[j]
    BY <1>5, <1>6, <1>19 DEF NextFileIs
  <1>21. \A j \in DOMAIN a.disk : j # k => j \in DOMAIN b.disk /\ a.disk[j] = b.disk[j]
    BY <1>19, <1>20
  <1>22. \A t \in Topics : SumOver(old, t) \in Nat /\ SumOver(b.per_file, t) = SumOver(old, t) + SumOver(a.per_file, t)
    <2> SUFFICES ASSUME NEW t \in Topics
                 PROVE  SumOver(old, t) \in Nat /\ SumOver(b.per_file, t) = SumOver(old, t) + SumOver(a.per_file, t)
      OBVIOUS
    <2>1. Measured(b.per_file, l, t) /\ SumOver(b.per_file, t) \in Nat /\ \A i \in 1 .. l : b.per_file[i][t] \in Nat
      BY SumOverFields DEF Detailed
    <2>2. Measured(c.per_file, l + 1, t) /\ \A i \in 1 .. l + 1 : c.per_file[i][t] \in Nat
      <3>1. DOMAIN c.per_file = 1 .. l + 1
        BY <1>8, SequenceFacts
      <3>2. \A i \in 1 .. l + 1 : c.per_file[i][t] \in Nat
        <4> SUFFICES ASSUME NEW i \in 1 .. l + 1 PROVE c.per_file[i][t] \in Nat
          OBVIOUS
        <4>1. i \in 1 .. l \/ i = l + 1
          BY <1>1
        <4> QED
          BY <1>8, <1>18, <2>1, <4>1
      <3> QED
        BY <3>1, <3>2 DEF Measured
    <2>3. SumOver(c.per_file, t) = SumOver(b.per_file, t) + c.per_file[l + 1][t]
      <3>1. OneMore(b.per_file, l, c.per_file)
        BY <1>8 DEF OneMore
      <3> QED
        BY <1>1, <2>1, <2>2, <3>1, SumOverAppend
    <2>4. SumOver(c.per_file, t) = SumOver(b.per_file, t)
      BY <1>8, <1>18, <2>1, <2>3
    <2>5. DOMAIN old = 1 .. n /\ \A i \in 1 .. n : i \in 1 .. l + 1 /\ old[i] = c.per_file[i]
      <3> DEFINE r == SubSeq(c.per_file, 1, n)
      <3>1. old = r
        BY <1>2
      <3>2. \A i \in 1 .. n : i \in 1 .. l + 1 /\ c.per_file[i] \in Range(c.per_file)
        BY <1>1, <1>8, SequenceFacts
      <3>3. r \in Seq(Range(c.per_file)) /\ Len(r) = n
            /\ \A i \in 1 .. n - 1 + 1 : r[i] = c.per_file[1 + i - 1]
        <4>1. 1 \in Int /\ n \in Int /\ (IF 1 <= n THEN n - 1 + 1 ELSE 0) = n
          BY <1>1
        <4>2. \A i \in 1 .. n : c.per_file[i] \in Range(c.per_file)
          BY <3>2
        <4> QED
          BY <4>1, <4>2, SubSeqProperties
      <3>4. \A i \in 1 .. n : i \in 1 .. n - 1 + 1 /\ 1 + i - 1 = i
        BY <1>1
      <3>5. DOMAIN r = 1 .. n
        BY <3>3
      <3> HIDE DEF r, old
      <3> QED
        BY <3>1, <3>2, <3>3, <3>4, <3>5
    <2> HIDE DEF old
    <2>6. Measured(old, n, t) /\ SumOver(old, t) \in Nat
      <3>1. \A i \in 1 .. n : old[i][t] \in Nat
        BY <2>2, <2>5
      <3>2. SumOver(old, t) \in Nat
        BY <1>1, <2>5, <3>1, SumOverNat
      <3> QED
        BY <2>5, <3>1, <3>2 DEF Measured
    <2>7. Measured(a.per_file, l + 1 - n, t)
      <3>1. DOMAIN a.per_file = 1 .. l + 1 - n
        BY <1>11, SequenceFacts
      <3>2. \A i \in 1 .. l + 1 - n : a.per_file[i][t] \in Int
        <4>1. \A i \in 1 .. l + 1 - n : n + i \in 1 .. l + 1 /\ a.per_file[i] = c.per_file[n + i]
          BY <1>11, <1>12
        <4> QED
          BY <2>2, <4>1
      <3> QED
        BY <3>1, <3>2 DEF Measured
    <2>8. Joined(old, n, a.per_file, l + 1 - n, c.per_file)
      BY <1>11, <1>12, <2>5 DEF Joined
    <2>9. n + (l + 1 - n) = l + 1 /\ l + 1 - n \in Nat
      BY <1>1
    <2>10. MeasuredParts(old, n, a.per_file, l + 1 - n, c.per_file, t)
      BY <1>1, <2>2, <2>6, <2>7, <2>8, <2>9 DEF MeasuredParts
    <2>11. SumOver(c.per_file, t) = SumOver(old, t) + SumOver(a.per_file, t)
      BY <2>10, SumOverConcat
    <2> QED
      BY <2>4, <2>6, <2>11
  <1>23. DOMAIN b.topics \subseteq Topics /\ IsFiniteSet(DOMAIN b.topics) /\ \A t \in DOMAIN b.topics : b.topics[t] \in Nat
    BY DEF Detailed
  <1> HIDE DEF old
  <1>24. DOMAIN a.topics = DOMAIN b.topics
         /\ \A t \in DOMAIN b.topics : a.topics[t] = (b.topics[t] - SumOver(old, t)) % CountModulus
    BY <1>6
  <1>25. \A t \in DOMAIN b.topics : a.topics[t] \in Nat
    <2> SUFFICES ASSUME NEW t \in DOMAIN b.topics PROVE a.topics[t] \in Nat
      OBVIOUS
    <2>1. b.topics[t] - SumOver(old, t) \in Int
      BY <1>22, <1>23
    <2>2. CountModulus \in Nat \ {0}
      BY WriterAssumption
    <2> QED
      BY <1>24, <2>1, <2>2
  <1>26. \A i \in 1 .. l + 1 - n : /\ DOMAIN a.files[i] = FileFields /\ a.files[i].message_count \in Nat
                                   /\ a.per_file[i] \in [Topics -> Nat]
    <2>1. ASSUME NEW i \in 1 .. l - n
          PROVE  /\ DOMAIN a.files[i] = FileFields /\ a.files[i].message_count \in Nat
                 /\ a.per_file[i] \in [Topics -> Nat]
      BY <1>13, <1>15 DEF Detailed
    <2>2. /\ DOMAIN a.files[l + 1 - n] = FileFields /\ a.files[l + 1 - n].message_count \in Nat
          /\ a.per_file[l + 1 - n] \in [Topics -> Nat]
      BY <1>15, <1>17, <1>18
    <2> QED
      BY <1>16, <2>1, <2>2
  <1>27. \A j \in DOMAIN a.disk : DOMAIN a.disk[j] = {"formats", "messages"}
    BY <1>4, <1>19, <1>20, <1>21 DEF Detailed
  <1>28. DOMAIN a.disk[a.storage].formats = DOMAIN a.topics
    BY <1>4, <1>6, <1>19, <1>20, <1>24
  <1>29. Detailed(a)
    <2>1. Tabled(a)
      BY <1>6 DEF Tabled
    <2> QED
      BY <1>10, <1>11, <1>23, <1>24, <1>25, <1>26, <1>27, <1>28, <2>1 DEF Detailed
  <1>30. ASSUME NEW M, Counted(b, <<>>, M) PROVE Counted(a, <<>>, M)
    <2> SUFFICES ASSUME NEW i \in 1 .. l + 1 - n
                 PROVE  /\ a.files[i].message_count = Len(a.disk[a.files[i].index].messages)
                        /\ \A t \in Topics \ M : a.per_file[i][t] + Count(<<>>, t)
                                                 = Count(a.disk[a.files[i].index].messages, t)
      BY <1>10, EmptySequence DEF Counted
    <2>1. CASE i \in 1 .. l - n
      <3>1. a.files[i] = b.files[n + i] /\ a.per_file[i] = b.per_file[n + i] /\ n + i \in 1 .. l
        BY <1>13, <1>15, <2>1
      <3>2. a.files[i].index \in DOMAIN a.disk /\ b.files[n + i].index < k /\ b.files[n + i].index \in Nat
        BY <1>5, <1>10, <3>1 DEF NextFileIs, Listed
      <3>3. a.files[i].index # k
        BY <1>1, <3>1, <3>2
      <3>4. a.disk[a.files[i].index] = b.disk[b.files[n + i].index]
        BY <1>21, <3>1, <3>2, <3>3
      <3> QED
        BY <1>30, <3>1, <3>4 DEF Counted
    <2>2. CASE i = l + 1 - n
      <3>1. a.disk[a.files[i].index].messages = <<>> /\ a.files[i].message_count = 0 /\ a.per_file[i] = NoCounts
        BY <1>4, <1>15, <1>17, <1>19, <1>20, <2>2
      <3> QED
        BY <1>18, <3>1, CountFacts, EmptySequence
    <2> QED
      BY <1>16, <2>1, <2>2
  <1> QED
    BY <1>10, <1>13, <1>15, <1>21, <1>22, <1>23, <1>24, <1>29, <1>30 DEF NextFileCounts, a

-----------------------------------------------------------------------------
(* The latched messages, sorted. *)

Logged == {log[i].topic : i \in 1 .. Len(log)}

(* What is known of every message: it was received on a topic at a time. *)
Proper(m) == m.stamp \in Nat /\ m.topic \in Logged

(* The queue of a topic holds messages written on it, in their order. *)
Own(s, t) ==
    /\ \A i \in 1 .. Len(s) : Proper(s[i]) /\ s[i].topic = t /\ s[i].id \in 1 .. Len(log)
    /\ \A i, j \in 1 .. Len(s) : i < j => s[i].id < s[j].id

LatchInv ==
    /\ DOMAIN transient \subseteq Known
    /\ Known \subseteq Topics
    /\ \A t \in DOMAIN transient : Own(transient[t].messages, t)

All(queues) == UNION {Range(queues[t].messages) : t \in DOMAIN queues}

(* What is known of the latched messages together. *)
LEMMA AllFacts ==
  ASSUME Latches(transient), LatchInv
  PROVE  /\ IsFiniteSet(All(transient))
         /\ \A m \in All(transient) : /\ Proper(m) /\ m.topic \in DOMAIN transient /\ m.topic \in Nat
                                      /\ m.id \in Nat
         /\ \A m, n \in All(transient) : m.topic = n.topic /\ m.id = n.id => m = n
  <1>1. /\ IsFiniteSet(DOMAIN transient)
        /\ \A t \in DOMAIN transient : IsSequence(transient[t].messages)
    BY DEF Latches
  <1>2. \A t \in DOMAIN transient : IsFiniteSet(Range(transient[t].messages))
    BY <1>1, RangeIsFinite
  <1>3. IsFiniteSet(All(transient))
    <2> DEFINE parts == {Range(transient[t].messages) : t \in DOMAIN transient}
               f == [t \in DOMAIN transient |-> Range(transient[t].messages)]
    <2>1. f \in Surjection(DOMAIN transient, parts)
      BY DEF Surjection
    <2>2. IsFiniteSet(parts)
      BY <1>1, <2>1, FS_Surjection
    <2>3. \A T \in parts : IsFiniteSet(T)
      BY <1>2
    <2>4. All(transient) = UNION parts
      BY DEF All
    <2> HIDE DEF parts
    <2> QED
      BY <2>2, <2>3, <2>4, FS_UNION
  <1>4. ASSUME NEW m \in All(transient)
        PROVE  \E t \in DOMAIN transient : \E i \in 1 .. Len(transient[t].messages) : m = transient[t].messages[i]
    <2>1. PICK t \in DOMAIN transient : m \in Range(transient[t].messages)
      BY <1>4 DEF All
    <2>2. Range(transient[t].messages) = {transient[t].messages[i] : i \in 1 .. Len(transient[t].messages)}
      BY <1>1, SequenceFacts
    <2> QED
      BY <2>1, <2>2
  <1>5. \A t \in DOMAIN transient : t \in Nat
    BY WriterAssumption DEF LatchInv
  <1>6. ASSUME NEW m \in All(transient)
        PROVE  Proper(m) /\ m.topic \in DOMAIN transient /\ m.topic \in Nat /\ m.id \in Nat
    <2>1. PICK t \in DOMAIN transient : \E i \in 1 .. Len(transient[t].messages) : m = transient[t].messages[i]
      BY <1>4
    <2>2. Own(transient[t].messages, t)
      BY DEF LatchInv
    <2>3. Proper(m) /\ m.topic = t /\ m.id \in 1 .. Len(log)
      BY <2>1, <2>2 DEF Own
    <2> QED
      BY <1>5, <2>3
  <1>7. ASSUME NEW m \in All(transient), NEW n \in All(transient), m.topic = n.topic, m.id = n.id
        PROVE  m = n
    <2>1. PICK t \in DOMAIN transient : \E i \in 1 .. Len(transient[t].messages) : m = transient[t].messages[i]
      BY <1>4
    <2>2. PICK u \in DOMAIN transient : \E i \in 1 .. Len(transient[u].messages) : n = transient[u].messages[i]
      BY <1>4
    <2>3. Own(transient[t].messages, t) /\ Own(transient[u].messages, u)
      BY DEF LatchInv
    <2>4. t = u
      BY <1>7, <2>1, <2>2, <2>3 DEF Own
    <2> DEFINE s == transient[t].messages
    <2>5. PICK i \in 1 .. Len(s) : m = s[i]
      BY <2>1
    <2>6. PICK j \in 1 .. Len(s) : n = s[j]
      BY <2>2, <2>4
    <2>7. Len(s) \in Nat
      BY <1>1, SequenceFacts
    <2>8. /\ i < j => s[i].id < s[j].id
          /\ j < i => s[j].id < s[i].id
      BY <2>3 DEF Own
    <2>9. m.id \in Nat
      BY <1>6
    <2> HIDE DEF s
    <2>10. ~(i < j) /\ ~(j < i)
      BY <1>7, <2>5, <2>6, <2>8, <2>9
    <2>11. i = j
      BY <2>5, <2>6, <2>7, <2>10
    <2> QED
      BY <2>5, <2>6, <2>11
  <1> QED
    BY <1>3, <1>6, <1>7

(* The sorted messages are the latched ones, each once. *)
LEMMA SortedFacts ==
  ASSUME Latches(transient), LatchInv
  PROVE  LET sorted == SortedMessages(transient) IN
         /\ IsSequence(sorted)
         /\ Range(sorted) = All(transient)
         /\ Len(sorted) = Cardinality(All(transient))
         /\ \A i, j \in 1 .. Len(sorted) : i # j => sorted[i] # sorted[j]
  <1> DEFINE all == All(transient)
             n == Cardinality(all)
             N == 1 .. n
             Under(m) == {x \in all : Earlier(x, m)}
             rank == [m \in all |-> Cardinality(Under(m)) + 1]
             r == SortedMessages(transient)
  <1>1. /\ IsFiniteSet(all)
        /\ \A m \in all : m.stamp \in Nat /\ m.topic \in Nat /\ m.id \in Nat
        /\ \A m, x \in all : m.topic = x.topic /\ m.id = x.id => m = x
    BY AllFacts DEF Proper
  <1> HIDE DEF all
  <1>2. n \in Nat
    BY <1>1, FS_CardinalityType
  <1>3. ASSUME NEW m \in all, NEW x \in all
        PROVE  /\ Earlier(m, x) \/ Earlier(x, m) \/ m = x
               /\ ~Earlier(m, m)
               /\ Earlier(m, x) => ~Earlier(x, m)
    <2>1. /\ m.stamp \in Nat /\ m.topic \in Nat /\ m.id \in Nat
          /\ x.stamp \in Nat /\ x.topic \in Nat /\ x.id \in Nat
          /\ m.topic = x.topic /\ m.id = x.id => m = x
      BY <1>1
    <2> QED
      BY <2>1 DEF Earlier
  <1>4. ASSUME NEW m \in all, NEW x \in all, NEW y \in all, Earlier(m, x), Earlier(x, y)
        PROVE  Earlier(m, y)
    <2>1. /\ m.stamp \in Nat /\ m.topic \in Nat /\ m.id \in Nat
          /\ x.stamp \in Nat /\ x.topic \in Nat /\ x.id \in Nat
          /\ y.stamp \in Nat /\ y.topic \in Nat /\ y.id \in Nat
      BY <1>1
    <2> QED
      BY <1>4, <2>1 DEF Earlier
  <1>5. ASSUME NEW m \in all
        PROVE  /\ IsFiniteSet(Under(m)) /\ Cardinality(Under(m)) \in Nat
               /\ Cardinality(Under(m)) + 1 \in N
    <2>1. Under(m) \in SUBSET all /\ m \notin Under(m) /\ m \in all
      BY <1>3
    <2>2. IsFiniteSet(Under(m)) /\ Cardinality(Under(m)) <= n
      BY <1>1, <2>1, FS_Subset
    <2>3. Cardinality(Under(m)) \in Nat
      BY <2>2, FS_CardinalityType
    <2>4. Cardinality(Under(m)) # n
      <3> DEFINE U == Under(m)
      <3>1. U \in SUBSET all /\ U # all
        BY <2>1
      <3> HIDE DEF U
      <3>2. Cardinality(U) # Cardinality(all)
        BY <1>1, <3>1, FS_Subset
      <3> QED
        BY <3>2 DEF U
    <2> HIDE DEF Under, n
    <2> QED
      BY <1>2, <2>2, <2>3, <2>4
  <1>6. ASSUME NEW m \in all, NEW x \in all, Earlier(m, x)
        PROVE  rank[m] < rank[x]
    <2> DEFINE A == Under(m)
               B == Under(x)
    <2>1. A \in SUBSET B /\ m \in B /\ m \notin A
      <3>1. \A y \in all : Earlier(y, m) => Earlier(y, x)
        BY <1>4, <1>6
      <3> QED
        BY <1>3, <1>6, <3>1
    <2>2. IsFiniteSet(B) /\ Cardinality(B) \in Nat /\ Cardinality(A) \in Nat
      BY <1>5
    <2>3. rank[m] = Cardinality(A) + 1 /\ rank[x] = Cardinality(B) + 1
      OBVIOUS
    <2> HIDE DEF A, B, rank
    <2>4. Cardinality(A) <= Cardinality(B) /\ Cardinality(B) # Cardinality(A)
      <3>1. Cardinality(A) <= Cardinality(B) /\ (Cardinality(B) = Cardinality(A) => B = A)
        BY <2>1, <2>2, FS_Subset
      <3> QED
        BY <2>1, <3>1
    <2> QED
      BY <2>2, <2>3, <2>4
  <1>7. rank \in [all -> N] /\ \A m \in all : rank[m] \in Nat
    BY <1>5
  <1>8. rank \in Injection(all, N)
    <2>1. ASSUME NEW m \in all, NEW x \in all, rank[m] = rank[x] PROVE m = x
      <3>1. rank[m] \in Nat /\ rank[x] \in Nat /\ ~(rank[m] < rank[x]) /\ ~(rank[x] < rank[m])
        BY <1>7, <2>1
      <3> QED
        BY <1>3, <1>6, <3>1
    <2> HIDE DEF rank, N
    <2> QED
      BY <1>7, <2>1 DEF Injection, IsInjective
  <1>9. IsFiniteSet(N) /\ Cardinality(N) = n
    BY <1>2, FS_Interval
  <1>10. rank \in Surjection(all, N)
    BY <1>8, <1>9, FS_Injection
  <1>11. \A i \in N : \E m \in all : Cardinality(Under(m)) = i - 1
    <2> SUFFICES ASSUME NEW i \in N PROVE \E m \in all : Cardinality(Under(m)) = i - 1
      OBVIOUS
    <2>1. PICK m \in all : rank[m] = i
      BY <1>10 DEF Surjection
    <2>2. Cardinality(Under(m)) \in Nat /\ Cardinality(Under(m)) + 1 = i
      BY <1>5, <2>1
    <2>3. Cardinality(Under(m)) = i - 1
      BY <2>2
    <2> QED
      BY <2>3
  <1>12. \A i \in N : Place(all, i) \in all /\ Cardinality(Under(Place(all, i))) = i - 1
    BY <1>11 DEF Place
  <1>13. r = [i \in N |-> Place(all, i)]
    BY DEF SortedMessages, All, all
  <1>14. r = [i \in 1 .. n |-> r[i]]
    BY <1>13
  <1>15. \A i \in N : r[i] = Place(all, i)
    BY <1>13
  <1> HIDE DEF r, Under, rank
  <1>16. IsSequence(r) /\ Len(r) = n
    BY <1>2, <1>14, FunctionSequence
  <1>17. Range(r) = {r[i] : i \in N}
    BY <1>16, SequenceFacts
  <1>18. \A i, j \in N : i # j => r[i] # r[j]
    <2> SUFFICES ASSUME NEW i \in N, NEW j \in N, r[i] = r[j] PROVE i = j
      OBVIOUS
    <2>1. i - 1 = j - 1
      BY <1>12, <1>15
    <2> QED
      BY <1>2, <2>1
  <1>19. Range(r) = all
    <2>1. Range(r) \subseteq all
      BY <1>12, <1>15, <1>17
    <2> DEFINE f == [i \in N |-> r[i]]
    <2>2. f \in Injection(N, all)
      <3>1. f \in [N -> all]
        BY <1>12, <1>15
      <3> QED
        BY <1>18, <3>1 DEF Injection, IsInjective
    <2>3. Cardinality(N) = Cardinality(all)
      BY <1>9
    <2>4. f \in Surjection(N, all)
      BY <1>1, <2>2, <2>3, FS_Injection
    <2>5. \A m \in all : \E i \in N : r[i] = m
      BY <2>4 DEF Surjection
    <2> QED
      BY <1>17, <2>1, <2>5
  <1> QED
    BY <1>16, <1>18, <1>19 DEF r, all

(* Only the stamp of a copy and its mark differ. *)
CopiesOf(r, s, stamp) ==
    /\ IsSequence(r) /\ Len(r) = Len(s)
    /\ \A i \in 1 .. Len(s) : /\ r[i].id = s[i].id /\ r[i].topic = s[i].topic
                              /\ r[i].stamp = stamp /\ r[i].repeat = TRUE

(* write_transient_local_messages() changes no id and no topic. *)
LEMMA AdjustedFacts ==
  ASSUME NEW s, NEW stamp, IsSequence(s)
  PROVE  CopiesOf(Adjusted(s, stamp), s, stamp)
  <1> DEFINE r == Adjusted(s, stamp)
  <1>1. Len(s) \in Nat /\ DOMAIN s = 1 .. Len(s)
    BY SequenceFacts
  <1>2. /\ r = [i \in 1 .. Len(s) |-> r[i]]
        /\ \A i \in 1 .. Len(s) : /\ r[i].id = s[i].id /\ r[i].topic = s[i].topic
                                  /\ r[i].stamp = stamp /\ r[i].repeat = TRUE
    BY <1>1 DEF Adjusted
  <1> HIDE DEF r
  <1>3. IsSequence(r) /\ Len(r) = Len(s)
    BY <1>1, <1>2, FunctionSequence
  <1>4. CopiesOf(r, s, stamp)
    BY <1>2, <1>3 DEF CopiesOf
  <1> QED
    BY <1>4 DEF r

(* The copies at the head of a file are on topics that are latched now. *)
LEMMA HeadsFacts ==
  ASSUME Latches(transient), LatchInv, last_recv \in Nat
  PROVE  /\ IsSequence(Heads)
         /\ \A m \in Range(Heads) : Proper(m) /\ m.topic \in Known
  <1> DEFINE sorted == SortedMessages(transient)
             r == Adjusted(sorted, last_recv)
  <1>1. CASE options.mode = "snapshot"
    BY <1>1, EmptySequence DEF Heads
  <1>2. CASE options.mode # "snapshot"
    <2>1. IsSequence(sorted) /\ Range(sorted) = All(transient)
      BY SortedFacts
    <2>2. \A m \in All(transient) : Proper(m) /\ m.topic \in Known
      BY AllFacts DEF LatchInv
    <2>3. Heads = r
      BY <1>2 DEF Heads
    <2> HIDE DEF sorted
    <2>4. /\ IsSequence(r) /\ Len(r) = Len(sorted)
          /\ \A i \in 1 .. Len(sorted) : r[i].topic = sorted[i].topic /\ r[i].stamp = last_recv
      <3>1. IsSequence(sorted)
        BY <2>1
      <3>2. CopiesOf(r, sorted, last_recv)
        BY <3>1, AdjustedFacts
      <3> QED
        BY <3>2 DEF CopiesOf
    <2> HIDE DEF r
    <2>5. Range(r) = {r[i] : i \in 1 .. Len(r)} /\ Range(sorted) = {sorted[i] : i \in 1 .. Len(sorted)}
      BY <2>1, <2>4, SequenceFacts
    <2>6. ASSUME NEW m \in Range(r) PROVE Proper(m) /\ m.topic \in Known
      <3>1. PICK i \in 1 .. Len(sorted) : m = r[i]
        BY <2>4, <2>5
      <3>2. sorted[i] \in All(transient)
        BY <2>1, <2>5
      <3> QED
        BY <2>2, <2>4, <3>1, <3>2 DEF Proper
    <2> QED
      BY <2>3, <2>4, <2>6
  <1> QED
    BY <1>1, <1>2

(* A snapshot is made of messages with a time. *)
LEMMA SnapshotFacts ==
  ASSUME Latches(transient), LatchInv, IsSequence(cache), \A m \in Range(cache) : Proper(m)
  PROVE  /\ IsSequence(SnapshotMessages)
         /\ \A m \in Range(SnapshotMessages) : Proper(m)
         /\ cache = <<>> => SnapshotMessages = <<>>
  <1>1. CASE cache = <<>>
    <2>1. SnapshotMessages = <<>>
      BY <1>1 DEF SnapshotMessages
    <2> QED
      BY <2>1, EmptySequence
  <1>2. CASE cache # <<>>
    <2> DEFINE sorted == SortedMessages(transient)
               start == cache[1].stamp
               K == {i \in DOMAIN sorted : sorted[i].stamp < start}
               older == At(sorted, K)
               x == Adjusted(older, start)
    <2>1. SnapshotMessages = x \o cache
      BY <1>2 DEF SnapshotMessages
    <2>2. IsSequence(sorted) /\ Range(sorted) = All(transient)
      BY SortedFacts
    <2>3. \A m \in All(transient) : Proper(m)
      BY AllFacts
    <2>4. start \in Nat
      <3>1. Len(cache) \in Nat /\ Len(cache) # 0 /\ Range(cache) = {cache[i] : i \in 1 .. Len(cache)}
        BY <1>2, SequenceFacts
      <3>2. 1 \in 1 .. Len(cache)
        BY <3>1
      <3>3. Proper(cache[1])
        BY <3>1, <3>2
      <3> QED
        BY <3>3 DEF Proper
    <2>5. K \in SUBSET DOMAIN sorted
      OBVIOUS
    <2> HIDE DEF sorted, start, K
    <2>6. IsSequence(older) /\ Range(older) = {sorted[k] : k \in K}
      BY <2>2, <2>5, AtFacts
    <2>7. \A m \in Range(older) : Proper(m)
      <3>1. \A k \in K : sorted[k] \in Range(sorted)
        BY <2>5 DEF Range
      <3> QED
        BY <2>2, <2>3, <2>6, <3>1
    <2> HIDE DEF older
    <2>8. /\ IsSequence(x) /\ Len(x) = Len(older)
          /\ \A i \in 1 .. Len(older) : x[i].topic = older[i].topic /\ x[i].stamp = start
      <3>1. IsSequence(older)
        BY <2>6
      <3>2. CopiesOf(x, older, start)
        BY <3>1, AdjustedFacts
      <3> QED
        BY <3>2 DEF CopiesOf
    <2> HIDE DEF x
    <2>9. Range(x) = {x[i] : i \in 1 .. Len(x)} /\ Range(older) = {older[i] : i \in 1 .. Len(older)}
      BY <2>6, <2>8, SequenceFacts
    <2>10. \A m \in Range(x) : Proper(m)
      <3> SUFFICES ASSUME NEW m \in Range(x) PROVE Proper(m)
        OBVIOUS
      <3>1. PICK i \in 1 .. Len(older) : m = x[i]
        BY <2>8, <2>9
      <3>2. Proper(older[i])
        BY <2>7, <2>9
      <3> QED
        BY <2>4, <2>8, <3>1, <3>2 DEF Proper
    <2>11. IsSequence(x \o cache) /\ Range(x \o cache) = Range(x) \cup Range(cache)
      BY <2>8, ConcatFacts
    <2> QED
      BY <1>2, <2>1, <2>10, <2>11
  <1> QED
    BY <1>1, <1>2

-----------------------------------------------------------------------------
(* The counts are kept. *)

(* What the consumer has to count is on the topics there are, or were.      *)
Uncounted ==
    /\ OnTopics(uncounted, Known \cup missed)
    /\ \A m \in Range(uncounted) : Proper(m)
    /\ options.cleanup_only => missed = {}

CountInv ==
    /\ last_recv \in Nat
    /\ Detailed(bag) /\ Counted(bag, uncounted, missed) /\ Uncounted
    /\ \A m \in Stored(bag) \cup Range(Todo) : Proper(m)
    /\ LatchInv
    /\ options.cleanup_only => Logged \subseteq Known

(* The consumer's messages, and those of the cache. *)
LEMMA QueuedFacts ==
  ASSUME IInv, CountInv
  PROVE  /\ IsSequence(Pending) /\ IsSequence(in_flight) /\ IsSequence(cache) /\ Latches(transient)
         /\ \A m \in Range(Pending) \cup Range(in_flight) \cup Range(cache) : Proper(m)
         /\ bag.storage = NoFile => Pending = <<>> /\ in_flight = <<>>
         /\ DOMAIN bag.topics = Known /\ Known \subseteq Topics
  <1>1. IsSequence(in_flight) /\ IsSequence(cache) /\ Latches(transient)
    BY DEF IInv
  <1>2. Range(Todo) = Range(in_flight) \cup Range(cache)
    BY <1>1, ConcatFacts DEF Todo
  <1>3. Pending = <<>> \/ Pending = Todo
    BY DEF Pending, Todo
  <1>4. IsSequence(Pending) /\ Range(Pending) \subseteq Range(Todo)
    BY <1>3, EmptySequence, InvFacts
  <1>5. bag.storage = NoFile => Pending = <<>> /\ in_flight = <<>>
    BY DEF IInv, Modes, Pending
  <1> QED
    BY <1>1, <1>2, <1>4, <1>5 DEF CountInv, Known, LatchInv

(* What the storage does not refuse is on topics it has. *)
LEMMA KeptTopics ==
  ASSUME CountInv, NEW x, IsSequence(x), Registered(bag, x), x = <<>> \/ bag.storage # NoFile,
         \A m \in Range(x) : Proper(m), NEW losses
  PROVE  LET y == Kept(x, losses) IN
         /\ IsSequence(y) /\ (y = <<>> \/ bag.storage # NoFile)
         /\ OnTopics(y, DOMAIN bag.topics)
         /\ \A m \in Range(y) : Proper(m)
         /\ x = <<>> => y = <<>>
  <1> DEFINE y == Kept(x, losses)
  <1>1. IsSequence(y) /\ Range(y) \subseteq Range(x) /\ (x = <<>> => y = <<>>)
    BY KeptFacts
  <1>2. CASE x = <<>>
    <2>1. y = <<>> /\ Range(y) = {}
      BY <1>1, <1>2, EmptySequence
    <2> QED
      BY <1>1, <1>2, <2>1 DEF OnTopics
  <1>3. CASE x # <<>>
    <2>1. bag.storage # NoFile
      BY <1>3
    <2>2. \A m \in Range(x) : m.topic \in DOMAIN bag.topics
      BY <2>1 DEF Registered, CountInv, Detailed
    <2> QED
      BY <1>1, <1>3, <2>1, <2>2 DEF OnTopics
  <1> QED
    BY <1>2, <1>3

(* What the consumer adds to the counts of a topic. *)
Late(t) == IF t \in Known THEN Count(uncounted, t) ELSE 0

(* The counts when the consumer has counted what it has stored. *)
LEMMA WrittenCounts ==
  ASSUME IInv, CountInv
  PROVE  /\ Listed(Written) /\ Detailed(Written) /\ Counted(Written, <<>>, missed)
         /\ Written.storage = bag.storage /\ Written.next_file_index = bag.next_file_index
         /\ Written.files = bag.files /\ Written.disk = bag.disk
         /\ DOMAIN bag.topics = Known /\ DOMAIN Written.topics = Known
         /\ Stored(Written) = Stored(bag)
         /\ Len(bag.files) = 0 => \A t \in Topics : Late(t) = 0
         /\ \A t \in Topics : Late(t) \in Nat
         /\ \A t \in Known : Written.topics[t] = bag.topics[t] + Late(t)
         /\ \A i \in 1 .. Len(bag.files) : i # Len(bag.files) => Written.per_file[i] = bag.per_file[i]
         /\ \A i \in 1 .. Len(bag.files) : i = Len(bag.files) =>
               \A t \in Topics : Written.per_file[i][t] = bag.per_file[i][t] + Late(t)
  <1> DEFINE a == Written
             n == Len(bag.files)
             AddTo(counts) == [t \in DOMAIN counts |->
                                 counts[t] + IF t \in DOMAIN bag.topics THEN Count(uncounted, t) ELSE 0]
  <1>1. /\ Listed(bag) /\ DOMAIN bag = Fields /\ IsSequence(uncounted) /\ n \in Nat
        /\ Detailed(bag) /\ Counted(bag, uncounted, missed) /\ Uncounted
        /\ bag.storage = NoFile => uncounted = <<>>
    BY InvFacts DEF IInv, Modes, CountInv
  <1>2. /\ DOMAIN a = Fields /\ a.storage = bag.storage /\ a.next_file_index = bag.next_file_index
        /\ a.disk = bag.disk /\ a.files = bag.files /\ Listed(a)
    BY <1>1, WrittenSame
  <1>3. Known = DOMAIN bag.topics /\ Known \subseteq Topics /\ \A t \in Known : bag.topics[t] \in Nat
    BY <1>1 DEF Known, Detailed
  <1>4. /\ IsSequence(bag.per_file) /\ Len(bag.per_file) = n
        /\ \A i \in 1 .. n : bag.per_file[i] \in [Topics -> Nat]
        /\ Tabled(bag)
    BY <1>1 DEF Detailed
  <1>5. \A t : Count(uncounted, t) \in Nat /\ Count(<<>>, t) = 0 /\ Late(t) \in Nat
    BY <1>1, CountFacts DEF Late
  <1>6. n = 0 => uncounted = <<>>
    BY <1>1 DEF Listed
  <1>7. n = 0 => \A t \in Topics : Late(t) = 0
    BY <1>5, <1>6 DEF Late
  <1>8. /\ IsSequence(a.per_file) /\ Len(a.per_file) = n
        /\ \A i \in 1 .. n : i # n => a.per_file[i] = bag.per_file[i]
        /\ \A i \in 1 .. n : i = n => /\ a.per_file[i] \in [Topics -> Nat]
                                      /\ \A t \in Topics : a.per_file[i][t] = bag.per_file[i][t] + Late(t)
    <2>1. CASE uncounted = <<>>
      <3>1. a = bag /\ \A t : Late(t) = 0
        BY <1>5, <2>1 DEF Written, CountIn, Late
      <3>2. \A i \in 1 .. n : \A t \in Topics : bag.per_file[i][t] \in Nat
        BY <1>4
      <3> QED
        BY <1>4, <3>1, <3>2
    <2>2. CASE uncounted # <<>>
      <3>1. n \in 1 .. Len(bag.per_file)
        BY <1>1, <1>4, <1>6, <2>2
      <3> DEFINE e == AddTo(bag.per_file[n])
                 r == [bag.per_file EXCEPT ![n] = e]
      <3>2. a.per_file = r
        BY <1>1, <2>2 DEF Written, CountIn, Fields
      <3>3. e \in [Topics -> Nat] /\ \A t \in Topics : e[t] = bag.per_file[n][t] + Late(t)
        <4>1. bag.per_file[n] \in [Topics -> Nat]
          BY <1>4, <3>1
        <4>2. \A t : Late(t) = IF t \in DOMAIN bag.topics THEN Count(uncounted, t) ELSE 0
          BY <1>3 DEF Late
        <4>3. e = [t \in Topics |-> bag.per_file[n][t] + Late(t)]
          BY <4>1, <4>2
        <4> QED
          BY <1>5, <4>1, <4>3
      <3> HIDE DEF e, n
      <3>31. r = [bag.per_file EXCEPT ![n] = e]
        OBVIOUS
      <3> HIDE DEF r
      <3>4. /\ IsSequence(r) /\ Len(r) = Len(bag.per_file)
            /\ \A i \in 1 .. Len(bag.per_file) : r[i] = IF i = n THEN e ELSE bag.per_file[i]
        <4>1. IsSequence(bag.per_file)
          BY <1>4
        <4> QED
          BY <3>1, <3>31, <4>1, OneChangedIs
      <3> QED
        BY <1>4, <3>2, <3>3, <3>4
    <2> QED
      BY <2>1, <2>2
  <1>9. DOMAIN a.topics = Known /\ Tabled(a) /\ \A t \in Known : a.topics[t] = bag.topics[t] + Late(t)
    <2>1. CASE uncounted = <<>>
      <3>1. a = bag /\ \A t : Late(t) = 0
        BY <1>5, <2>1 DEF Written, CountIn, Late
      <3> QED
        BY <1>3, <1>4, <3>1
    <2>2. CASE uncounted # <<>>
      <3>1. a.topics = AddTo(bag.topics)
        BY <1>1, <2>2 DEF Written, CountIn, Fields
      <3> HIDE DEF a
      <3> QED
        BY <1>3, <3>1 DEF Tabled, Late
    <2> QED
      BY <2>1, <2>2
  <1> HIDE DEF a
  <1>10. \A t \in Known : a.topics[t] \in Nat
    BY <1>3, <1>5, <1>9
  <1>11. \A i \in 1 .. n : a.per_file[i] \in [Topics -> Nat]
    BY <1>4, <1>8
  <1>12. Detailed(a)
    <2>1. /\ \A i \in 1 .. Len(a.files) : DOMAIN a.files[i] = FileFields /\ a.files[i].message_count \in Nat
          /\ \A k \in DOMAIN a.disk : DOMAIN a.disk[k] = {"formats", "messages"}
          /\ a.storage # NoFile => DOMAIN a.disk[a.storage].formats = Known
          /\ IsFiniteSet(Known)
      BY <1>1, <1>2, <1>3 DEF Detailed
    <2> QED
      BY <1>2, <1>3, <1>8, <1>9, <1>10, <1>11, <2>1 DEF Detailed
  <1>13. Counted(a, <<>>, missed)
    <2> SUFFICES ASSUME NEW i \in 1 .. n
                 PROVE  LET messages == a.disk[a.files[i].index].messages IN
                        /\ a.files[i].message_count = Len(messages)
                        /\ \A t \in Topics \ missed : a.per_file[i][t] + Count(<<>>, t) = Count(messages, t)
      BY <1>2, EmptySequence DEF Counted
    <2> DEFINE messages == bag.disk[bag.files[i].index].messages
               rest == IF i = n THEN uncounted ELSE <<>>
    <2>1. /\ bag.files[i].message_count = Len(messages)
          /\ \A t \in Topics \ missed : bag.per_file[i][t] + Count(rest, t) = Count(messages, t)
      BY <1>1 DEF Counted
    <2> HIDE DEF messages
    <2>2. ASSUME NEW t \in Topics \ missed
          PROVE  a.per_file[i][t] + Count(<<>>, t) = Count(messages, t)
      <3>1. a.per_file[i][t] \in Nat /\ bag.per_file[i][t] \in Nat
        BY <1>4, <1>11
      <3>2. Late(t) = Count(uncounted, t)
        <4>1. CASE t \in Known
          BY <4>1 DEF Late
        <4>2. CASE t \notin Known
          <5>1. t \notin Known \cup missed
            BY <4>2
          <5>2. Count(uncounted, t) = 0
            BY <1>1, <5>1, CountOthers DEF Uncounted
          <5> QED
            BY <4>2, <5>2 DEF Late
        <4> QED
          BY <4>1, <4>2
      <3>3. CASE i = n
        <4>1. a.per_file[i][t] = bag.per_file[i][t] + Count(uncounted, t)
          BY <1>8, <3>2, <3>3
        <4>2. bag.per_file[i][t] + Count(uncounted, t) = Count(messages, t)
          BY <2>1, <3>3
        <4> QED
          BY <1>5, <3>1, <4>1, <4>2
      <3>4. CASE i # n
        <4>1. a.per_file[i] = bag.per_file[i]
          BY <1>8, <3>4
        <4>2. bag.per_file[i][t] + Count(<<>>, t) = Count(messages, t)
          BY <2>1, <3>4
        <4> QED
          BY <4>1, <4>2
      <3> QED
        BY <3>3, <3>4
    <2> QED
      BY <1>2, <2>1, <2>2 DEF messages
  <1>14. Stored(a) = Stored(bag)
    BY <1>2 DEF Stored
  <1> QED
    BY <1>2, <1>3, <1>5, <1>7, <1>8, <1>9, <1>12, <1>13, <1>14 DEF a

(* The counts when messages are stored that the consumer has not counted. *)
LEMMA PutCounts ==
  ASSUME NEW b, NEW y, NEW M, Listed(b), Detailed(b), IsSequence(y), y = <<>> \/ b.storage # NoFile,
         OnTopics(y, DOMAIN b.topics), Counted(b, <<>>, M)
  PROVE  LET p == Put(b, y)
             a == AddToFile(b, y)
         IN  /\ Detailed(p) /\ Counted(p, y, M)
             /\ p.files = a.files /\ p.disk = a.disk
             /\ p.per_file = b.per_file /\ p.topics = b.topics
  <1> DEFINE p == Put(b, y)
             a == AddToFile(b, y)
             n == Len(b.files)
  <1>1. DOMAIN p = Fields /\ Len(p.files) = n /\ p.storage = b.storage /\ n \in Nat
    BY PutRefiles, SequenceFacts DEF Refiled, Listed
  <1>2. p.per_file = b.per_file /\ p.topics = b.topics
    BY DEF Put, Listed, Fields
  <1>3. p.files = a.files /\ p.disk = a.disk /\ p.storage = a.storage
    BY <1>1, CountInSame DEF AddToFile
  <1>4. Grown(b, a, y)
    BY AddToFileGrows
  <1> HIDE DEF p, a
  <1>5. Detailed(a) /\ Counted(a, <<>>, M)
    BY <1>4, GrownCounts
  <1>6. DOMAIN a.topics = DOMAIN b.topics
    BY <1>4 DEF Grown
  <1>7. Detailed(p)
    <2>1. /\ \A i \in 1 .. n : DOMAIN p.files[i] = FileFields /\ p.files[i].message_count \in Nat
          /\ \A k \in DOMAIN p.disk : DOMAIN p.disk[k] = {"formats", "messages"}
          /\ p.storage # NoFile => DOMAIN p.disk[p.storage].formats = DOMAIN p.topics
      BY <1>1, <1>2, <1>3, <1>5, <1>6 DEF Detailed
    <2>2. /\ IsSequence(p.per_file) /\ Len(p.per_file) = n
          /\ \A i \in 1 .. n : p.per_file[i] \in [Topics -> Nat]
          /\ DOMAIN p.topics \subseteq Topics /\ IsFiniteSet(DOMAIN p.topics)
          /\ \A t \in DOMAIN p.topics : p.topics[t] \in Nat
          /\ Tabled(p)
      BY <1>2 DEF Detailed, Tabled
    <2> QED
      BY <1>1, <2>1, <2>2 DEF Detailed
  <1>8. Counted(p, y, M)
    <2> SUFFICES ASSUME NEW i \in 1 .. n
                 PROVE  LET messages == p.disk[p.files[i].index].messages
                            rest == IF i = n THEN y ELSE <<>>
                        IN  /\ p.files[i].message_count = Len(messages)
                            /\ \A t \in Topics \ M : p.per_file[i][t] + Count(rest, t) = Count(messages, t)
      BY <1>1 DEF Counted
    <2> DEFINE messages == p.disk[p.files[i].index].messages
    <2>1. /\ p.files[i].message_count = Len(messages)
          /\ \A t \in Topics \ M : a.per_file[i][t] + Count(<<>>, t) = Count(messages, t)
      BY <1>1, <1>3, <1>5 DEF Counted
    <2> HIDE DEF messages
    <2>2. ASSUME NEW t \in Topics \ M
          PROVE  p.per_file[i][t] + Count(IF i = n THEN y ELSE <<>>, t) = Count(messages, t)
      <3>1. b.per_file[i][t] \in Nat /\ Count(y, t) \in Nat /\ Count(<<>>, t) = 0
        BY CountFacts DEF Detailed
      <3>2. CASE i = n
        <4>1. a.per_file[i] = [u \in Topics |-> b.per_file[i][u] + Count(y, u)]
          BY <1>4, <3>2 DEF Grown
        <4>2. a.per_file[i][t] = b.per_file[i][t] + Count(y, t)
          BY <4>1
        <4> QED
          BY <1>2, <2>1, <3>1, <3>2, <4>2
      <3>3. CASE i # n
        <4>1. a.per_file[i] = b.per_file[i]
          BY <1>4, <3>3 DEF Grown
        <4> QED
          BY <1>2, <2>1, <3>3, <4>1
      <3> QED
        BY <3>2, <3>3
    <2> QED
      BY <2>1, <2>2 DEF messages
  <1> QED
    BY <1>2, <1>3, <1>7, <1>8 DEF p, a

(* What a growing bag stores. *)
LEMMA GrownProper ==
  ASSUME NEW b, NEW a, NEW x, Listed(b), Detailed(b), IsSequence(x), x = <<>> \/ b.storage # NoFile,
         Grown(b, a, x), \A m \in Stored(b) \cup Range(x) : Proper(m)
  PROVE  \A m \in Stored(a) : Proper(m)
  <1>1. Stored(a) = Stored(b) \cup Range(x)
    BY RefiledStored DEF Grown
  <1> QED
    BY <1>1

(* The bag with what the consumer had to write. *)
LEMMA FlushCounts ==
  ASSUME IInv, CountInv, Registered(bag, Pending), NEW losses
  PROVE  LET y == Kept(Pending, losses)
             f == AddToFile(Written, y)
         IN  /\ IsSequence(y) /\ (y = <<>> \/ bag.storage # NoFile) /\ OnTopics(y, Known)
             /\ Grown(Written, f, y)
             /\ Listed(f) /\ Detailed(f) /\ Counted(f, <<>>, missed)
             /\ DOMAIN f.topics = Known
             /\ \A m \in Stored(f) : Proper(m)
             /\ \A i \in 1 .. Len(bag.files) : f.files[i].starting_time = bag.files[i].starting_time
  <1> DEFINE y == Kept(Pending, losses)
             f == AddToFile(Written, y)
  <1>1. /\ IsSequence(y) /\ (y = <<>> \/ bag.storage # NoFile) /\ OnTopics(y, DOMAIN bag.topics)
        /\ \A m \in Range(y) : Proper(m)
    BY QueuedFacts, KeptTopics
  <1>2. /\ Listed(Written) /\ Detailed(Written) /\ Counted(Written, <<>>, missed)
        /\ Written.storage = bag.storage /\ Written.files = bag.files
        /\ DOMAIN bag.topics = Known /\ DOMAIN Written.topics = Known
        /\ \A m \in Stored(Written) : Proper(m)
    BY WrittenCounts DEF CountInv
  <1> HIDE DEF y
  <1>3. /\ Grown(Written, f, y)
        /\ \A i \in 1 .. Len(bag.files) : f.files[i].starting_time = bag.files[i].starting_time
    BY <1>1, <1>2, AddToFileGrows
  <1> HIDE DEF f
  <1>4. Listed(f) /\ Detailed(f) /\ Counted(f, <<>>, missed)
    BY <1>1, <1>2, <1>3, GrownCounts
  <1>5. \A m \in Stored(f) : Proper(m)
    BY <1>1, <1>2, <1>3, GrownProper
  <1>6. DOMAIN f.topics = Known /\ DOMAIN bag.topics = Known
    BY <1>2, <1>3 DEF Grown
  <1> QED
    BY <1>1, <1>3, <1>4, <1>5, <1>6 DEF y, f

(* The bag with a snapshot. *)
LEMMA SnapshotCounts ==
  ASSUME IInv, CountInv, Registered(bag, SnapshotMessages), bag.storage # NoFile, NEW losses
  PROVE  LET y == Kept(SnapshotMessages, losses)
             f == AddSnapshot(Written, y)
             n == Len(bag.files)
         IN  /\ IsSequence(y) /\ OnTopics(y, Known)
             /\ Grown(Written, f, y)
             /\ Listed(f) /\ Detailed(f) /\ Counted(f, <<>>, missed)
             /\ DOMAIN f.topics = Known
             /\ \A m \in Stored(f) : Proper(m)
             /\ \A m \in Range(y) : Proper(m)
             /\ y # <<>> => /\ f.files[n].starting_time = Head(y).stamp
                            /\ f.files[n].duration = Last(y).stamp - Head(y).stamp
             /\ y = <<>> => f = Written
             /\ cache = <<>> => y = <<>>
  <1> DEFINE y == Kept(SnapshotMessages, losses)
             f == AddSnapshot(Written, y)
  <1>1. /\ IsSequence(SnapshotMessages) /\ \A m \in Range(SnapshotMessages) : Proper(m)
        /\ cache = <<>> => SnapshotMessages = <<>>
    BY QueuedFacts, SnapshotFacts DEF CountInv
  <1>2. /\ IsSequence(y) /\ OnTopics(y, DOMAIN bag.topics)
        /\ \A m \in Range(y) : Proper(m)
        /\ cache = <<>> => y = <<>>
    BY <1>1, KeptTopics
  <1>3. /\ Listed(Written) /\ Detailed(Written) /\ Counted(Written, <<>>, missed)
        /\ Written.storage = bag.storage /\ Written.files = bag.files
        /\ DOMAIN bag.topics = Known /\ DOMAIN Written.topics = Known
        /\ \A m \in Stored(Written) : Proper(m)
    BY WrittenCounts DEF CountInv
  <1> HIDE DEF y
  <1>4. /\ Grown(Written, f, y)
        /\ y # <<>> => /\ f.files[Len(bag.files)].starting_time = Head(y).stamp
                       /\ f.files[Len(bag.files)].duration = Last(y).stamp - Head(y).stamp
        /\ y = <<>> => f = Written
    BY <1>2, <1>3, AddSnapshotGrows
  <1> HIDE DEF f
  <1>5. Listed(f) /\ Detailed(f) /\ Counted(f, <<>>, missed)
    BY <1>2, <1>3, <1>4, GrownCounts
  <1>6. \A m \in Stored(f) : Proper(m)
    BY <1>2, <1>3, <1>4, GrownProper
  <1>7. DOMAIN f.topics = Known /\ DOMAIN bag.topics = Known
    BY <1>3, <1>4 DEF Grown
  <1> QED
    BY <1>2, <1>4, <1>5, <1>6, <1>7 DEF y, f

(* The bag with the next file, which the latched messages start. *)
LEMMA RollCounts ==
  ASSUME Latches(transient), LatchInv, last_recv \in Nat,
         NEW f, Listed(f), Detailed(f), Counted(f, <<>>, missed), DOMAIN f.topics = Known,
         \A m \in Stored(f) : Proper(m),
         NEW losses, NEW d \in 0 .. Len(f.files)
  PROVE  LET c == NextFile(f, d)
             h == Kept(Heads, losses)
             a == Rolled(f, losses, d)
         IN  /\ NextFileIs(f, c, d) /\ NextFileCounts(f, c, d) /\ Listed(c)
             /\ IsSequence(h) /\ OnTopics(h, Known)
             /\ Grown(c, a, h)
             /\ Listed(a) /\ Detailed(a) /\ Counted(a, <<>>, missed) /\ DOMAIN a.topics = Known
             /\ \A m \in Stored(a) : Proper(m)
             /\ a.storage = f.next_file_index /\ a.storage # NoFile /\ c.storage # NoFile
             /\ Len(a.files) = Len(f.files) + 1 - d /\ Len(c.files) = Len(a.files) /\ Len(a.files) > 0
             /\ a.files[Len(a.files)].starting_time \in {NoTime, Least(NoTime, last_recv)}
  <1> DEFINE c == NextFile(f, d)
             h == Kept(Heads, losses)
             a == Rolled(f, losses, d)
  <1>1. NextFileIs(f, c, d) /\ NextFileCounts(f, c, d)
    BY NextFileLists, NextFileCountsIt
  <1> HIDE DEF c
  <1>2. /\ Listed(c) /\ Detailed(c) /\ Counted(c, <<>>, missed) /\ DOMAIN c.topics = Known
        /\ c.storage = f.next_file_index /\ c.storage \in Nat
        /\ Len(c.files) = Len(f.files) + 1 - d
        /\ c.files[Len(c.files)] = NewFile(f.next_file_index)
    BY <1>1 DEF NextFileIs, NextFileCounts
  <1>3. c.storage # NoFile
    BY <1>2 DEF NoFile
  <1>4. \A m \in Stored(c) : Proper(m)
    <2> SUFFICES ASSUME NEW m \in Stored(c) PROVE Proper(m)
      OBVIOUS
    <2>1. PICK k \in DOMAIN c.disk : m \in Range(c.disk[k].messages)
      BY DEF Stored
    <2>2. k # f.next_file_index
      BY <1>1, <2>1, EmptySequence DEF NextFileIs
    <2>3. k \in DOMAIN f.disk /\ c.disk[k] = f.disk[k]
      BY <1>1, <2>2 DEF NextFileCounts
    <2> QED
      BY <2>1, <2>3 DEF Stored
  <1>5. IsSequence(Heads) /\ \A m \in Range(Heads) : Proper(m) /\ m.topic \in Known
    BY HeadsFacts
  <1>6. /\ IsSequence(h) /\ Range(h) \subseteq Range(Heads) /\ (Heads = <<>> => h = <<>>)
    BY <1>5, KeptFacts
  <1>7. OnTopics(h, Known) /\ \A m \in Range(h) : Proper(m)
    BY <1>5, <1>6 DEF OnTopics
  <1>8. a = Prepend(c, h)
    BY DEF Rolled, c
  <1> HIDE DEF h, a
  <1>9. /\ Grown(c, a, h)
        /\ a.files[Len(c.files)].starting_time \in {c.files[Len(c.files)].starting_time,
                                                    Least(c.files[Len(c.files)].starting_time, last_recv)}
    BY <1>2, <1>3, <1>6, <1>7, <1>8, PrependGrows
  <1>10. Listed(a) /\ Detailed(a) /\ Counted(a, <<>>, missed)
    BY <1>2, <1>3, <1>6, <1>9, GrownCounts
  <1>11. \A m \in Stored(a) : Proper(m)
    BY <1>2, <1>3, <1>4, <1>6, <1>7, <1>9, GrownProper
  <1>12. DOMAIN a.topics = Known /\ a.storage = c.storage /\ Len(a.files) = Len(c.files)
    BY <1>2, <1>9 DEF Grown, Refiled
  <1>13. c.files[Len(c.files)].starting_time = NoTime
    BY <1>2 DEF NewFile
  <1>14. Len(a.files) > 0
    BY <1>3, <1>10, <1>12 DEF Listed
  <1> QED
    BY <1>1, <1>2, <1>3, <1>6, <1>7, <1>9, <1>10, <1>11, <1>12, <1>13, <1>14 DEF c, h, a

-----------------------------------------------------------------------------
(* The dates of the files. *)

(* No file starts after an original in it, nor the last after one in Q. *)
Started(b, Q) ==
    \A i \in 1 .. Len(b.files) :
        /\ b.files[i].starting_time \in Nat
        /\ \A m \in Range(b.disk[b.files[i].index].messages) :
              ~m.repeat => b.files[i].starting_time <= m.stamp
        /\ i = Len(b.files) => \A m \in Q : b.files[i].starting_time <= m.stamp

(* A file of a snapshot, and of none. *)
Exact(f, messages) ==
    messages = <<>> \/ (/\ f.starting_time = Head(messages).stamp
                        /\ f.starting_time + f.duration = Last(messages).stamp)

(* The files of the snapshots D hold them, the others nothing. *)
Snapped(b, D) ==
    /\ \A k \in D : k \in Nat /\ k < b.next_file_index
    /\ \A i \in 1 .. Len(b.files) :
          LET f == b.files[i]
              messages == b.disk[f.index].messages
          IN  IF f.index \notin D THEN messages = <<>> ELSE Exact(f, messages)

Unfilled(b, D) == \A i \in 1 .. Len(b.files) : i = Len(b.files) => b.files[i].index \notin D

DateInv ==
    /\ options.mode # "snapshot" => Started(bag, Range(Todo))
    /\ options.mode = "snapshot" => Snapped(bag, DOMAIN due) /\ (is_open => Unfilled(bag, DOMAIN due))

(* The topics' counts are those of the files together. *)
Totalled(b) == \A t \in DOMAIN b.topics : b.topics[t] = SumOver(b.per_file, t)

(* They fit in size_t. *)
Fits ==
    /\ \A t \in Topics : TotalOf(bag.per_file, t) < CountModulus
    /\ TotalOf(bag.files, "message_count") < CountModulus

TotalInv ==
    /\ is_open /\ options.cleanup_only => Totalled(bag)
    /\ ~is_open /\ DOMAIN bag.disk # {} =>
          /\ yaml.files = bag.files
          /\ options.cleanup_only => yaml.message_count = SumOver(bag.files, "message_count")

-----------------------------------------------------------------------------
(* What happens to the dates. *)

(* A file that has grown starts no later than before. *)
LEMMA StartedGrown ==
  ASSUME NEW b, NEW a, NEW x, NEW Q, Listed(b), IsSequence(x), x = <<>> \/ b.storage # NoFile,
         Grown(b, a, x), Started(b, Q),
         \A i \in 1 .. Len(b.files) : i = Len(b.files) =>
            a.files[i].starting_time \in Nat /\ a.files[i].starting_time <= b.files[i].starting_time,
         \A m \in Range(x) : ~m.repeat => m \in Q,
         \A m \in Stored(b) \cup Q : m.stamp \in Nat
  PROVE  Started(a, Q)
  <1> DEFINE n == Len(b.files)
  <1>1. /\ Len(a.files) = n /\ n \in Nat
        /\ \A i \in 1 .. n : a.files[i].index = b.files[i].index /\ b.files[i].index \in DOMAIN b.disk
        /\ \A k \in DOMAIN b.disk : /\ k # b.storage => a.disk[k].messages = b.disk[k].messages
                                   /\ k = b.storage => a.disk[k].messages = b.disk[k].messages \o x
    BY SequenceFacts DEF Grown, Refiled, Listed
  <1>2. \A i \in 1 .. n : i # n => a.files[i] = b.files[i]
    BY DEF Grown
  <1>3. \A k \in DOMAIN b.disk : IsSequence(b.disk[k].messages) /\ Range(b.disk[k].messages) \subseteq Stored(b)
    BY DEF Listed, Stored
  <1> SUFFICES ASSUME NEW i \in 1 .. n
               PROVE  /\ a.files[i].starting_time \in Nat
                      /\ \A m \in Range(a.disk[a.files[i].index].messages) :
                            ~m.repeat => a.files[i].starting_time <= m.stamp
                      /\ i = n => \A m \in Q : a.files[i].starting_time <= m.stamp
    BY <1>1 DEF Started
  <1> DEFINE k == b.files[i].index
             old == b.files[i].starting_time
             now == a.files[i].starting_time
  <1>4. /\ old \in Nat
        /\ \A m \in Range(b.disk[k].messages) : ~m.repeat => old <= m.stamp
        /\ i = n => \A m \in Q : old <= m.stamp
    BY DEF Started
  <1>5. k \in DOMAIN b.disk /\ a.files[i].index = k
    BY <1>1
  <1>6. now \in Nat /\ now <= old
    BY <1>2, <1>4
  <1> HIDE DEF now, k
  <1>7. \A m \in Range(a.disk[k].messages) : m \in Range(b.disk[k].messages) \/ (i = n /\ m \in Range(x))
    <2>1. CASE k = b.storage
      <3>1. Range(a.disk[k].messages) = Range(b.disk[k].messages) \cup Range(x)
        <4>1. a.disk[k].messages = b.disk[k].messages \o x
          BY <1>1, <1>5, <2>1
        <4>2. IsSequence(b.disk[k].messages)
          BY <1>3, <1>5
        <4> QED
          BY <4>1, <4>2, ConcatFacts
      <3>2. CASE x = <<>>
        BY <3>1, <3>2, EmptySequence
      <3>3. CASE x # <<>>
        <4>1. b.storage = b.files[n].index /\ n \in 1 .. n
          BY <3>3, StorageIsLast DEF Listed
        <4>2. \A j \in 1 .. n : b.files[j].index = k => ~(i < j) /\ ~(j < i)
          BY <1>1 DEF Listed, k
        <4>3. i = n
          BY <1>1, <2>1, <4>1, <4>2 DEF k
        <4> QED
          BY <3>1, <4>3
      <3> QED
        BY <3>2, <3>3
    <2>2. CASE k # b.storage
      <3>1. a.disk[k].messages = b.disk[k].messages
        BY <1>5, <2>2 DEF Grown, Refiled
      <3> QED
        BY <3>1
    <2> QED
      BY <2>1, <2>2
  <1>8. ASSUME NEW m \in Range(a.disk[k].messages), ~m.repeat
        PROVE  now <= m.stamp
    <2>1. old <= m.stamp
      BY <1>4, <1>7, <1>8
    <2>2. m.stamp \in Nat
      BY <1>3, <1>5, <1>7, <1>8
    <2> QED
      BY <1>4, <1>6, <2>1, <2>2
  <1>9. i = n => \A m \in Q : now <= m.stamp
    BY <1>4, <1>6
  <1> QED
    BY <1>5, <1>6, <1>8, <1>9 DEF now, k

(* The next file holds nothing. *)
LEMMA StartedNext ==
  ASSUME NEW f, NEW c, NEW d, NEW Q, Listed(f), d \in 0 .. Len(f.files),
         NextFileIs(f, c, d), NextFileCounts(f, c, d), Started(f, Q), NoTime \in Nat
  PROVE  Started(c, {})
  <1> DEFINE l == Len(f.files)
             k == f.next_file_index
  <1>1. l \in Nat /\ d \in Nat /\ d <= l
    BY SequenceFacts DEF Listed
  <1>2. /\ Len(c.files) = l + 1 - d
        /\ \A i \in 1 .. l - d : d + i \in 1 .. l /\ c.files[i] = f.files[d + i]
        /\ c.files[l + 1 - d] = NewFile(k)
        /\ \A j \in DOMAIN c.disk : j # k => j \in DOMAIN f.disk /\ c.disk[j] = f.disk[j]
        /\ c.disk[k].messages = <<>>
    BY DEF NextFileIs, NextFileCounts
  <1>3. \A i \in 1 .. Len(c.files) : c.files[i].index \in DOMAIN c.disk
    BY DEF NextFileIs, Listed
  <1> SUFFICES ASSUME NEW i \in 1 .. Len(c.files)
               PROVE  /\ c.files[i].starting_time \in Nat
                      /\ \A m \in Range(c.disk[c.files[i].index].messages) :
                            ~m.repeat => c.files[i].starting_time <= m.stamp
    BY DEF Started
  <1>4. CASE i = l + 1 - d
    <2>1. c.files[i].starting_time = NoTime /\ c.files[i].index = k
      BY <1>2, <1>4 DEF NewFile
    <2> QED
      BY <1>2, <2>1, EmptySequence
  <1>5. CASE i # l + 1 - d
    <2>1. i \in 1 .. l - d
      BY <1>1, <1>2, <1>5
    <2>2. d + i \in 1 .. l /\ c.files[i] = f.files[d + i]
      BY <1>2, <2>1
    <2>3. f.files[d + i].index # k
      BY <2>2 DEF Listed
    <2>4. c.disk[c.files[i].index] = f.disk[f.files[d + i].index]
      BY <1>2, <1>3, <2>2, <2>3
    <2> QED
      BY <2>2, <2>4 DEF Started
  <1> QED
    BY <1>4, <1>5

(* A file of copies may start at any time. *)
LEMMA StartedAgain ==
  ASSUME NEW b, NEW a, Listed(b), Grown(b, a, <<>>), Started(b, {}), Len(b.files) > 0,
         a.files[Len(b.files)].starting_time \in Nat,
         Copies(b.disk[b.files[Len(b.files)].index].messages)
  PROVE  Started(a, {})
  <1> DEFINE n == Len(b.files)
  <1>1. /\ Len(a.files) = n /\ n \in Nat
        /\ \A i \in 1 .. n : a.files[i].index = b.files[i].index /\ b.files[i].index \in DOMAIN b.disk
        /\ \A k \in DOMAIN b.disk : /\ k # b.storage => a.disk[k].messages = b.disk[k].messages
                                   /\ k = b.storage => a.disk[k].messages = b.disk[k].messages \o <<>>
        /\ \A k \in DOMAIN b.disk : IsSequence(b.disk[k].messages)
    BY SequenceFacts DEF Grown, Refiled, Listed
  <1>2. \A k \in DOMAIN b.disk : a.disk[k].messages = b.disk[k].messages
    <2> SUFFICES ASSUME NEW k \in DOMAIN b.disk PROVE a.disk[k].messages = b.disk[k].messages
      OBVIOUS
    <2>1. IsSequence(b.disk[k].messages)
      BY <1>1
    <2>2. b.disk[k].messages \o <<>> = b.disk[k].messages
      BY <2>1, EmptyJoined
    <2>3. CASE k = b.storage
      BY <2>2, <2>3 DEF Grown, Refiled
    <2>4. CASE k # b.storage
      BY <2>4 DEF Grown, Refiled
    <2> QED
      BY <2>3, <2>4
  <1>3. \A i \in 1 .. n : i # n => a.files[i] = b.files[i]
    BY DEF Grown
  <1> SUFFICES ASSUME NEW i \in 1 .. n
               PROVE  /\ a.files[i].starting_time \in Nat
                      /\ \A m \in Range(a.disk[a.files[i].index].messages) :
                            ~m.repeat => a.files[i].starting_time <= m.stamp
    BY <1>1 DEF Started
  <1>4. CASE i = n
    BY <1>1, <1>2, <1>4 DEF Copies
  <1>5. CASE i # n
    BY <1>1, <1>2, <1>3, <1>5 DEF Started
  <1> QED
    BY <1>4, <1>5

(* The next file is of no snapshot. *)
LEMMA SnappedNext ==
  ASSUME NEW f, NEW c, NEW d, NEW D, Listed(f), d \in 0 .. Len(f.files),
         NextFileIs(f, c, d), NextFileCounts(f, c, d), Snapped(f, D),
         c.next_file_index = f.next_file_index + 1
  PROVE  Snapped(c, D) /\ Unfilled(c, D)
  <1> DEFINE l == Len(f.files)
             k == f.next_file_index
  <1>1. l \in Nat /\ d \in Nat /\ d <= l /\ k \in Nat
    BY SequenceFacts DEF Listed
  <1>2. /\ Len(c.files) = l + 1 - d
        /\ \A i \in 1 .. l - d : d + i \in 1 .. l /\ c.files[i] = f.files[d + i]
        /\ c.files[l + 1 - d] = NewFile(k)
        /\ \A j \in DOMAIN c.disk : j # k => j \in DOMAIN f.disk /\ c.disk[j] = f.disk[j]
        /\ c.disk[k].messages = <<>>
    BY DEF NextFileIs, NextFileCounts
  <1>3. \A i \in 1 .. Len(c.files) : c.files[i].index \in DOMAIN c.disk
    BY DEF NextFileIs, Listed
  <1>4. \A j \in D : j \in Nat /\ j < k
    BY DEF Snapped
  <1>5. c.files[l + 1 - d].index = k /\ k \notin D
    BY <1>1, <1>2, <1>4 DEF NewFile
  <1>6. ASSUME NEW i \in 1 .. Len(c.files)
        PROVE  IF c.files[i].index \notin D THEN c.disk[c.files[i].index].messages = <<>>
               ELSE Exact(c.files[i], c.disk[c.files[i].index].messages)
    <2>1. CASE i = l + 1 - d
      BY <1>2, <1>5, <2>1
    <2>2. CASE i # l + 1 - d
      <3>0. l \in Nat /\ d \in Nat /\ i \in 1 .. l + 1 - d
        BY <1>1, <1>2
      <3>1. i \in 1 .. l - d
        <4> HIDE DEF l
        <4> QED
          BY <2>2, <3>0
      <3>2. d + i \in 1 .. l /\ c.files[i] = f.files[d + i]
        BY <1>2, <3>1
      <3>3. f.files[d + i].index # k
        BY <3>2 DEF Listed
      <3>4. c.disk[c.files[i].index] = f.disk[f.files[d + i].index]
        BY <1>2, <1>3, <3>2, <3>3
      <3> QED
        BY <3>2, <3>4 DEF Snapped
    <2> QED
      BY <2>1, <2>2
  <1>7. \A j \in D : j \in Nat /\ j < c.next_file_index
    BY <1>1, <1>4
  <1> QED
    BY <1>2, <1>5, <1>6, <1>7 DEF Snapped, Unfilled

(* The dates of an empty file may change. *)
LEMMA SnappedSpan ==
  ASSUME NEW b, NEW a, NEW D, Listed(b), Grown(b, a, <<>>), Snapped(b, D), Unfilled(b, D)
  PROVE  Snapped(a, D) /\ Unfilled(a, D)
  <1> DEFINE n == Len(b.files)
  <1>1. /\ Len(a.files) = n /\ n \in Nat /\ a.next_file_index = b.next_file_index
        /\ \A i \in 1 .. n : a.files[i].index = b.files[i].index /\ b.files[i].index \in DOMAIN b.disk
        /\ \A k \in DOMAIN b.disk : IsSequence(b.disk[k].messages)
    BY SequenceFacts DEF Grown, Refiled, Listed
  <1>2. \A k \in DOMAIN b.disk : a.disk[k].messages = b.disk[k].messages
    <2> SUFFICES ASSUME NEW k \in DOMAIN b.disk PROVE a.disk[k].messages = b.disk[k].messages
      OBVIOUS
    <2>1. IsSequence(b.disk[k].messages)
      BY <1>1
    <2>2. b.disk[k].messages \o <<>> = b.disk[k].messages
      BY <2>1, EmptyJoined
    <2>3. CASE k = b.storage
      BY <2>2, <2>3 DEF Grown, Refiled
    <2>4. CASE k # b.storage
      BY <2>4 DEF Grown, Refiled
    <2> QED
      BY <2>3, <2>4
  <1>3. \A i \in 1 .. n : i # n => a.files[i] = b.files[i]
    BY DEF Grown
  <1>4. ASSUME NEW i \in 1 .. n
        PROVE  IF a.files[i].index \notin D THEN a.disk[a.files[i].index].messages = <<>>
               ELSE Exact(a.files[i], a.disk[a.files[i].index].messages)
    <2>1. a.files[i].index = b.files[i].index
          /\ a.disk[a.files[i].index].messages = b.disk[b.files[i].index].messages
      BY <1>1, <1>2
    <2>2. CASE i = n
      BY <2>1, <2>2 DEF Snapped, Unfilled
    <2>3. CASE i # n
      BY <1>3, <2>1, <2>3 DEF Snapped
    <2> QED
      BY <2>2, <2>3
  <1>5. Unfilled(a, D)
    BY <1>1 DEF Unfilled
  <1> QED
    BY <1>1, <1>4, <1>5 DEF Snapped

(* A snapshot fills the last file, which was empty. *)
LEMMA SnappedFilled ==
  ASSUME NEW b, NEW f, NEW y, NEW D, Listed(b), b.storage # NoFile, IsSequence(y), Grown(b, f, y),
         Snapped(b, D), Unfilled(b, D),
         y # <<>> => /\ f.files[Len(b.files)].starting_time = Head(y).stamp
                     /\ f.files[Len(b.files)].duration = Last(y).stamp - Head(y).stamp,
         \A m \in Range(y) : m.stamp \in Nat
  PROVE  Snapped(f, D \cup {b.storage})
  <1> DEFINE n == Len(b.files)
             E == D \cup {b.storage}
  <1>1. /\ Len(f.files) = n /\ n \in Nat /\ f.next_file_index = b.next_file_index
        /\ \A i \in 1 .. n : /\ f.files[i].index = b.files[i].index /\ b.files[i].index \in DOMAIN b.disk
                             /\ b.files[i].index \in Nat /\ b.files[i].index < b.next_file_index
        /\ \A k \in DOMAIN b.disk : IsSequence(b.disk[k].messages)
    BY SequenceFacts DEF Grown, Refiled, Listed
  <1>2. \A i \in 1 .. n : i # n => f.files[i] = b.files[i]
    BY DEF Grown
  <1>3. n \in 1 .. n /\ b.storage = b.files[n].index /\ b.storage \in DOMAIN b.disk
    BY StorageIsLast DEF Listed
  <1>4. \A k \in E : k \in Nat /\ k < f.next_file_index
    <2>1. \A k \in D : k \in Nat /\ k < b.next_file_index
      BY DEF Snapped
    <2>2. b.storage \in Nat /\ b.storage < b.next_file_index
      BY <1>1, <1>3
    <2> QED
      BY <1>1, <2>1, <2>2
  <1>5. b.disk[b.storage].messages = <<>>
    BY <1>3 DEF Snapped, Unfilled
  <1>6. f.disk[b.storage].messages = y
    <2>1. f.disk[b.storage].messages = <<>> \o y
      BY <1>3, <1>5 DEF Grown, Refiled
    <2> QED
      BY <2>1, EmptyJoined
  <1>7. Exact(f.files[n], y)
    <2>1. CASE y = <<>>
      BY <2>1 DEF Exact
    <2>2. CASE y # <<>>
      <3>1. Len(y) \in Nat /\ Len(y) > 0 /\ Range(y) = {y[i] : i \in 1 .. Len(y)}
        BY <2>2, SequenceFacts
      <3>2. 1 \in 1 .. Len(y) /\ Len(y) \in 1 .. Len(y)
        BY <3>1
      <3>3. y[1].stamp \in Nat /\ y[Len(y)].stamp \in Nat
        BY <3>1, <3>2
      <3>4. Head(y) = y[1] /\ Last(y) = y[Len(y)]
        <4>1. y \in Seq(Range(y))
          BY DEF IsSequence
        <4>2. Head(y) = y[1]
          BY <2>2, <4>1, HeadTailProperties
        <4> QED
          BY <4>2 DEF Last
      <3> QED
        BY <2>2, <3>3, <3>4 DEF Exact
    <2> QED
      BY <2>1, <2>2
  <1>8. ASSUME NEW i \in 1 .. n
        PROVE  IF f.files[i].index \notin E THEN f.disk[f.files[i].index].messages = <<>>
               ELSE Exact(f.files[i], f.disk[f.files[i].index].messages)
    <2>1. CASE i = n
      BY <1>1, <1>3, <1>6, <1>7, <2>1
    <2>2. CASE i # n
      <3>1. b.files[i].index # b.storage
        <4>1. i < n
          BY <1>1, <2>2
        <4>2. b.files[i].index < b.files[n].index
          BY <1>3, <4>1 DEF Listed
        <4> QED
          BY <1>1, <1>3, <4>2
      <3>2. f.disk[b.files[i].index].messages = b.disk[b.files[i].index].messages
        BY <1>1, <3>1 DEF Grown, Refiled
      <3>3. f.files[i] = b.files[i]
        BY <1>2, <2>2
      <3> QED
        BY <3>1, <3>2, <3>3 DEF Snapped
    <2> QED
      BY <2>1, <2>2
  <1> QED
    BY <1>1, <1>4, <1>8 DEF Snapped

-----------------------------------------------------------------------------
(* What happens to the totals. *)

(* From b to a, g(t) more are counted on a topic t in the last file. *)
Tallied(b, a, g) ==
    /\ Len(a.files) = Len(b.files)
    /\ \A i \in 1 .. Len(b.files) :
          /\ i # Len(b.files) => a.per_file[i] = b.per_file[i]
          /\ i = Len(b.files) => \A t \in Topics : a.per_file[i][t] = b.per_file[i][t] + g[t]
    /\ DOMAIN a.topics = DOMAIN b.topics
    /\ \A t \in DOMAIN b.topics : a.topics[t] = b.topics[t] + g[t]
    /\ Len(b.files) = 0 => \A t \in Topics : g[t] = 0

(* What is counted in the last file is counted in all. *)
LEMMA TalliedTotals ==
  ASSUME NEW b, NEW a, NEW g, Detailed(b), Detailed(a), Tallied(b, a, g), \A t \in Topics : g[t] \in Nat
  PROVE  /\ Totalled(b) => Totalled(a)
         /\ \A t \in Topics : SumOver(b.per_file, t) <= SumOver(a.per_file, t)
  <1> DEFINE n == Len(b.files)
  <1>1. /\ DOMAIN a.topics = DOMAIN b.topics /\ DOMAIN b.topics \subseteq Topics
        /\ Len(a.files) = n
    BY DEF Tallied, Detailed
  <1>3. ASSUME NEW t \in Topics
        PROVE  /\ SumOver(b.per_file, t) \in Nat
               /\ SumOver(a.per_file, t) = SumOver(b.per_file, t) + g[t]
               /\ g[t] \in Nat
    <2> DEFINE p == b.per_file
               q == a.per_file
    <2>1. Measured(p, n, t) /\ SumOver(p, t) \in Nat /\ n \in Nat
      BY SumOverFields
    <2>2. Measured(q, n, t)
      BY <1>1, SumOverFields
    <2>3. /\ \A i \in 1 .. n : i # n => q[i] = p[i]
          /\ \A i \in 1 .. n : i = n => q[i][t] = p[i][t] + g[t]
          /\ n = 0 => g[t] = 0
      BY DEF Tallied
    <2>4. g[t] \in Nat
      OBVIOUS
    <2> HIDE DEF p, q, n
    <2>5. CASE n = 0
      <3>1. SumOver(p, t) = 0 /\ SumOver(q, t) = 0
        BY <2>1, <2>2, <2>5, SumOverEmpty
      <3> QED
        BY <2>3, <2>4, <2>5, <3>1 DEF p, q
    <2>6. CASE n # 0
      <3> DEFINE k == n - 1
                 e == FirstOf(p, k)
      <3>1. k \in Nat /\ k + 1 = n
        BY <2>1, <2>6
      <3>2. Measured(p, k + 1, t) /\ Measured(q, k + 1, t)
        BY <2>1, <2>2, <3>1
      <3> HIDE DEF k
      <3>3. /\ Measured(e, k, t) /\ OneMore(e, k, p) /\ SumOver(e, t) \in Int
            /\ SumOver(p, t) = SumOver(e, t) + p[k + 1][t]
            /\ p[k + 1][t] \in Int
        BY <3>1, <3>2, FirstMeasured
      <3>4. OneMore(e, k, q)
        <4>1. \A i \in 1 .. k : i \in 1 .. n /\ i # n
          BY <2>1, <3>1
        <4> QED
          BY <2>3, <3>3, <4>1 DEF OneMore
      <3> HIDE DEF e
      <3>5. SumOver(q, t) = SumOver(e, t) + q[k + 1][t]
        BY <3>1, <3>2, <3>3, <3>4, SumOverAppend
      <3>6. n \in 1 .. n
        BY <2>1, <2>6
      <3>7. q[n][t] = p[n][t] + g[t]
        BY <2>3, <3>6
      <3>8. SumOver(q, t) = SumOver(p, t) + g[t]
        BY <2>4, <3>1, <3>3, <3>5, <3>7
      <3> QED
        BY <2>1, <2>4, <3>8 DEF p, q
    <2> QED
      BY <2>5, <2>6
  <1>4. Totalled(b) => Totalled(a)
    <2>1. \A t \in DOMAIN b.topics : a.topics[t] = b.topics[t] + g[t]
      BY DEF Tallied
    <2> QED
      BY <1>1, <1>3, <2>1 DEF Totalled
  <1>5. \A t \in Topics : SumOver(b.per_file, t) <= SumOver(a.per_file, t)
    BY <1>3
  <1> QED
    BY <1>4, <1>5

(* So is what is written. *)
LEMMA TotalledGrown ==
  ASSUME NEW b, NEW a, NEW x, Listed(b), Detailed(b), IsSequence(x), x = <<>> \/ b.storage # NoFile,
         Grown(b, a, x)
  PROVE  /\ Totalled(b) => Totalled(a)
         /\ \A t \in Topics : SumOver(b.per_file, t) <= SumOver(a.per_file, t)
  <1> DEFINE g == [t \in Topics |-> Count(x, t)]
  <1>1. \A t \in Topics : g[t] = Count(x, t) /\ g[t] \in Nat
    BY CountFacts
  <1> HIDE DEF g
  <1>2. Detailed(a) /\ Len(a.files) = Len(b.files)
    BY GrownCounts DEF Grown, Refiled
  <1>3. Len(b.files) = 0 => \A t \in Topics : g[t] = 0
    <2>1. Len(b.files) = 0 => x = <<>>
      BY DEF Listed
    <2> QED
      BY <1>1, <2>1, CountFacts
  <1>4. \A i \in 1 .. Len(b.files) :
          /\ i # Len(b.files) => a.per_file[i] = b.per_file[i]
          /\ i = Len(b.files) => \A t \in Topics : a.per_file[i][t] = b.per_file[i][t] + g[t]
    <2> SUFFICES ASSUME NEW i \in 1 .. Len(b.files)
                 PROVE  /\ i # Len(b.files) => a.per_file[i] = b.per_file[i]
                        /\ i = Len(b.files) => \A t \in Topics : a.per_file[i][t] = b.per_file[i][t] + g[t]
      OBVIOUS
    <2>1. /\ i # Len(b.files) => a.per_file[i] = b.per_file[i]
          /\ i = Len(b.files) => a.per_file[i] = [t \in Topics |-> b.per_file[i][t] + Count(x, t)]
      BY DEF Grown
    <2> QED
      BY <1>1, <2>1
  <1>5. DOMAIN a.topics = DOMAIN b.topics /\ \A t \in DOMAIN b.topics : a.topics[t] = b.topics[t] + g[t]
    BY <1>1 DEF Grown, Detailed
  <1>6. Tallied(b, a, g)
    BY <1>2, <1>3, <1>4, <1>5 DEF Tallied
  <1> QED
    BY <1>1, <1>2, <1>6, TalliedTotals

(* And what the consumer had stored and not counted. *)
LEMMA WrittenTotals ==
  ASSUME IInv, CountInv
  PROVE  Totalled(bag) => Totalled(Written)
  <1> DEFINE g == [t \in Topics |-> Late(t)]
  <1>1. \A t \in Topics : g[t] = Late(t) /\ g[t] \in Nat
    BY WrittenCounts
  <1> HIDE DEF g
  <1>2. Detailed(bag) /\ Detailed(Written) /\ Known \subseteq Topics
    BY WrittenCounts DEF CountInv, LatchInv
  <1>3. /\ Len(Written.files) = Len(bag.files)
        /\ \A i \in 1 .. Len(bag.files) :
              /\ i # Len(bag.files) => Written.per_file[i] = bag.per_file[i]
              /\ i = Len(bag.files) => \A t \in Topics : Written.per_file[i][t] = bag.per_file[i][t] + g[t]
        /\ DOMAIN Written.topics = DOMAIN bag.topics
        /\ \A t \in DOMAIN bag.topics : Written.topics[t] = bag.topics[t] + g[t]
        /\ Len(bag.files) = 0 => \A t \in Topics : g[t] = 0
    BY <1>1, <1>2, WrittenCounts
  <1>4. Tallied(bag, Written, g)
    BY <1>3 DEF Tallied
  <1> QED
    BY <1>1, <1>2, <1>4, TalliedTotals

(* Counting changes no dates. *)
LEMMA WrittenDates ==
  ASSUME IInv, CountInv
  PROVE  /\ \A Q : Started(Written, Q) <=> Started(bag, Q)
         /\ \A D : Snapped(Written, D) <=> Snapped(bag, D)
         /\ \A D : Unfilled(Written, D) <=> Unfilled(bag, D)
  BY WrittenCounts DEF Started, Snapped, Unfilled

(* What the deleted files had is no longer counted, nor is it subtracted twice. *)
LEMMA TotalledNext ==
  ASSUME NEW f, NEW c, NEW d, Detailed(f), NextFileCounts(f, c, d), Totalled(f),
         \A t \in Topics : SumOver(c.per_file, t) < CountModulus
  PROVE  Totalled(c)
  <1> SUFFICES ASSUME NEW t \in DOMAIN c.topics PROVE c.topics[t] = SumOver(c.per_file, t)
    BY DEF Totalled
  <1>1. t \in DOMAIN f.topics /\ t \in Topics /\ Detailed(c)
    BY DEF NextFileCounts, Detailed
  <1>2. PICK older \in Nat : /\ c.topics[t] = (f.topics[t] - older) % CountModulus
                             /\ SumOver(f.per_file, t) = older + SumOver(c.per_file, t)
    BY <1>1 DEF NextFileCounts
  <1> DEFINE s == SumOver(c.per_file, t)
  <1>3. s \in Nat /\ s < CountModulus /\ CountModulus \in Nat \ {0}
    BY <1>1, SumOverFields, WriterAssumption
  <1>4. f.topics[t] = older + s
    BY <1>1, <1>2 DEF Totalled
  <1> HIDE DEF s
  <1>5. f.topics[t] - older = s
    BY <1>2, <1>3, <1>4
  <1>6. s \in 0 .. CountModulus - 1
    BY <1>3
  <1>7. s % CountModulus = s
    BY <1>3, <1>6
  <1> QED
    BY <1>2, <1>5, <1>7 DEF s

-----------------------------------------------------------------------------
(* Flushing and rolling over. *)

Keeping == CountInv' /\ DateInv' /\ (TotalInv /\ Fits' => TotalInv')

(* The two names of a sum. *)
LEMMA TotalsAreSums ==
  ASSUME NEW counts, NEW t
  PROVE  TotalOf(counts, t) = SumOver(counts, t)
  BY DEF TotalOf, SumOver

(* The sums of Fits. *)
LEMMA FitsFacts ==
  ASSUME Fits'
  PROVE  /\ \A t \in Topics : SumOver(bag'.per_file, t) < CountModulus
         /\ SumOver(bag'.files, "message_count") < CountModulus
  <1>1. \A t \in Topics : TotalOf(bag'.per_file, t) < CountModulus
    BY DEF Fits
  <1>2. TotalOf(bag'.files, "message_count") < CountModulus
    BY DEF Fits
  <1> QED
    BY <1>1, <1>2, TotalsAreSums

(* Dates and totals of the bag with what the consumer had to write. *)
LEMMA FlushDates ==
  ASSUME IInv, CountInv, DateInv, Registered(bag, Pending), NEW losses
  PROVE  LET f == AddToFile(Written, Kept(Pending, losses)) IN
         /\ options.mode # "snapshot" => Started(f, Range(Todo))
         /\ options.mode = "snapshot" => f = Written
         /\ Totalled(bag) => Totalled(f)
  <1> DEFINE y == Kept(Pending, losses)
             f == AddToFile(Written, y)
             n == Len(bag.files)
  <1>1. /\ IsSequence(y) /\ (y = <<>> \/ bag.storage # NoFile)
        /\ Grown(Written, f, y)
        /\ \A i \in 1 .. Len(bag.files) : f.files[i].starting_time = bag.files[i].starting_time
    BY FlushCounts
  <1>2. /\ Listed(Written) /\ Detailed(Written) /\ Written.storage = bag.storage /\ Written.files = bag.files
        /\ \A m \in Stored(Written) \cup Range(Todo) : m.stamp \in Nat
    BY WrittenCounts DEF CountInv, Proper
  <1>3. Totalled(bag) => Totalled(f)
    <2> HIDE DEF y, f
    <2> QED
      BY <1>1, <1>2, TotalledGrown, WrittenTotals
  <1>4. CASE options.mode = "snapshot"
    <2>1. Pending = <<>>
      BY <1>4 DEF Pending
    <2>2. y = <<>>
      BY <2>1, EmptySequence, KeptFacts
    <2>3. f = Written
      BY <2>2, NothingAdded
    <2> QED
      BY <1>3, <1>4, <2>3
  <1>5. CASE options.mode # "snapshot"
    <2>1. Started(Written, Range(Todo)) /\ Started(bag, Range(Todo))
      BY <1>5, WrittenDates DEF DateInv
    <2>2. \A m \in Range(y) : m \in Range(Todo)
      <3>1. IsSequence(Pending) /\ (Pending = <<>> \/ Pending = Todo)
        BY Flushing
      <3>2. Range(y) \subseteq Range(Pending)
        BY <3>1, KeptFacts
      <3> QED
        BY <3>1, <3>2, EmptySequence
    <2>3. \A i \in 1 .. n : i = n =>
            f.files[i].starting_time \in Nat /\ f.files[i].starting_time <= bag.files[i].starting_time
      <3> SUFFICES ASSUME NEW i \in 1 .. n
                   PROVE  f.files[i].starting_time \in Nat /\ f.files[i].starting_time <= bag.files[i].starting_time
        OBVIOUS
      <3>1. f.files[i].starting_time = bag.files[i].starting_time
        BY <1>1
      <3>2. bag.files[i].starting_time \in Nat
        BY <2>1 DEF Started
      <3> HIDE DEF f
      <3> QED
        BY <3>1, <3>2
    <2> HIDE DEF y, f
    <2>4. Started(f, Range(Todo))
      BY <1>1, <1>2, <2>1, <2>2, <2>3, StartedGrown
    <2> QED
      BY <1>3, <1>5, <2>4 DEF f, y
  <1> QED
    BY <1>4, <1>5

(* Dates and totals of the bag with the next file. *)
LEMMA RollDates ==
  ASSUME Latches(transient), LatchInv, last_recv \in Nat, options \in Configurations,
         NEW f, Listed(f), Detailed(f), Counted(f, <<>>, missed), DOMAIN f.topics = Known,
         \A m \in Stored(f) : Proper(m),
         NEW losses, NEW d \in 0 .. Len(f.files), NEW Q, NEW D
  PROVE  LET a == Rolled(f, losses, d)
             n == Len(a.files)
         IN  /\ options.mode # "snapshot" /\ Started(f, Q) =>
                  /\ Started(a, {})
                  /\ Copies(a.disk[a.files[n].index].messages)
             /\ options.mode = "snapshot" /\ Snapped(f, D) => Snapped(a, D) /\ Unfilled(a, D)
             /\ Totalled(f) /\ (\A t \in Topics : SumOver(a.per_file, t) < CountModulus) => Totalled(a)
             /\ a.files[n].starting_time \in Nat
             /\ a.next_file_index = f.next_file_index + 1
  <1> DEFINE c == NextFile(f, d)
             h == Kept(Heads, losses)
             a == Rolled(f, losses, d)
             n == Len(a.files)
             k == f.next_file_index
  <1>1. /\ NextFileIs(f, c, d) /\ NextFileCounts(f, c, d) /\ Listed(c)
        /\ IsSequence(h)
        /\ Grown(c, a, h)
        /\ Listed(a) /\ Detailed(a)
        /\ \A m \in Stored(a) : Proper(m)
        /\ a.storage = f.next_file_index /\ c.storage # NoFile
        /\ Len(c.files) = n /\ n > 0
        /\ a.files[n].starting_time \in {NoTime, Least(NoTime, last_recv)}
    BY RollCounts
  <1>2. NoTime \in Nat
    BY NoTimeIsLate
  <1>3. a.files[n].starting_time \in Nat /\ a.files[n].starting_time <= NoTime
    <2>1. Least(NoTime, last_recv) \in Nat /\ Least(NoTime, last_recv) <= NoTime
      BY <1>2 DEF Least
    <2> HIDE DEF a, n
    <2> QED
      BY <1>1, <1>2, <2>1
  <1>4. c.next_file_index = k + 1
    <2>1. DOMAIN f = Fields
      BY DEF Listed
    <2> QED
      BY <2>1 DEF NextFile, DropOldest, Fields
  <1>5. a.next_file_index = k + 1
    <2>1. a.next_file_index = c.next_file_index
      BY <1>1 DEF Grown, Refiled
    <2> QED
      BY <1>4, <2>1
  <1>6. Copies(h)
    <2>1. IsSequence(Heads) /\ Copies(Heads)
      BY HeadsAreCopies
    <2>2. Range(h) \subseteq Range(Heads)
      BY <2>1, KeptFacts
    <2> QED
      BY <2>1, <2>2 DEF Copies
  <1>7. n \in Nat /\ n \in 1 .. n
    <2>1. n \in Nat
      BY <1>1, SequenceFacts DEF Listed
    <2> HIDE DEF n
    <2> QED
      BY <1>1, <2>1
  <1>8. c.files[n].starting_time = NoTime /\ c.files[n].index = k /\ c.disk[k].messages = <<>> /\ k \in DOMAIN c.disk
        /\ c.storage = k
    <2>1. c.files[Len(f.files) + 1 - d] = NewFile(k) /\ Len(c.files) = Len(f.files) + 1 - d
      BY <1>1 DEF NextFileCounts
    <2>2. c.files[n] = NewFile(k)
      BY <1>1, <2>1
    <2>3. c.disk[k].messages = <<>> /\ k \in DOMAIN c.disk /\ c.storage = k
      BY <1>1 DEF NextFileIs
    <2> QED
      BY <2>2, <2>3 DEF NewFile
  <1>9. Copies(a.disk[a.files[n].index].messages)
    <2>1. a.files[n].index = k
      BY <1>1, <1>7, <1>8 DEF Grown, Refiled
    <2>2. a.disk[k].messages = <<>> \o h
      BY <1>1, <1>8 DEF Grown, Refiled
    <2>3. a.disk[k].messages = h
      BY <1>1, <2>2, EmptyJoined
    <2> QED
      BY <1>6, <2>1, <2>3
  <1> HIDE DEF c, a, h, n
  <1>10. ASSUME Started(f, Q)
         PROVE  Started(a, {})
    <2>1. Started(c, {})
      BY <1>1, <1>2, <1>10, StartedNext
    <2>2. \A i \in 1 .. Len(c.files) : i = Len(c.files) =>
            a.files[i].starting_time \in Nat /\ a.files[i].starting_time <= c.files[i].starting_time
      BY <1>1, <1>3, <1>8
    <2>3. \A m \in Range(h) : ~m.repeat => m \in {}
      BY <1>6 DEF Copies
    <2>4. \A m \in Stored(c) \cup {} : m.stamp \in Nat
      <3>1. Stored(a) = Stored(c) \cup Range(h)
        BY <1>1, RefiledStored DEF Grown
      <3> QED
        BY <1>1, <3>1 DEF Proper
    <2> QED
      BY <1>1, <2>1, <2>2, <2>3, <2>4, StartedGrown
  <1>11. ASSUME options.mode = "snapshot", Snapped(f, D)
         PROVE  Snapped(a, D) /\ Unfilled(a, D)
    <2>1. Snapped(c, D) /\ Unfilled(c, D)
      BY <1>1, <1>4, <1>11, SnappedNext
    <2>2. Heads = <<>>
      BY <1>11 DEF Heads
    <2>3. a = c
      BY <2>2 DEF a, c, Rolled, Prepend
    <2> QED
      BY <2>1, <2>3
  <1>12. ASSUME Totalled(f), \A t \in Topics : SumOver(a.per_file, t) < CountModulus
         PROVE  Totalled(a)
    <2>1. Detailed(c)
      BY <1>1 DEF NextFileCounts
    <2>2. /\ Totalled(c) => Totalled(a)
          /\ \A t \in Topics : SumOver(c.per_file, t) <= SumOver(a.per_file, t)
      BY <1>1, <2>1, TotalledGrown
    <2>3. ASSUME NEW t \in Topics
          PROVE  SumOver(c.per_file, t) < CountModulus
      <3>1. SumOver(c.per_file, t) \in Nat /\ SumOver(a.per_file, t) \in Nat /\ CountModulus \in Nat
        BY <1>1, <2>1, SumOverFields, WriterAssumption
      <3> QED
        BY <1>12, <2>2, <3>1
    <2>4. Totalled(c)
      BY <1>1, <1>12, <2>3, TotalledNext
    <2> QED
      BY <2>2, <2>4
  <1> QED
    BY <1>3, <1>5, <1>9, <1>10, <1>11, <1>12 DEF a, n

-----------------------------------------------------------------------------
(* write(). *)

(* The topics written to. *)
LEMMA LoggedNow ==
  ASSUME IsSequence(log), NEW t, NEW stamp, log' = Append(log, [topic |-> t, stamp |-> stamp])
  PROVE  /\ Logged' = Logged \cup {t} /\ Len(log') = Len(log) + 1 /\ Len(log) \in Nat
         /\ \A m : Proper(m) => m.stamp \in Nat /\ m.topic \in Logged'
  <1> DEFINE e == [topic |-> t, stamp |-> stamp]
  <1>1. Len(log) \in Nat
    BY SequenceFacts
  <1>2. /\ Len(log') = Len(log) + 1
        /\ \A i \in 1 .. Len(log) : log'[i] = log[i]
        /\ log'[Len(log) + 1] = e
    BY AppendFacts
  <1>3. e.topic = t
    OBVIOUS
  <1> HIDE DEF e
  <1>4. \A i \in 1 .. Len(log) + 1 : i \in 1 .. Len(log) \/ i = Len(log) + 1
    BY <1>1
  <1>5. \A i \in 1 .. Len(log) : i \in 1 .. Len(log) + 1
    BY <1>1
  <1>6. Len(log) + 1 \in 1 .. Len(log) + 1
    BY <1>1
  <1>7. Logged' = {log'[i].topic : i \in 1 .. Len(log) + 1}
    BY <1>2 DEF Logged
  <1>8. Logged' = Logged \cup {t}
    BY <1>2, <1>3, <1>4, <1>5, <1>6, <1>7 DEF Logged
  <1>9. \A m : Proper(m) => m.stamp \in Nat /\ m.topic \in Logged'
    BY <1>8 DEF Proper
  <1> QED
    BY <1>1, <1>2, <1>8, <1>9

(* A queue with one message more than it had, or fewer. *)
LEMMA PushOwn ==
  ASSUME Latches(transient), LatchInv, IsSequence(log), NEW m, m.id = Len(log) + 1, m.stamp \in Nat,
         log' = Append(log, [topic |-> m.topic, stamp |-> m.stamp]),
         transient' = IF m.topic \in DOMAIN transient
                      THEN PushLatched(transient, m.topic, m) ELSE transient
  PROVE  DOMAIN transient' = DOMAIN transient /\ \A t \in DOMAIN transient : Own(transient[t].messages, t)'
  <1>1. /\ Logged' = Logged \cup {m.topic} /\ Len(log') = Len(log) + 1 /\ Len(log) \in Nat
        /\ \A x : Proper(x) => x.stamp \in Nat /\ x.topic \in Logged'
    BY LoggedNow
  <1>2. m.stamp \in Nat /\ m.topic \in Logged'
    BY <1>1 DEF Proper
  <1>3. DOMAIN transient' = DOMAIN transient
    BY DEF PushLatched
  <1> SUFFICES ASSUME NEW t \in DOMAIN transient PROVE Own(transient[t].messages, t)'
    BY <1>3
  <1> DEFINE s == transient[t].messages
  <1>4. IsSequence(s) /\ transient[t].max_depth \in Nat /\ {"max_depth", "messages"} \subseteq DOMAIN transient[t]
    BY DEF Latches
  <1>5. /\ \A i \in 1 .. Len(s) : Proper(s[i]) /\ s[i].topic = t /\ s[i].id \in 1 .. Len(log)
        /\ \A i, j \in 1 .. Len(s) : i < j => s[i].id < s[j].id
    BY DEF LatchInv, Own
  <1>6. \A k \in 1 .. Len(log) : k \in 1 .. Len(log')
    BY <1>1
  <1>7. CASE t = m.topic
    <2> DEFINE u == Append(s, m)
               r == Newest(u, transient[t].max_depth)
    <2>1. transient'[t].messages = r
      BY <1>4, <1>7 DEF PushLatched
    <2>2. /\ IsSequence(u) /\ Len(u) = Len(s) + 1
          /\ \A i \in 1 .. Len(s) : u[i] = s[i]
          /\ u[Len(s) + 1] = m
      BY <1>4, AppendFacts
    <2>3. Len(s) \in Nat
      BY <1>4, SequenceFacts
    <2> HIDE DEF u, s
    <2>4. \A i \in 1 .. Len(u) : i \in 1 .. Len(s) \/ i = Len(s) + 1
      BY <2>2, <2>3
    <2>5. ASSUME NEW i \in 1 .. Len(u)
          PROVE  u[i].stamp \in Nat /\ u[i].topic \in Logged' /\ u[i].topic = t /\ u[i].id \in 1 .. Len(log')
      <3>1. CASE i \in 1 .. Len(s)
        BY <1>1, <1>5, <1>6, <2>2, <3>1
      <3>2. CASE i = Len(s) + 1
        <4>1. m.id \in 1 .. Len(log')
          BY <1>1
        <4> QED
          BY <1>2, <1>7, <2>2, <3>2, <4>1
      <3> QED
        BY <2>4, <3>1, <3>2
    <2>6. ASSUME NEW i \in 1 .. Len(u), NEW j \in 1 .. Len(u), i < j
          PROVE  u[i].id < u[j].id
      <3>1. i \in 1 .. Len(s)
        BY <2>2, <2>3, <2>6
      <3>2. CASE j \in 1 .. Len(s)
        BY <1>5, <2>2, <2>6, <3>1, <3>2
      <3>3. CASE j = Len(s) + 1
        <4>1. s[i].id \in 1 .. Len(log) /\ u[i] = s[i] /\ u[j] = m
          BY <1>5, <2>2, <3>1, <3>3
        <4> QED
          BY <1>1, <4>1
      <3> QED
        BY <2>4, <3>2, <3>3
    <2>7. PICK p \in 1 .. Len(u) + 1 : r = SubSeq(u, p, Len(u))
      BY <1>4, <2>2, NewestFacts
    <2> HIDE DEF r
    <2>8. /\ IsSequence(r) /\ Len(r) = Len(u) - p + 1
          /\ \A i \in 1 .. Len(r) : p + i - 1 \in 1 .. Len(u) /\ r[i] = u[p + i - 1]
      BY <2>2, <2>7, RestOf
    <2>9. \A i \in 1 .. Len(r) : r[i].stamp \in Nat /\ r[i].topic \in Logged' /\ r[i].topic = t /\ r[i].id \in 1 .. Len(log')
      BY <2>5, <2>8
    <2>10. ASSUME NEW i \in 1 .. Len(r), NEW j \in 1 .. Len(r), i < j
           PROVE  r[i].id < r[j].id
      <3>1. p \in Nat /\ i \in Nat /\ j \in Nat
        BY <2>2, <2>3, <2>8
      <3>2. p + i - 1 < p + j - 1
        BY <2>10, <3>1
      <3> QED
        BY <2>6, <2>8, <3>2
    <2> QED
      BY <2>1, <2>9, <2>10 DEF Own, Proper
  <1>8. CASE t # m.topic
    <2>1. transient'[t] = transient[t]
      BY <1>8 DEF PushLatched
    <2>2. \A i \in 1 .. Len(s) : s[i].stamp \in Nat /\ s[i].topic \in Logged' /\ s[i].topic = t /\ s[i].id \in 1 .. Len(log')
      BY <1>1, <1>5, <1>6
    <2>3. transient'[t].messages = s
      BY <2>1
    <2> HIDE DEF s
    <2> QED
      BY <1>5, <2>2, <2>3 DEF Own, Proper
  <1> QED
    BY <1>7, <1>8

(* What write() leaves once the message is counted and queued or written. *)
Recorded(b, w, queued, m, D) ==
    /\ last_recv' \in Nat
    /\ Detailed(bag') /\ Counted(bag', uncounted', missed')
    /\ \A x \in Stored(bag') \cup Range(w) \cup Range(cache') : x.stamp \in Nat /\ x.topic \in Logged'
    /\ LatchInv'
    /\ Known' = Known /\ Logged' = Logged \cup {m.topic}
    /\ options.mode # "snapshot" /\ Started(b, Range(w) \cup Range(queued))
       => Started(bag', Range(w) \cup Range(cache'))
    /\ options.mode = "snapshot" /\ Snapped(b, D) /\ Unfilled(b, D) => Snapped(bag', D) /\ Unfilled(bag', D)
    /\ Totalled(b) => Totalled(bag')
    /\ \A t \in Topics : SumOver(b.per_file, t) <= SumOver(bag'.per_file, t)

(* From the spans on, write() keeps counts, dates and totals. *)
LEMMA Recording ==
  ASSUME options \in Configurations, IsSequence(log), Latches(transient), LatchInv,
         NEW b, NEW w, NEW queued, NEW m, NEW losses, NEW D,
         Listed(b), Detailed(b), Counted(b, uncounted', missed'), DOMAIN b.topics = Known, Len(b.files) > 0,
         \A x \in Stored(b) \cup Range(w) \cup Range(queued) : Proper(x),
         IsSequence(w), IsSequence(queued), Len(queued) \in Nat,
         options.mode = "direct" => b.storage # NoFile,
         m.stamp \in Nat, m.topic \in Known, m.id = Len(log) + 1,
         Store(b, m, queued, losses)
  PROVE  Recorded(b, w, queued, m, D)
  <1> DEFINE n == Len(b.files)
             c == Span(b, m.stamp)
             x == IF options.mode = "direct" THEN <<m>> ELSE <<>>
             y == Kept(x, losses)
             Q == Range(w) \cup Range(queued)
  <1>1. /\ bag' = AddToFile(c, y)
        /\ cache' \in {queued, Append(queued, m), Newest(Append(queued, m), options.max_cache_size)}
        /\ transient' = IF m.topic \in DOMAIN transient
                        THEN PushLatched(transient, m.topic, m) ELSE transient
        /\ log' = Append(log, [topic |-> m.topic, stamp |-> m.stamp])
        /\ last_recv' = m.stamp
    BY DEF Store
  <1>2. /\ Logged' = Logged \cup {m.topic} /\ Len(log') = Len(log) + 1 /\ Len(log) \in Nat
        /\ \A z : Proper(z) => z.stamp \in Nat /\ z.topic \in Logged'
    BY <1>1, LoggedNow
  <1>3. Grown(b, c, <<>>) /\ c.files[n].starting_time = Least(b.files[n].starting_time, m.stamp)
    BY SpanGrows
  <1> HIDE DEF c
  <1>4. IsSequence(<<>>) /\ Range(<<>>) = {}
    BY EmptySequence
  <1>5. Listed(c) /\ Detailed(c) /\ Counted(c, uncounted', missed') /\ Stored(c) = Stored(b)
    <2>1. Stored(c) = Stored(b) \cup Range(<<>>)
      BY <1>3, <1>4, RefiledStored DEF Grown
    <2> QED
      BY <1>3, <1>4, <2>1, GrownCounts
  <1>6. c.storage = b.storage /\ Len(c.files) = n /\ DOMAIN c.topics = Known
    BY <1>3 DEF Grown, Refiled
  <1>7. /\ IsSequence(y) /\ Range(y) \subseteq {m}
        /\ y = <<>> \/ c.storage # NoFile
        /\ options.mode # "direct" => y = <<>>
    <2>1. IsSequence(x) /\ Range(x) \subseteq {m}
      BY <1>4, OneOnly
    <2>2. IsSequence(y) /\ Range(y) \subseteq Range(x) /\ (x = <<>> => y = <<>>)
      BY <2>1, KeptFacts
    <2> HIDE DEF y
    <2> QED
      BY <1>6, <2>1, <2>2
  <1> HIDE DEF y
  <1>8. OnTopics(y, DOMAIN c.topics)
    BY <1>6, <1>7 DEF OnTopics
  <1>9. /\ Grown(c, bag', y)
        /\ \A i \in 1 .. Len(c.files) : bag'.files[i].starting_time = c.files[i].starting_time
    BY <1>1, <1>5, <1>7, <1>8, AddToFileGrows
  <1>10. Detailed(bag') /\ Counted(bag', uncounted', missed')
    BY <1>5, <1>7, <1>9, GrownCounts
  <1>11. Stored(bag') = Stored(b) \cup Range(y)
    BY <1>5, <1>7, <1>9, RefiledStored DEF Grown
  <1>12. Range(cache') \subseteq Range(queued) \cup {m}
    <2>1. IsSequence(Append(queued, m)) /\ Range(Append(queued, m)) = Range(queued) \cup {m}
      BY AppendFacts
    <2>2. options.max_cache_size \in Nat
      BY OptionFacts
    <2>3. PICK p \in 1 .. Len(Append(queued, m)) + 1 :
             Newest(Append(queued, m), options.max_cache_size) = SubSeq(Append(queued, m), p, Len(Append(queued, m)))
      BY <2>1, <2>2, NewestFacts
    <2>4. Range(Newest(Append(queued, m), options.max_cache_size)) \subseteq Range(Append(queued, m))
      BY <2>1, <2>3, RestOf
    <2> QED
      BY <1>1, <2>1, <2>4
  <1>13. \A z \in Stored(bag') \cup Range(w) \cup Range(cache') : z.stamp \in Nat /\ z.topic \in Logged'
    <2>1. m.stamp \in Nat /\ m.topic \in Logged'
      BY <1>2
    <2> QED
      BY <1>2, <1>7, <1>11, <1>12, <2>1
  <1>14. Known' = Known
    BY <1>6, <1>9 DEF Known, Grown
  <1>15. LatchInv'
    <2>1. DOMAIN transient' = DOMAIN transient /\ \A t \in DOMAIN transient : Own(transient[t].messages, t)'
      BY <1>1, PushOwn
    <2> QED
      BY <1>14, <2>1 DEF LatchInv
  <1>16. ASSUME options.mode # "snapshot", Started(b, Q)
         PROVE  Started(bag', Range(w) \cup Range(cache'))
    <2>1. n \in Nat /\ n \in 1 .. n
      <3>1. n \in Nat
        BY SequenceFacts DEF Listed
      <3> QED
        BY <3>1
    <2>2. b.files[n].starting_time \in Nat
      BY <1>16, <2>1 DEF Started
    <2>3. /\ c.files[n].starting_time \in Nat /\ c.files[n].starting_time <= b.files[n].starting_time
          /\ c.files[n].starting_time <= m.stamp
      BY <1>3, <2>2 DEF Least
    <2>4. \A i \in 1 .. Len(b.files) : i = Len(b.files) =>
            c.files[i].starting_time \in Nat /\ c.files[i].starting_time <= b.files[i].starting_time
      BY <2>3
    <2>5. \A z \in Range(<<>>) : ~z.repeat => z \in Q
      BY <1>4
    <2>6. \A z \in Stored(b) \cup Q : z.stamp \in Nat
      BY DEF Proper
    <2> HIDE DEF Q, n
    <2>7. Started(c, Q)
      BY <1>3, <1>4, <1>16, <2>4, <2>5, <2>6, StartedGrown
    <2>8. Started(c, Q \cup {m})
      BY <1>6, <2>3, <2>7 DEF Started
    <2>9. \A i \in 1 .. Len(c.files) : i = Len(c.files) =>
            bag'.files[i].starting_time \in Nat /\ bag'.files[i].starting_time <= c.files[i].starting_time
      <3> SUFFICES ASSUME NEW i \in 1 .. Len(c.files)
                   PROVE  bag'.files[i].starting_time \in Nat /\ bag'.files[i].starting_time <= c.files[i].starting_time
        OBVIOUS
      <3>1. c.files[i].starting_time \in Nat
        BY <2>7 DEF Started
      <3>2. bag'.files[i].starting_time = c.files[i].starting_time
        BY <1>9
      <3> QED
        BY <3>1, <3>2
    <2>10. \A z \in Range(y) : ~z.repeat => z \in Q \cup {m}
      BY <1>7
    <2>11. \A z \in Stored(c) \cup (Q \cup {m}) : z.stamp \in Nat
      BY <1>5, <2>6
    <2>12. Started(bag', Q \cup {m})
      BY <1>5, <1>7, <1>9, <2>8, <2>9, <2>10, <2>11, StartedGrown
    <2>13. Range(w) \cup Range(cache') \subseteq Q \cup {m}
      BY <1>12 DEF Q
    <2> QED
      BY <2>12, <2>13 DEF Started
  <1>17. ASSUME options.mode = "snapshot", Snapped(b, D), Unfilled(b, D)
         PROVE  Snapped(bag', D) /\ Unfilled(bag', D)
    <2>1. Snapped(c, D) /\ Unfilled(c, D)
      BY <1>3, <1>17, SnappedSpan
    <2>2. y = <<>>
      BY <1>7, <1>17
    <2>3. bag' = c
      BY <1>1, <2>2, NothingAdded
    <2> QED
      BY <2>1, <2>3
  <1>18. /\ Totalled(b) => Totalled(bag')
         /\ \A t \in Topics : SumOver(b.per_file, t) <= SumOver(bag'.per_file, t)
    <2>1. /\ Totalled(b) => Totalled(c)
          /\ \A t \in Topics : SumOver(b.per_file, t) <= SumOver(c.per_file, t)
      BY <1>3, <1>4, TotalledGrown
    <2>2. /\ Totalled(c) => Totalled(bag')
          /\ \A t \in Topics : SumOver(c.per_file, t) <= SumOver(bag'.per_file, t)
      BY <1>5, <1>7, <1>9, TotalledGrown
    <2>3. \A t \in Topics : SumOver(b.per_file, t) \in Nat /\ SumOver(c.per_file, t) \in Nat
                            /\ SumOver(bag'.per_file, t) \in Nat
      BY <1>5, <1>10, SumOverFields
    <2>4. \A t \in Topics : SumOver(b.per_file, t) <= SumOver(bag'.per_file, t)
      BY <2>1, <2>2, <2>3
    <2> QED
      BY <2>1, <2>2, <2>4
  <1>19. last_recv' \in Nat
    BY <1>1
  <1> QED
    BY <1>2, <1>10, <1>13, <1>14, <1>15, <1>16, <1>17, <1>18, <1>19 DEF Recorded

-----------------------------------------------------------------------------
(* Sums of counts. *)

(* The fold of finalize_metadata() is a total. *)
LEMMA FoldIsTotal ==
  ASSUME NEW f
  PROVE  FoldFunction(+, 0, f) = Total(f, DOMAIN f)
  BY DEF FoldFunction, FoldFunctionOnSet, Total, MapThenSumSet, MapThenFoldSet

(* The total of sums. *)
LEMMA TotalPlus ==
  ASSUME NEW T, IsFiniteSet(T), NEW f \in [T -> Int], NEW e \in [T -> Int]
  PROVE  Total([t \in T |-> f[t] + e[t]], T) = Total(f, T) + Total(e, T)
  <1> DEFINE b == [t \in T |-> f[t] + e[t]]
             c == AnyOf(T)
  <1>1. b \in [T -> Int]
    OBVIOUS
  <1>2. PICK g \in [SUBSET T -> Int] : IsSum(g, T, c, f) /\ Total(f, T) = g[T]
    BY TotalIsSum
  <1>3. PICK h \in [SUBSET T -> Int] : IsSum(h, T, c, e) /\ Total(e, T) = h[T]
    BY TotalIsSum
  <1> DEFINE k == [s \in SUBSET T |-> g[s] + h[s]]
  <1>4. k \in [SUBSET T -> Int]
    OBVIOUS
  <1>5. Chooses(c, T)
    BY DEF Chooses, AnyOf
  <1> HIDE DEF c
  <1>6. ASSUME NEW s \in SUBSET T
        PROVE  k[s] = IF s = {} THEN 0 ELSE b[c[s]] + k[s \ {c[s]}]
    <2>1. k[s] = g[s] + h[s]
      OBVIOUS
    <2>2. CASE s = {}
      <3>1. g[s] = 0 /\ h[s] = 0
        BY <1>2, <1>3, <2>2 DEF IsSum
      <3> QED
        BY <2>1, <2>2, <3>1
    <2>3. CASE s # {}
      <3>1. c[s] \in T /\ s \ {c[s]} \in SUBSET T
        BY <1>5, <2>3 DEF Chooses
      <3>2. g[s] = f[c[s]] + g[s \ {c[s]}] /\ h[s] = e[c[s]] + h[s \ {c[s]}]
        BY <1>2, <1>3, <2>3 DEF IsSum
      <3>3. b[c[s]] = f[c[s]] + e[c[s]] /\ k[s \ {c[s]}] = g[s \ {c[s]}] + h[s \ {c[s]}]
        BY <3>1
      <3>4. /\ f[c[s]] \in Int /\ e[c[s]] \in Int
            /\ g[s \ {c[s]}] \in Int /\ h[s \ {c[s]}] \in Int
        BY <3>1
      <3> HIDE DEF k, b
      <3> QED
        BY <2>1, <2>3, <3>2, <3>3, <3>4
    <2> QED
      BY <2>2, <2>3
  <1>7. IsSum(k, T, c, b)
    <2>1. k = [s \in SUBSET T |-> k[s]]
      BY <1>4
    <2> HIDE DEF k, b
    <2> QED
      BY <1>6, <2>1 DEF IsSum
  <1>8. PICK j \in [SUBSET T -> Int] : IsSum(j, T, c, b) /\ Total(b, T) = j[T]
    BY <1>1, TotalIsSum DEF c
  <1>9. k[T] = j[T]
    <2>1. EitherSum(k, T, c, b)
      BY <1>7 DEF EitherSum
    <2> HIDE DEF k, b
    <2> QED
      BY <1>1, <1>5, <1>8, <2>1, SumIsUnique
  <1>10. k[T] = g[T] + h[T]
    OBVIOUS
  <1> QED
    BY <1>2, <1>3, <1>8, <1>9, <1>10

(* Equal functions have equal totals; the number of one message. *)
LEMMA CountOne ==
  ASSUME NEW e, NEW t
  PROVE  Count(<<e>>, t) = IF e.topic = t THEN 1 ELSE 0
  <1>1. IsSequence(<<e>>) /\ Len(<<e>>) = 1 /\ <<e>>[1] = e /\ DOMAIN <<e>> = 1 .. 1
    BY OneOnly, SequenceFacts
  <1>2. CASE e.topic = t
    <2>1. {i \in DOMAIN <<e>> : <<e>>[i].topic = t} = {1}
      BY <1>1, <1>2
    <2>2. Cardinality({1}) = 1
      BY FS_Singleton
    <2> QED
      BY <1>2, <2>1, <2>2 DEF Count
  <1>3. CASE e.topic # t
    <2>1. {i \in DOMAIN <<e>> : <<e>>[i].topic = t} = {}
      BY <1>1, <1>3
    <2>2. Cardinality({}) = 0
      BY FS_EmptySet
    <2> QED
      BY <1>3, <2>1, <2>2 DEF Count
  <1> QED
    BY <1>2, <1>3

(* The messages of all topics are the messages. *)
LEMMA CountsAddUp ==
  ASSUME NEW T, IsFiniteSet(T), NEW messages, IsSequence(messages), OnTopics(messages, T)
  PROVE  Total([t \in T |-> Count(messages, t)], T) = Len(messages)
  <1> DEFINE Counts(s) == [t \in T |-> Count(s, t)]
             Right(s, n) == IsSequence(s) /\ Len(s) = n /\ OnTopics(s, T) => Total(Counts(s), T) = n
             P == {n \in Nat : \A s : Right(s, n)}
  <1>1. 0 \in P
    <2>1. ASSUME NEW s, IsSequence(s), Len(s) = 0
          PROVE  Total(Counts(s), T) = 0
      <3>1. s = <<>>
        BY <2>1, SequenceFacts
      <3>2. \A t \in T : Count(s, t) = 0
        BY <2>1, <3>1, CountFacts
      <3>3. Counts(s) = [t \in T |-> 0]
        BY <3>2
      <3> HIDE DEF Counts
      <3> QED
        BY <3>3, TotalZero
    <2> QED
      BY <2>1
  <1>2. ASSUME NEW n \in P
        PROVE  n + 1 \in P
    <2>1. ASSUME NEW s, IsSequence(s), Len(s) = n + 1, OnTopics(s, T)
          PROVE  Total(Counts(s), T) = n + 1
      <3> DEFINE r == [i \in 1 .. n |-> s[i]]
                 e == s[n + 1]
                 u == r \o <<e>>
      <3>1. n \in Nat
        OBVIOUS
      <3>2. IsSequence(r) /\ Len(r) = n /\ \A i \in 1 .. n : r[i] = s[i]
        <4>1. r = [i \in 1 .. n |-> r[i]]
          OBVIOUS
        <4>2. \A i \in 1 .. n : r[i] = s[i]
          OBVIOUS
        <4> HIDE DEF r
        <4> QED
          BY <3>1, <4>1, <4>2, FunctionSequence
      <3> HIDE DEF r
      <3>3. IsSequence(<<e>>) /\ Len(<<e>>) = 1 /\ <<e>>[1] = e /\ Range(<<e>>) = {e}
        BY OneOnly
      <3> HIDE DEF e
      <3>4. /\ IsSequence(u) /\ Len(u) = n + 1 /\ Range(u) = Range(r) \cup {e}
            /\ \A i \in 1 .. n : u[i] = r[i]
            /\ \A i \in 1 .. 1 : u[n + i] = <<e>>[i]
            /\ \A i \in 1 .. n + 1 : i \in 1 .. n \/ \E j \in 1 .. 1 : i = n + j
        BY <3>2, <3>3, ConcatFacts
      <3>5. u = s
        <4> HIDE DEF u
        <4>1. \A i \in 1 .. n + 1 : u[i] = s[i]
          <5> SUFFICES ASSUME NEW i \in 1 .. n + 1 PROVE u[i] = s[i]
            OBVIOUS
          <5>1. CASE i \in 1 .. n
            BY <3>2, <3>4, <5>1
          <5>2. CASE i = n + 1
            BY <3>1, <3>3, <3>4, <5>2 DEF e
          <5> QED
            BY <3>1, <5>1, <5>2
        <4>2. u = [i \in 1 .. n + 1 |-> u[i]] /\ s = [i \in 1 .. n + 1 |-> s[i]]
          BY <2>1, <3>4, SequenceFacts
        <4> QED
          BY <4>1, <4>2
      <3>6. OnTopics(r, T) /\ e.topic \in T
        BY <2>1, <3>4, <3>5 DEF OnTopics
      <3>7. Total(Counts(r), T) = n
        BY <1>2, <3>2, <3>6
      <3>8. \A t \in T : Count(s, t) = Count(r, t) + IF t = e.topic THEN 1 ELSE 0
        <4> SUFFICES ASSUME NEW t \in T PROVE Count(s, t) = Count(r, t) + IF t = e.topic THEN 1 ELSE 0
          OBVIOUS
        <4>1. Count(r \o <<e>>, t) = Count(r, t) + Count(<<e>>, t)
          BY <3>2, <3>3, CountConcat
        <4>2. Count(<<e>>, t) = IF e.topic = t THEN 1 ELSE 0
          BY CountOne
        <4> QED
          BY <3>5, <4>1, <4>2
      <3>9. Counts(r) \in [T -> Int] /\ Counts(s) \in [T -> Int]
        <4>1. \A t \in T : Count(r, t) \in Nat /\ Count(s, t) \in Nat
          BY <2>1, <3>2, CountFacts
        <4> QED
          BY <4>1
      <3>10. Shifted(Counts(r), Counts(s), T, e.topic, 1)
        BY <3>8 DEF Shifted
      <3> HIDE DEF Counts
      <3>11. Total(Counts(s), T) = Total(Counts(r), T) + 1
        BY <3>6, <3>9, <3>10, TotalAdd
      <3> QED
        BY <3>7, <3>11
    <2>2. \A s : Right(s, n + 1)
      BY <2>1
    <2>3. n + 1 \in Nat
      OBVIOUS
    <2> HIDE DEF Right
    <2> QED
      BY <2>2, <2>3, Zenon
  <1> HIDE DEF P, Right
  <1>3. P = Nat
    <2>1. P \in SUBSET Nat
      BY DEF P
    <2> QED
      BY <1>1, <1>2, <2>1, NatSetInduction
  <1>4. Len(messages) \in Nat
    BY SequenceFacts
  <1>5. Right(messages, Len(messages))
    BY <1>3, <1>4 DEF P
  <1> QED
    BY <1>5 DEF Right

(* The counts c of files are the totals of the counts p of their topics. *)
Rows(p, c, n, T) ==
    /\ DOMAIN p = 1 .. n /\ DOMAIN c = 1 .. n
    /\ \A i \in 1 .. n : /\ p[i] \in [Topics -> Nat]
                         /\ c[i]["message_count"] = Total([t \in T |-> p[i][t]], T)

(* By topic or by file, the counts add up to the same. *)
LEMMA SumsBothWays ==
  ASSUME NEW T \in SUBSET Topics, IsFiniteSet(T), NEW q, NEW d, NEW l \in Nat, Rows(q, d, l, T)
  PROVE  Total([t \in T |-> SumOver(q, t)], T) = SumOver(d, "message_count")
  <1> DEFINE key == "message_count"
             ByTopic(p) == [t \in T |-> SumOver(p, t)]
             Row(p, i) == [t \in T |-> p[i][t]]
             Right(p, c, n) == Rows(p, c, n, T) => Total(ByTopic(p), T) = SumOver(c, key)
             P == {n \in Nat : \A p, c : Right(p, c, n)}
  <1>1. ASSUME NEW n \in Nat, NEW p, NEW c, Rows(p, c, n, T)
        PROVE  /\ \A t \in T : Measured(p, n, t) /\ SumOver(p, t) \in Int
               /\ Measured(c, n, key)
               /\ \A i \in 1 .. n : Row(p, i) \in [T -> Int]
    <2>1. \A i \in 1 .. n : Row(p, i) \in [T -> Int]
      <3> SUFFICES ASSUME NEW i \in 1 .. n PROVE Row(p, i) \in [T -> Int]
        OBVIOUS
      <3>1. p[i] \in [Topics -> Nat]
        BY <1>1 DEF Rows
      <3>2. \A t \in T : p[i][t] \in Int
        BY <3>1
      <3> QED
        BY <3>2
    <2>2. Measured(c, n, key)
      <3>1. ASSUME NEW i \in 1 .. n
            PROVE  c[i][key] \in Int
        <4>1. c[i][key] = Total(Row(p, i), T)
          BY <1>1 DEF Rows
        <4>2. Row(p, i) \in [T -> Int]
          BY <2>1
        <4> HIDE DEF Row
        <4>3. Total(Row(p, i), T) \in Int
          BY <4>2, TotalType
        <4> QED
          BY <4>1, <4>3
      <3> QED
        BY <1>1, <3>1 DEF Measured, Rows
    <2>3. ASSUME NEW t \in T
          PROVE  Measured(p, n, t) /\ SumOver(p, t) \in Int
      <3>1. \A i \in 1 .. n : p[i] \in [Topics -> Nat]
        BY <1>1 DEF Rows
      <3>2. \A i \in 1 .. n : p[i][t] \in Nat
        BY <3>1
      <3>3. Measured(p, n, t)
        BY <1>1, <3>2 DEF Measured, Rows
      <3>4. DOMAIN p = 1 .. n
        BY <1>1 DEF Rows
      <3>5. SumOver(p, t) \in Nat
        BY <3>2, <3>4, SumOverNat
      <3> QED
        BY <3>3, <3>5
    <2> QED
      BY <2>1, <2>2, <2>3
  <1>2. 0 \in P
    <2>1. ASSUME NEW p, NEW c, Rows(p, c, 0, T)
          PROVE  Total(ByTopic(p), T) = SumOver(c, key)
      <3>1. \A t \in T : SumOver(p, t) = 0
        BY <1>1, <2>1, SumOverEmpty
      <3>2. SumOver(c, key) = 0
        BY <1>1, <2>1, SumOverEmpty
      <3>3. ByTopic(p) = [t \in T |-> 0]
        BY <3>1
      <3> HIDE DEF ByTopic
      <3> QED
        BY <3>2, <3>3, TotalZero
    <2> QED
      BY <2>1
  <1>3. ASSUME NEW n \in P
        PROVE  n + 1 \in P
    <2>1. ASSUME NEW p, NEW c, Rows(p, c, n + 1, T)
          PROVE  Total(ByTopic(p), T) = SumOver(c, key)
      <3> DEFINE r == FirstOf(p, n)
                 e == FirstOf(c, n)
      <3>1. n \in Nat /\ n + 1 \in Nat /\ n + 1 \in 1 .. n + 1 /\ \A i \in 1 .. n : i \in 1 .. n + 1
        OBVIOUS
      <3>2. /\ \A t \in T : Measured(p, n + 1, t) /\ SumOver(p, t) \in Int
            /\ Measured(c, n + 1, key)
            /\ Row(p, n + 1) \in [T -> Int]
        BY <1>1, <2>1, <3>1
      <3>3. Rows(r, e, n, T)
        <4>1. DOMAIN r = 1 .. n /\ DOMAIN e = 1 .. n
          BY DEF FirstOf
        <4>2. \A i \in 1 .. n : r[i] = p[i] /\ e[i] = c[i]
          BY DEF FirstOf
        <4>3. \A i \in 1 .. n + 1 : /\ p[i] \in [Topics -> Nat]
                                    /\ c[i]["message_count"] = Total([t \in T |-> p[i][t]], T)
          BY <2>1 DEF Rows
        <4> HIDE DEF r, e
        <4>4. ASSUME NEW i \in 1 .. n
              PROVE  /\ r[i] \in [Topics -> Nat]
                     /\ e[i]["message_count"] = Total([t \in T |-> r[i][t]], T)
          <5>1. i \in 1 .. n + 1 /\ r[i] = p[i] /\ e[i] = c[i]
            BY <3>1, <4>2
          <5>2. [t \in T |-> r[i][t]] = [t \in T |-> p[i][t]]
            BY <5>1
          <5> QED
            BY <4>3, <5>1, <5>2
        <4> QED
          BY <4>1, <4>4 DEF Rows
      <3>4. \A t \in T : /\ SumOver(r, t) \in Int /\ p[n + 1][t] \in Int
                         /\ SumOver(p, t) = SumOver(r, t) + p[n + 1][t]
        BY <3>1, <3>2, FirstMeasured
      <3>5. SumOver(c, key) = SumOver(e, key) + c[n + 1][key]
        BY <3>1, <3>2, FirstMeasured
      <3>6. Total(ByTopic(r), T) = SumOver(e, key)
        BY <1>3, <3>3
      <3>7. c[n + 1][key] = Total(Row(p, n + 1), T)
        BY <2>1, <3>1 DEF Rows
      <3> HIDE DEF r, e
      <3>8. ByTopic(r) \in [T -> Int]
        BY <3>4
      <3>9. ByTopic(p) = [t \in T |-> ByTopic(r)[t] + Row(p, n + 1)[t]]
        BY <3>4
      <3> HIDE DEF ByTopic, Row
      <3>10. Total([t \in T |-> ByTopic(r)[t] + Row(p, n + 1)[t]], T) = Total(ByTopic(r), T) + Total(Row(p, n + 1), T)
        BY <3>2, <3>8, TotalPlus
      <3> QED
        BY <3>5, <3>6, <3>7, <3>9, <3>10
    <2>2. \A p, c : Right(p, c, n + 1)
      BY <2>1
    <2>3. n + 1 \in Nat
      OBVIOUS
    <2> HIDE DEF Right
    <2> QED
      BY <2>2, <2>3, Zenon
  <1> HIDE DEF P, Right
  <1>4. P = Nat
    <2>1. P \in SUBSET Nat
      BY DEF P
    <2> QED
      BY <1>2, <1>3, <2>1, NatSetInduction
  <1>5. Right(q, d, l)
    BY <1>4 DEF P
  <1> QED
    BY <1>5 DEF Right

(* The total of metadata.yaml. *)
LEMMA MessagesTotal ==
  ASSUME NEW f, Listed(f), Detailed(f), Counted(f, <<>>, {}), Totalled(f),
         \A m \in Stored(f) : m.topic \in DOMAIN f.topics,
         SumOver(f.files, "message_count") < CountModulus
  PROVE  FoldFunction(+, 0, f.topics) % CountModulus = SumOver(f.files, "message_count")
  <1> DEFINE T == DOMAIN f.topics
             l == Len(f.files)
             sum == SumOver(f.files, "message_count")
  <1>1. T \in SUBSET Topics /\ IsFiniteSet(T) /\ IsSequence(f.files) /\ IsSequence(f.per_file) /\ Len(f.per_file) = l
    BY DEF Detailed, Listed
  <1>2. l \in Nat /\ DOMAIN f.files = 1 .. l /\ DOMAIN f.per_file = 1 .. l
    BY <1>1, SequenceFacts
  <1>3. ASSUME NEW i \in 1 .. l
        PROVE  /\ f.per_file[i] \in [Topics -> Nat]
               /\ f.files[i]["message_count"] = Total([t \in T |-> f.per_file[i][t]], T)
    <2> DEFINE messages == f.disk[f.files[i].index].messages
    <2>1. /\ f.files[i].message_count = Len(messages)
          /\ \A t \in Topics : f.per_file[i][t] = Count(messages, t)
      <3>1. /\ f.files[i].message_count = Len(messages)
            /\ \A t \in Topics : f.per_file[i][t] + Count(<<>>, t) = Count(messages, t)
        BY DEF Counted
      <3>2. \A t \in Topics : f.per_file[i][t] \in Nat /\ Count(<<>>, t) = 0
        BY CountFacts DEF Detailed
      <3> HIDE DEF messages
      <3>3. \A t \in Topics : f.per_file[i][t] + 0 = f.per_file[i][t]
        BY <3>2
      <3> QED
        BY <3>1, <3>2, <3>3
    <2>2. f.files[i].index \in DOMAIN f.disk
      BY DEF Listed
    <2>3. IsSequence(messages)
      BY <2>2 DEF Listed
    <2>4. OnTopics(messages, T)
      BY <2>2 DEF Stored, OnTopics
    <2>5. [t \in T |-> f.per_file[i][t]] = [t \in T |-> Count(messages, t)]
      BY <1>1, <2>1
    <2> HIDE DEF messages, T
    <2>6. Total([t \in T |-> Count(messages, t)], T) = Len(messages)
      BY <1>1, <2>3, <2>4, CountsAddUp
    <2> QED
      BY <2>1, <2>5, <2>6 DEF Detailed
  <1>4. Rows(f.per_file, f.files, l, T)
    BY <1>2, <1>3 DEF Rows
  <1>5. Total([t \in T |-> SumOver(f.per_file, t)], T) = sum
    <2> HIDE DEF T, l
    <2> QED
      BY <1>1, <1>2, <1>4, SumsBothWays
  <1>6. f.topics = [t \in T |-> SumOver(f.per_file, t)]
    <2>1. \A t \in T : f.topics[t] = SumOver(f.per_file, t)
      BY DEF Totalled
    <2>2. f.topics = [t \in T |-> f.topics[t]]
      BY DEF Detailed, Tabled
    <2> QED
      BY <2>1, <2>2
  <1>7. FoldFunction(+, 0, f.topics) = sum
    BY <1>5, <1>6, FoldIsTotal
  <1>8. sum \in Nat
    <2>1. \A i \in 1 .. l : f.files[i]["message_count"] \in Nat
      BY DEF Detailed
    <2> QED
      BY <1>2, <2>1, SumOverNat
  <1> HIDE DEF sum
  <1>9. sum \in 0 .. CountModulus - 1 /\ CountModulus \in Nat \ {0}
    BY <1>8, WriterAssumption DEF sum
  <1>10. sum % CountModulus = sum
    BY <1>9
  <1> QED
    BY <1>7, <1>10 DEF sum

-----------------------------------------------------------------------------
(* The steps keep counts, dates and totals. *)

(* What is left to count when no topic goes: nothing, the same, or what has just
   been stored. *)
Passing ==
    \/ uncounted' = <<>> /\ missed' \in {missed, {}}
    \/ uncounted' = uncounted /\ missed' = missed
    \/ missed' = missed /\ OnTopics(uncounted', Known) /\ \A m \in Range(uncounted') : Proper(m)

LEMMA UncountedPasses ==
  ASSUME Uncounted, options' = options, Known' = Known, Logged \subseteq Logged', Passing
  PROVE  Uncounted'
  <1>1. Range(<<>>) = {}
    BY EmptySequence
  <1>2. \A m \in Range(uncounted') : m.topic \in Known' \cup missed'
    BY <1>1 DEF Uncounted, Passing, OnTopics
  <1>3. \A m \in Range(uncounted') : m.stamp \in Nat /\ m.topic \in Logged'
    BY <1>1 DEF Uncounted, Passing, Proper
  <1>4. options'.cleanup_only => missed' = {}
    BY DEF Uncounted, Passing
  <1> QED
    BY <1>2, <1>3, <1>4 DEF Uncounted, OnTopics, Proper

(* What nobody has written to, and nobody has removed, is as it was. *)
LEMMA Assembled ==
  ASSUME CountInv, options' = options, UNCHANGED <<log, transient, last_recv>>, Known' = Known,
         Detailed(bag'), Counted(bag', uncounted', missed'), Passing,
         \A m \in Stored(bag') : Proper(m),
         Range(Todo') \subseteq Range(Todo)
  PROVE  CountInv'
  <1>1. Logged' = Logged
    BY DEF Logged
  <1>6. Uncounted'
    BY <1>1, UncountedPasses DEF CountInv
  <1>2. LatchInv'
    <2>1. DOMAIN transient' \subseteq Known' /\ Known' \subseteq Topics
      BY DEF CountInv, LatchInv
    <2>2. \A t \in DOMAIN transient' : Own(transient[t].messages, t)'
      <3> SUFFICES ASSUME NEW t \in DOMAIN transient' PROVE Own(transient[t].messages, t)'
        OBVIOUS
      <3>1. Own(transient[t].messages, t)
        BY DEF CountInv, LatchInv
      <3> QED
        BY <1>1, <3>1 DEF Own, Proper
    <2> QED
      BY <2>1, <2>2 DEF LatchInv
  <1>3. \A m \in Stored(bag') \cup Range(Todo') : m.stamp \in Nat /\ m.topic \in Logged'
    BY <1>1 DEF CountInv, Proper
  <1>4. (\A m \in Stored(bag) \cup Range(Todo) : Proper(m))'
    BY <1>3 DEF Proper, Stored
  <1>5. last_recv' \in Nat /\ (options'.cleanup_only => Logged' \subseteq Known')
    BY <1>1 DEF CountInv
  <1> QED
    BY <1>2, <1>4, <1>5, <1>6 DEF CountInv

(* Files, their counts and their messages are the same. *)
LEMMA SameCounts ==
  ASSUME NEW b, NEW a, NEW Q, NEW D, Listed(b), a.files = b.files, a.per_file = b.per_file,
         \A k \in DOMAIN b.disk : a.disk[k].messages = b.disk[k].messages,
         a.next_file_index \in {b.next_file_index, b.next_file_index + 1}
  PROVE  /\ \A u, M : Counted(b, u, M) => Counted(a, u, M)
         /\ Started(b, Q) => Started(a, Q) /\ Started(a, {})
         /\ Snapped(b, D) => Snapped(a, D)
         /\ Unfilled(b, D) => Unfilled(a, D)
  <1>1. \A i \in 1 .. Len(b.files) : a.disk[b.files[i].index].messages = b.disk[b.files[i].index].messages
    BY DEF Listed
  <1>2. ASSUME NEW u, NEW M, Counted(b, u, M) PROVE Counted(a, u, M)
    <2> SUFFICES ASSUME NEW i \in 1 .. Len(b.files)
                 PROVE  LET rest == IF i = Len(b.files) THEN u ELSE <<>>
                            messages == a.disk[b.files[i].index].messages
                        IN  /\ b.files[i].message_count = Len(messages)
                            /\ \A t \in Topics \ M : b.per_file[i][t] + Count(rest, t) = Count(messages, t)
      BY <1>2 DEF Counted
    <2> QED
      BY <1>1, <1>2 DEF Counted
  <1>3. Started(b, Q) => Started(a, Q) /\ Started(a, {})
    BY <1>1 DEF Started
  <1>4. Snapped(b, D) => Snapped(a, D)
    <2>1. b.next_file_index \in Nat
      BY DEF Listed
    <2>2. ASSUME Snapped(b, D), NEW k \in D PROVE k \in Nat /\ k < a.next_file_index
      BY <2>1, <2>2 DEF Snapped
    <2> QED
      BY <1>1, <2>2 DEF Snapped
  <1>5. Unfilled(b, D) => Unfilled(a, D)
    BY DEF Unfilled
  <1> QED
    BY <1>2, <1>3, <1>4, <1>5

(* A step that changes neither files nor what is to be written in them. *)
LEMMA IdleKeeps ==
  ASSUME CountInv, DateInv, options' = options,
         UNCHANGED <<is_open, bag, yaml, transient, last_recv, uncounted, log, due, missed>>,
         Range(Todo') = Range(Todo)
  PROVE  Keeping
  <1>1. Known' = Known /\ Detailed(bag') /\ Counted(bag', uncounted', missed') /\ \A m \in Stored(bag') : Proper(m)
    BY DEF CountInv, Known
  <1>5. Passing
    BY DEF Passing
  <1>2. CountInv'
    BY <1>1, <1>5, Assembled
  <1>3. DateInv'
    BY DEF DateInv
  <1>4. TotalInv => TotalInv'
    BY DEF TotalInv
  <1> QED
    BY <1>2, <1>3, <1>4 DEF Keeping

(* A failed open(). *)
LEMMA OpenFailsCounts ==
  ASSUME IInv, CountInv, DateInv, options' = options, NEW convert, OpenFails(convert)
  PROVE  Keeping
  <1>1. UNCHANGED <<is_open, bag, yaml, transient, last_recv, uncounted, log, due, missed, cache, in_flight>>
    BY DEF OpenFails, pipe
  <1>2. Range(Todo') = Range(Todo)
    BY <1>1 DEF Todo
  <1> QED
    BY <1>1, <1>2, IdleKeeps

(* The end of the program. *)
LEMMA CrashCounts ==
  ASSUME IInv, CountInv, DateInv, options' = options, Crash
  PROVE  Keeping
  <1>1. UNCHANGED <<is_open, bag, yaml, transient, last_recv, uncounted, log, due, missed, cache, in_flight>>
    BY DEF Crash, pipe, callVars, history
  <1>2. Range(Todo') = Range(Todo)
    BY <1>1 DEF Todo
  <1> QED
    BY <1>1, <1>2, IdleKeeps

(* The consumer takes what is cached. *)
LEMMA SwapBuffersCounts ==
  ASSUME IInv, CountInv, DateInv, options' = options, SwapBuffers
  PROVE  Keeping
  <1>1. /\ UNCHANGED <<is_open, bag, yaml, transient, last_recv, uncounted, log, due, missed>>
        /\ in_flight = <<>> /\ in_flight' = cache /\ cache' = <<>>
    BY DEF SwapBuffers, callVars, history
  <1>2. Todo' = Todo
    BY <1>1, InvFacts DEF Todo
  <1> QED
    BY <1>1, <1>2, IdleKeeps

(* The consumer writes what it has taken. *)
LEMMA StoreMessagesCounts ==
  ASSUME IInv, CountInv, DateInv, options' = options, NEW losses, StoreMessages(losses)
  PROVE  Keeping
  <1> DEFINE y == Kept(in_flight, losses)
             a == AddToFile(bag, y)
             Q == Range(Todo)
  <1>1. /\ in_flight # <<>> /\ Registered(bag, in_flight)
        /\ bag' = Put(bag, y) /\ uncounted' = y /\ in_flight' = <<>>
        /\ UNCHANGED <<is_open, yaml, transient, last_recv, cache, log, due, missed>>
    BY DEF StoreMessages
  <1>2. options.mode = "cache" /\ bag.storage # NoFile /\ is_open /\ uncounted = <<>>
    BY <1>1 DEF IInv, Modes
  <1>3. /\ IsSequence(in_flight) /\ IsSequence(cache) /\ \A m \in Range(in_flight) \cup Range(cache) : Proper(m)
        /\ DOMAIN bag.topics = Known
    BY QueuedFacts
  <1>4. Listed(bag) /\ Detailed(bag) /\ Counted(bag, <<>>, missed) /\ \A m \in Stored(bag) \cup Q : Proper(m)
    BY <1>2, InvFacts DEF CountInv
  <1>5. IsSequence(y) /\ OnTopics(y, DOMAIN bag.topics) /\ \A m \in Range(y) : Proper(m)
    <2>1. \A m \in Range(in_flight) : Proper(m)
      BY <1>3
    <2> QED
      BY <1>1, <1>2, <1>3, <2>1, KeptTopics
  <1>6. Range(y) \subseteq Q /\ Range(Todo') \subseteq Q
    <2>1. Range(y) \subseteq Range(in_flight)
      BY <1>3, KeptFacts
    <2>2. Q = Range(in_flight) \cup Range(cache)
      BY <1>3, ConcatFacts DEF Todo
    <2>3. Todo' = cache
      BY <1>1, <1>3, EmptyJoined DEF Todo
    <2> QED
      BY <2>1, <2>2, <2>3
  <1> HIDE DEF y, Q
  <1>7. /\ Grown(bag, a, y)
        /\ \A i \in 1 .. Len(bag.files) : a.files[i].starting_time = bag.files[i].starting_time
    BY <1>2, <1>4, <1>5, AddToFileGrows
  <1>8. /\ Detailed(bag') /\ Counted(bag', y, missed)
        /\ bag'.files = a.files /\ bag'.disk = a.disk
        /\ bag'.per_file = bag.per_file /\ bag'.topics = bag.topics
    BY <1>1, <1>2, <1>4, <1>5, PutCounts
  <1> HIDE DEF a
  <1>9. \A m \in Stored(bag') : Proper(m)
    <2>1. \A m \in Stored(bag) \cup Range(y) : Proper(m)
      BY <1>4, <1>5
    <2>2. \A m \in Stored(a) : Proper(m)
      BY <1>2, <1>4, <1>5, <1>7, <2>1, GrownProper
    <2> QED
      BY <1>8, <2>2 DEF Stored
  <1>10. Known' = Known
    BY <1>8 DEF Known
  <1>11. CountInv'
    <2>1. Range(Todo') \subseteq Range(Todo)
      BY <1>6 DEF Q
    <2>2. Passing
      BY <1>1, <1>3, <1>5 DEF Passing
    <2>3. Counted(bag', uncounted', missed')
      BY <1>1, <1>8
    <2> QED
      BY <1>1, <1>8, <1>9, <1>10, <2>1, <2>2, <2>3, Assembled
  <1>12. DateInv'
    <2>1. Started(bag, Q)
      BY <1>2 DEF DateInv, Q
    <2>2. \A i \in 1 .. Len(bag.files) : i = Len(bag.files) =>
            a.files[i].starting_time \in Nat /\ a.files[i].starting_time <= bag.files[i].starting_time
      BY <1>7, <2>1 DEF Started
    <2>3. \A m \in Range(y) : ~m.repeat => m \in Q
      BY <1>6
    <2>4. \A m \in Stored(bag) \cup Q : m.stamp \in Nat
      BY <1>4 DEF Proper
    <2>5. Started(a, Q)
      BY <1>2, <1>4, <1>5, <1>7, <2>1, <2>2, <2>3, <2>4, StartedGrown
    <2>6. Started(bag', Range(Todo'))
      BY <1>6, <1>8, <2>5 DEF Started
    <2> QED
      BY <1>2, <2>6 DEF DateInv, Started
  <1>13. TotalInv => TotalInv'
    <2>1. Totalled(bag) => Totalled(bag')
      BY <1>8 DEF Totalled
    <2> QED
      BY <1>1, <1>2, <2>1 DEF TotalInv, Totalled
  <1> QED
    BY <1>11, <1>12, <1>13 DEF Keeping

(* The consumer counts what it has stored. *)
LEMMA CountMessagesCounts ==
  ASSUME IInv, CountInv, DateInv, options' = options, CountMessages
  PROVE  Keeping
  <1>1. /\ uncounted # <<>> /\ bag' = Written /\ uncounted' = <<>>
        /\ UNCHANGED <<is_open, yaml, transient, last_recv, cache, in_flight, log, due, missed>>
    BY DEF CountMessages, history
  <1>2. is_open
    BY <1>1 DEF IInv, Modes
  <1>3. Todo' = Todo
    BY <1>1 DEF Todo
  <1>4. CountInv'
    <2>1. /\ Detailed(bag') /\ Counted(bag', uncounted', missed') /\ Known' = Known
          /\ Stored(bag') = Stored(bag)
      BY <1>1, WrittenCounts DEF Known
    <2>2. \A m \in Stored(bag') : Proper(m)
      BY <2>1 DEF CountInv
    <2>3. Passing /\ Range(Todo') \subseteq Range(Todo)
      BY <1>1, <1>3 DEF Passing
    <2> QED
      BY <1>1, <2>1, <2>2, <2>3, Assembled
  <1>5. DateInv'
    <2>1. /\ \A Q : Started(bag', Q) <=> Started(bag, Q)
          /\ \A D : Snapped(bag', D) <=> Snapped(bag, D)
          /\ \A D : Unfilled(bag', D) <=> Unfilled(bag, D)
      BY <1>1, WrittenDates
    <2>2. /\ options.mode # "snapshot" => Started(bag', Range(Todo'))
          /\ options.mode = "snapshot" =>
                Snapped(bag', DOMAIN due') /\ (is_open' => Unfilled(bag', DOMAIN due'))
      BY <1>1, <1>3, <2>1 DEF DateInv
    <2> QED
      BY <2>2 DEF DateInv, Started, Snapped, Unfilled
  <1>6. TotalInv => TotalInv'
    <2>1. Totalled(bag) => Totalled(bag')
      BY <1>1, WrittenTotals
    <2> QED
      BY <1>1, <1>2, <2>1 DEF TotalInv, Totalled
  <1> QED
    BY <1>4, <1>5, <1>6 DEF Keeping

(* close(): the last file has what the consumer had to write, and metadata.yaml
   says so. *)
LEMMA CloseCounts ==
  ASSUME IInv, CountInv, DateInv, options' = options, NEW losses, Close(losses)
  PROVE  Keeping
  <1> DEFINE f == AddToFile(Written, Kept(Pending, losses))
             none == [t \in Known |-> 0]
             Q == Range(Todo)
             D == DOMAIN due
  <1>1. /\ is_open /\ Registered(bag, Pending) /\ is_open' = FALSE
        /\ yaml' = Metadata(f)
        /\ bag' = [f EXCEPT !.storage = NoFile, !.topics = none]
        /\ cache' = <<>> /\ in_flight' = <<>> /\ uncounted' = <<>>
        /\ UNCHANGED <<transient, last_recv, log, due, missed>>
    BY DEF Close
  <1>2. Listed(f) /\ Detailed(f) /\ Counted(f, <<>>, missed) /\ DOMAIN f.topics = Known /\ \A m \in Stored(f) : Proper(m)
    BY <1>1, FlushCounts
  <1>3. /\ options.mode # "snapshot" => Started(f, Q)
        /\ options.mode = "snapshot" => f = Written
        /\ Totalled(bag) => Totalled(f)
    BY <1>1, FlushDates
  <1> HIDE DEF f
  <1>4. /\ DOMAIN bag' = Fields /\ bag'.storage = NoFile /\ bag'.next_file_index = f.next_file_index
        /\ bag'.files = f.files /\ bag'.per_file = f.per_file /\ bag'.disk = f.disk /\ bag'.topics = none
    BY <1>1, <1>2 DEF Listed, Fields
  <1>5. Detailed(bag')
    <2>1. Tabled(bag') /\ DOMAIN bag'.topics = Known /\ \A t \in DOMAIN bag'.topics : bag'.topics[t] \in Nat
      BY <1>4 DEF Tabled
    <2> QED
      BY <1>2, <1>4, <2>1 DEF Detailed
  <1>6. /\ Counted(bag', <<>>, missed)
        /\ Started(f, Q) => Started(bag', {})
        /\ Snapped(f, D) => Snapped(bag', D)
    <2> DEFINE a == bag'
    <2>1. /\ a.files = f.files /\ a.per_file = f.per_file
          /\ \A k \in DOMAIN f.disk : a.disk[k].messages = f.disk[k].messages
          /\ a.next_file_index \in {f.next_file_index, f.next_file_index + 1}
      BY <1>4
    <2> HIDE DEF a
    <2>2. /\ Counted(a, <<>>, missed)
          /\ Started(f, Q) => Started(a, {})
          /\ Snapped(f, D) => Snapped(a, D)
      BY <1>2, <2>1, SameCounts
    <2> QED
      BY <2>2 DEF a
  <1>7. Stored(bag') = Stored(f)
    BY <1>4 DEF Stored
  <1>8. Todo' = <<>> /\ Range(Todo') = {}
    BY <1>1, InvFacts, EmptySequence DEF Todo
  <1>9. CountInv'
    <2>1. Known' = Known
      BY <1>4 DEF Known
    <2> QED
      BY <1>1, <1>2, <1>5, <1>6, <1>7, <1>8, <2>1, Assembled DEF Passing
  <1>10. DateInv'
    <2>1. options.mode = "snapshot" => Snapped(bag', D)
      BY <1>3, <1>6, WrittenDates DEF DateInv
    <2>2. options.mode # "snapshot" => Started(bag', Range(Todo'))
      BY <1>3, <1>6, <1>8
    <2> QED
      BY <1>1, <2>1, <2>2 DEF DateInv, Started, Snapped
  <1>11. ASSUME TotalInv, Fits' PROVE TotalInv'
    <2>1. yaml'.files = bag'.files /\ yaml'.message_count = FoldFunction(+, 0, f.topics) % CountModulus
      BY <1>1, <1>4 DEF Metadata
    <2>2. ASSUME options.cleanup_only
          PROVE  yaml'.message_count = SumOver(bag'.files, "message_count")
      <3>1. Totalled(f)
        BY <1>1, <1>3, <1>11, <2>2 DEF TotalInv
      <3>2. \A m \in Stored(f) : m.topic \in DOMAIN f.topics
        BY <1>2, <2>2 DEF CountInv, Proper
      <3>3. SumOver(f.files, "message_count") < CountModulus
        BY <1>4, <1>11, FitsFacts
      <3>4. Counted(f, <<>>, {})
        BY <1>2, <2>2 DEF CountInv, Uncounted
      <3> QED
        BY <1>2, <1>4, <2>1, <3>1, <3>2, <3>3, <3>4, MessagesTotal
    <2> QED
      BY <1>1, <2>1, <2>2 DEF TotalInv
  <1> QED
    BY <1>9, <1>10, <1>11 DEF Keeping

(* A rollover fails once the consumer has written the rest. *)
LEMMA RolloverFailsCounts ==
  ASSUME IInv, CountInv, DateInv, options' = options, NEW losses, RolloverFails(losses)
  PROVE  Keeping
  <1> DEFINE f == AddToFile(Written, Kept(Pending, losses))
             Q == Range(Todo)
             D == DOMAIN due
  <1>1. /\ is_open /\ Registered(bag, Pending) /\ is_open' = is_open
        /\ bag' = [f EXCEPT !.storage = NoFile, !.next_file_index = @ + 1]
        /\ in_flight' = <<>> /\ uncounted' = <<>> /\ cache' = Rest
        /\ UNCHANGED <<yaml, transient, last_recv, log, due, missed>>
    BY DEF RolloverFails, Rest
  <1>2. Listed(f) /\ Detailed(f) /\ Counted(f, <<>>, missed) /\ DOMAIN f.topics = Known /\ \A m \in Stored(f) : Proper(m)
    BY <1>1, FlushCounts
  <1>3. /\ options.mode # "snapshot" => Started(f, Q)
        /\ options.mode = "snapshot" => f = Written
        /\ Totalled(bag) => Totalled(f)
    BY <1>1, FlushDates
  <1> HIDE DEF f
  <1>4. /\ DOMAIN bag' = Fields /\ bag'.storage = NoFile /\ bag'.next_file_index = f.next_file_index + 1
        /\ bag'.files = f.files /\ bag'.per_file = f.per_file /\ bag'.disk = f.disk /\ bag'.topics = f.topics
    BY <1>1, <1>2 DEF Listed, Fields
  <1>5. Detailed(bag')
    BY <1>2, <1>4 DEF Detailed, Tabled
  <1>6. /\ Counted(bag', <<>>, missed)
        /\ Started(f, Q) => Started(bag', Q)
        /\ Snapped(f, D) => Snapped(bag', D)
        /\ Unfilled(f, D) => Unfilled(bag', D)
    <2> DEFINE a == bag'
    <2>1. /\ a.files = f.files /\ a.per_file = f.per_file
          /\ \A k \in DOMAIN f.disk : a.disk[k].messages = f.disk[k].messages
          /\ a.next_file_index \in {f.next_file_index, f.next_file_index + 1}
      BY <1>4
    <2> HIDE DEF a
    <2>2. /\ Counted(a, <<>>, missed)
          /\ Started(f, Q) => Started(a, Q)
          /\ Snapped(f, D) => Snapped(a, D)
          /\ Unfilled(f, D) => Unfilled(a, D)
      BY <1>2, <2>1, SameCounts
    <2> QED
      BY <2>2 DEF a
  <1>7. Stored(bag') = Stored(f)
    BY <1>4 DEF Stored
  <1>8. Range(Todo') \subseteq Q
    <2>1. IsSequence(Rest) /\ IsSequence(in_flight) /\ IsSequence(cache)
      BY Flushing DEF IInv
    <2>2. Todo' = Rest
      BY <1>1, <2>1, EmptyJoined DEF Todo
    <2>3. Q = Range(in_flight) \cup Range(cache)
      BY <2>1, ConcatFacts DEF Todo
    <2>4. Range(Rest) \subseteq Range(cache)
      BY EmptySequence DEF Rest
    <2> QED
      BY <2>2, <2>3, <2>4
  <1>9. CountInv'
    <2>1. Known' = Known
      BY <1>2, <1>4 DEF Known
    <2>2. Range(Todo') \subseteq Range(Todo)
      BY <1>8
    <2> QED
      BY <1>1, <1>2, <1>5, <1>6, <1>7, <2>1, <2>2, Assembled DEF Passing
  <1>10. DateInv'
    <2>1. options.mode = "snapshot" => Snapped(bag', D) /\ Unfilled(bag', D)
      BY <1>1, <1>3, <1>6, WrittenDates DEF DateInv
    <2>2. options.mode # "snapshot" => Started(bag', Range(Todo'))
      BY <1>3, <1>6, <1>8 DEF Started
    <2> QED
      BY <1>1, <2>1, <2>2 DEF DateInv, Started, Snapped, Unfilled
  <1>11. TotalInv => TotalInv'
    <2>1. Totalled(f) => Totalled(bag')
      BY <1>4 DEF Totalled
    <2> QED
      BY <1>1, <1>3, <2>1 DEF TotalInv, Totalled
  <1> QED
    BY <1>9, <1>10, <1>11 DEF Keeping

(* open(): one empty file, of which nothing is counted. *)
LEMMA OpenCounts ==
  ASSUME IInv, CountInv, DateInv, options' = options, NEW convert, Open(convert)
  PROVE  Keeping
  <1> DEFINE formats == [t \in Known |-> converter']
  <1>1. /\ bag'.storage = 0 /\ bag'.files = <<NewFile(0)>> /\ bag'.next_file_index = 1
        /\ bag'.per_file = <<NoCounts>> /\ bag'.topics = [t \in Known |-> 0]
        /\ bag'.disk = [k \in {0} |-> [formats |-> formats, messages |-> <<>>]]
    BY DEF Open
  <1>2. /\ cache' = <<>> /\ in_flight' = <<>> /\ uncounted' = <<>> /\ missed' = {} /\ is_open' = TRUE /\ ~is_open /\ due' = <<>>
        /\ UNCHANGED <<transient, last_recv, log>>
    BY DEF Open
  <1>3. Todo' = <<>> /\ Range(Todo') = {} /\ IsSequence(<<>>) /\ Len(<<>>) = 0
    BY <1>2, InvFacts, EmptySequence DEF Todo
  <1>4. Known' = Known
    BY <1>1 DEF Known
  <1>5. /\ IsSequence(bag'.files) /\ Len(bag'.files) = 1 /\ bag'.files[1] = NewFile(0)
        /\ IsSequence(bag'.per_file) /\ Len(bag'.per_file) = 1 /\ bag'.per_file[1] = NoCounts
        /\ 1 .. 1 = {1}
    BY <1>1, OneOnly
  <1>6. NoTime \in Nat
    BY NoTimeIsLate DEF IInv
  <1>7. /\ DOMAIN NewFile(0) = FileFields /\ NewFile(0).message_count = 0 /\ NewFile(0).index = 0
        /\ NewFile(0).starting_time = NoTime
    BY DEF NewFile, FileFields
  <1>8. NoCounts \in [Topics -> Nat] /\ \A t \in Topics : NoCounts[t] = 0
    BY DEF NoCounts
  <1>9. /\ DOMAIN bag'.disk = {0} /\ DOMAIN bag'.disk[0] = {"formats", "messages"}
        /\ bag'.disk[0].messages = <<>> /\ DOMAIN bag'.disk[0].formats = Known
    BY <1>1
  <1>10. Detailed(bag')
    <2>1. Known \subseteq Topics /\ IsFiniteSet(Known)
      BY DEF CountInv, Detailed, Known
    <2>2. DOMAIN bag'.topics = Known /\ Tabled(bag') /\ \A t \in Known : bag'.topics[t] \in Nat
      BY <1>1 DEF Tabled
    <2> HIDE DEF NewFile, NoCounts
    <2> QED
      BY <1>1, <1>5, <1>7, <1>8, <1>9, <2>1, <2>2 DEF Detailed
  <1>11. Counted(bag', <<>>, {})
    BY <1>3, <1>5, <1>7, <1>8, <1>9, CountFacts DEF Counted
  <1>12. Stored(bag') = {}
    BY <1>9, EmptySequence DEF Stored
  <1>13. CountInv'
    BY <1>2, <1>3, <1>4, <1>10, <1>11, <1>12, Assembled DEF Passing
  <1>14. DateInv'
    <2>1. Started(bag', {})
      BY <1>5, <1>6, <1>7, <1>9, EmptySequence DEF Started
    <2>2. Snapped(bag', {}) /\ Unfilled(bag', {})
      BY <1>5, <1>7, <1>9 DEF Snapped, Unfilled
    <2>3. DOMAIN due' = {}
      BY <1>2, EmptySequence
    <2> QED
      BY <1>3, <2>1, <2>2, <2>3 DEF DateInv, Started, Snapped, Unfilled
  <1>15. Totalled(bag')
    <2>1. \A t \in Topics : SumOver(bag'.per_file, t) = 0
      <3>1. DOMAIN bag'.per_file = 1 .. 1 /\ \A i \in 1 .. 1, t \in Topics : bag'.per_file[i][t] = 0
        BY <1>5, <1>8, SequenceFacts
      <3> QED
        BY <3>1, SumOverZero
    <2>2. Known \subseteq Topics
      BY DEF CountInv, Detailed, Known
    <2> QED
      BY <1>1, <2>1, <2>2 DEF Totalled
  <1>16. TotalInv'
    BY <1>2, <1>15 DEF TotalInv, Totalled
  <1> QED
    BY <1>13, <1>14, <1>16 DEF Keeping

(* Topics come and go: only the formats of the file that is written change. *)
Retopiced(topics, formats) ==
    bag' = IF is_open THEN [bag EXCEPT !.topics = topics, !.disk[bag.storage].formats = formats]
           ELSE [bag EXCEPT !.topics = topics]

(* Nothing of the files and of the messages depends on the topics that are known. *)
LEMMA RetopicCounts ==
  ASSUME IInv, CountInv, DateInv, options' = options, NEW topics, NEW formats, Retopiced(topics, formats),
         DOMAIN topics \subseteq Topics, IsFiniteSet(DOMAIN topics), \A t \in DOMAIN topics : topics[t] \in Nat,
         topics = [t \in DOMAIN topics |-> topics[t]],
         is_open => bag.storage # NoFile /\ DOMAIN formats = DOMAIN topics,
         UNCHANGED <<is_open, yaml, last_recv, cache, in_flight, uncounted, log, due>>
  PROVE  /\ Detailed(bag') /\ Counted(bag', uncounted, missed) /\ Known' = DOMAIN topics
         /\ \A m \in Stored(bag') \cup Range(Todo') : Proper(m)
         /\ DateInv'
         /\ bag'.topics = topics /\ bag'.files = bag.files /\ bag'.per_file = bag.per_file
         /\ DOMAIN bag'.disk = DOMAIN bag.disk /\ DOMAIN bag' = Fields
  <1> DEFINE Q == Range(Todo)
             D == DOMAIN due
  <1>1. Listed(bag) /\ DOMAIN bag = Fields /\ Detailed(bag) /\ Counted(bag, uncounted, missed)
        /\ \A m \in Stored(bag) \cup Range(Todo) : Proper(m)
    BY InvFacts DEF CountInv
  <1>2. /\ DOMAIN bag' = Fields /\ bag'.storage = bag.storage /\ bag'.next_file_index = bag.next_file_index
        /\ bag'.files = bag.files /\ bag'.per_file = bag.per_file /\ bag'.topics = topics
        /\ bag'.disk = IF is_open THEN [bag.disk EXCEPT ![bag.storage].formats = formats] ELSE bag.disk
    <2>1. CASE is_open
      BY <1>1, <2>1 DEF Retopiced, Fields
    <2>2. CASE ~is_open
      BY <1>1, <2>2 DEF Retopiced, Fields
    <2> QED
      BY <2>1, <2>2
  <1>3. DOMAIN bag'.disk = DOMAIN bag.disk
    BY <1>2
  <1>4. \A k \in DOMAIN bag.disk : /\ DOMAIN bag'.disk[k] = {"formats", "messages"}
                                   /\ bag'.disk[k].messages = bag.disk[k].messages
    <2> SUFFICES ASSUME NEW k \in DOMAIN bag.disk
                 PROVE  /\ DOMAIN bag'.disk[k] = {"formats", "messages"}
                        /\ bag'.disk[k].messages = bag.disk[k].messages
      OBVIOUS
    <2>1. DOMAIN bag.disk[k] = {"formats", "messages"}
      BY <1>1 DEF Detailed
    <2>2. bag'.disk[k] = bag.disk[k] \/ bag'.disk[k] = [bag.disk[k] EXCEPT !.formats = formats]
      BY <1>2
    <2> QED
      BY <2>1, <2>2
  <1>5. bag'.storage # NoFile => DOMAIN bag'.disk[bag'.storage].formats = DOMAIN topics
    <2> SUFFICES ASSUME bag.storage # NoFile PROVE DOMAIN bag'.disk[bag.storage].formats = DOMAIN topics
      BY <1>2
    <2>1. is_open
      BY DEF IInv, Modes
    <2>2. bag.storage \in DOMAIN bag.disk
      BY <1>1, StorageIsLast
    <2>3. DOMAIN bag.disk[bag.storage] = {"formats", "messages"}
      BY <1>1, <2>2 DEF Detailed
    <2> QED
      BY <1>2, <2>1, <2>2, <2>3
  <1>6. Detailed(bag')
    <2>1. Tabled(bag')
      BY <1>2 DEF Tabled
    <2> QED
      BY <1>1, <1>2, <1>3, <1>4, <1>5, <2>1 DEF Detailed
  <1>7. /\ Counted(bag', uncounted, missed)
        /\ Started(bag, Q) => Started(bag', Q)
        /\ Snapped(bag, D) => Snapped(bag', D)
        /\ Unfilled(bag, D) => Unfilled(bag', D)
    <2> DEFINE a == bag'
               b == bag
    <2>1. /\ a.files = b.files /\ a.per_file = b.per_file
          /\ \A k \in DOMAIN b.disk : a.disk[k].messages = b.disk[k].messages
          /\ a.next_file_index \in {b.next_file_index, b.next_file_index + 1}
          /\ Listed(b) /\ Counted(b, uncounted, missed)
      BY <1>1, <1>2, <1>4
    <2> HIDE DEF a, b
    <2>2. /\ Counted(a, uncounted, missed)
          /\ Started(b, Q) => Started(a, Q)
          /\ Snapped(b, D) => Snapped(a, D)
          /\ Unfilled(b, D) => Unfilled(a, D)
      BY <2>1, SameCounts
    <2> QED
      BY <2>2 DEF a, b
  <1>8. Todo' = Todo
    BY DEF Todo
  <1>9. DateInv'
    BY <1>7, <1>8 DEF DateInv, Started, Snapped, Unfilled
  <1>10. Stored(bag') = Stored(bag)
    BY <1>3, <1>4 DEF Stored
  <1>11. Known' = DOMAIN topics
    BY <1>2 DEF Known
  <1> QED
    BY <1>1, <1>2, <1>3, <1>6, <1>7, <1>8, <1>9, <1>10, <1>11

(* A topic more or less: the totals of the others are the same. *)
LEMMA TotalsOfFewer ==
  ASSUME TotalInv, options' = options, bag'.files = bag.files, bag'.per_file = bag.per_file,
         DOMAIN bag'.disk = DOMAIN bag.disk, UNCHANGED <<is_open, yaml>>,
         \A t \in DOMAIN bag'.topics : t \in DOMAIN bag.topics => bag'.topics[t] = bag.topics[t],
         is_open /\ options.cleanup_only =>
            \A t \in DOMAIN bag'.topics : t \notin DOMAIN bag.topics =>
               bag'.topics[t] = 0 /\ SumOver(bag.per_file, t) = 0
  PROVE  TotalInv'
  <1>1. is_open' /\ options'.cleanup_only => Totalled(bag')
    BY DEF TotalInv, Totalled
  <1>2. ~is_open' /\ DOMAIN bag'.disk # {} =>
          /\ yaml'.files = bag'.files
          /\ options'.cleanup_only => yaml'.message_count = SumOver(bag'.files, "message_count")
    BY DEF TotalInv
  <1> QED
    BY <1>1, <1>2 DEF TotalInv, Totalled

(* Topics known are the key to the counts of the log. *)
LEMMA RetopicedCountInv ==
  ASSUME CountInv, options' = options, UNCHANGED <<log, last_recv>>,
         Detailed(bag'), Counted(bag', uncounted', missed'),
         uncounted' = uncounted, OnTopics(uncounted, Known' \cup missed'),
         options.cleanup_only => missed' = {},
         \A m \in Stored(bag') \cup Range(Todo') : Proper(m),
         DOMAIN transient' \subseteq Known', Known' \subseteq Topics,
         \A t \in DOMAIN transient' : Own(transient'[t].messages, t),
         options.cleanup_only => Logged \subseteq Known'
  PROVE  CountInv'
  <1>1. Logged' = Logged
    BY DEF Logged
  <1>2. LatchInv'
    <2>1. \A t \in DOMAIN transient' : Own(transient[t].messages, t)'
      <3> SUFFICES ASSUME NEW t \in DOMAIN transient' PROVE Own(transient[t].messages, t)'
        OBVIOUS
      <3>1. Own(transient'[t].messages, t)
        OBVIOUS
      <3> QED
        BY <1>1, <3>1 DEF Own, Proper
    <2> QED
      BY <2>1 DEF LatchInv
  <1>3. \A m \in Stored(bag') \cup Range(Todo') : m.stamp \in Nat /\ m.topic \in Logged'
    BY <1>1 DEF Proper
  <1>6. Uncounted'
    <2>1. OnTopics(uncounted', Known' \cup missed') /\ options'.cleanup_only => missed' = {}
      OBVIOUS
    <2>2. \A m \in Range(uncounted') : m.stamp \in Nat /\ m.topic \in Logged'
      BY <1>1 DEF CountInv, Uncounted, Proper
    <2> QED
      BY <2>1, <2>2 DEF Uncounted, OnTopics, Proper
  <1>4. (\A m \in Stored(bag) \cup Range(Todo) : Proper(m))'
    BY <1>3 DEF Proper, Stored
  <1>5. last_recv' \in Nat /\ (options'.cleanup_only => Logged' \subseteq Known')
    BY <1>1 DEF CountInv
  <1> QED
    BY <1>2, <1>4, <1>5, <1>6 DEF CountInv

(* create_topic(): nothing of the new topic was written, if only topics without
   messages are removed. *)
LEMMA CreateTopicCounts ==
  ASSUME IInv, CountInv, DateInv, options' = options, NEW t \in Topics, CreateTopic(t)
  PROVE  Keeping
  <1> DEFINE formats == With(bag.disk[bag.storage].formats, t, converter)
             topics == With(bag.topics, t, 0)
  <1>1. /\ t \notin Known /\ (is_open => bag.storage # NoFile)
        /\ Retopiced(topics, formats)
        /\ transient' = IF t \in Latched THEN AddTopic(transient, t, Depth) ELSE transient
        /\ UNCHANGED <<is_open, yaml, last_recv, cache, in_flight, uncounted, log, due, missed>>
    BY DEF CreateTopic, pipe, history, Retopiced
  <1>2. Listed(bag) /\ Detailed(bag) /\ Counted(bag, uncounted, missed) /\ Uncounted /\ LatchInv /\ \A m \in Stored(bag) : Proper(m)
    BY InvFacts DEF CountInv
  <1>3. DOMAIN topics = Known \cup {t} /\ topics[t] = 0 /\ (\A u \in Known : topics[u] = bag.topics[u])
        /\ topics = [u \in DOMAIN topics |-> topics[u]]
    BY <1>1 DEF With, Known
  <1>4. is_open => DOMAIN formats = DOMAIN topics
    BY <1>1, <1>2, <1>3 DEF Detailed, With, Known
  <1>5. Known \subseteq Topics /\ IsFiniteSet(Known) /\ \A u \in Known : bag.topics[u] \in Nat
    BY <1>2 DEF Detailed, Known
  <1>6. DOMAIN topics \subseteq Topics /\ IsFiniteSet(DOMAIN topics) /\ \A u \in DOMAIN topics : topics[u] \in Nat
    <2>1. IsFiniteSet(Known \cup {t})
      BY <1>5, FS_AddElement
    <2> HIDE DEF topics
    <2> QED
      BY <1>3, <1>5, <2>1
  <1> HIDE DEF topics, formats
  <1>7. /\ Detailed(bag') /\ Counted(bag', uncounted, missed) /\ Known' = DOMAIN topics
        /\ \A m \in Stored(bag') \cup Range(Todo') : Proper(m)
        /\ DateInv'
        /\ bag'.topics = topics /\ bag'.files = bag.files /\ bag'.per_file = bag.per_file
        /\ DOMAIN bag'.disk = DOMAIN bag.disk
    BY <1>1, <1>3, <1>4, <1>6, RetopicCounts
  <1>8. /\ DOMAIN transient' \subseteq Known \cup {t}
        /\ \A u \in DOMAIN transient' : Own(transient'[u].messages, u)
    <2>1. t \notin DOMAIN transient /\ DOMAIN transient \subseteq Known
          /\ \A u \in DOMAIN transient : Own(transient[u].messages, u)
      BY <1>1, <1>2 DEF LatchInv
    <2>2. CASE t \notin Latched
      BY <1>1, <2>1, <2>2
    <2>3. CASE t \in Latched
      <3>1. Queue(transient, t) = <<>>
        BY <2>1 DEF Queue
      <3>2. PICK m \in 1 .. Len(<<>>) + 1 : Newest(<<>>, Depth) = SubSeq(<<>>, m, Len(<<>>))
        BY EmptySequence, NewestFacts, WriterAssumption
      <3>3. Len(<<>>) = 0 /\ m = 1 /\ IsSequence(<<>>)
        BY <3>2, EmptySequence
      <3>4. Len(SubSeq(<<>>, m, Len(<<>>))) = 0
        BY <3>3, RestOf
      <3>5. Len(Newest(Queue(transient, t), Depth)) = 0
        BY <3>1, <3>2, <3>4
      <3> DEFINE q == Newest(Queue(transient, t), Depth)
      <3>6. transient' = [u \in DOMAIN transient \cup {t} |->
                            IF u = t THEN [max_depth |-> Depth, messages |-> q] ELSE transient[u]]
        BY <1>1, <2>3 DEF AddTopic
      <3> HIDE DEF q
      <3>7. Own(q, t)
        BY <3>5 DEF Own, q
      <3> QED
        BY <2>1, <3>6, <3>7
    <2> QED
      BY <2>2, <2>3
  <1>9. options.cleanup_only => Logged \subseteq Known
    BY DEF CountInv
  <1>12. OnTopics(uncounted, Known' \cup missed') /\ (options.cleanup_only => missed' = {})
    BY <1>1, <1>2, <1>3, <1>7 DEF Uncounted, OnTopics
  <1>10. CountInv'
    BY <1>12, <1>1, <1>3, <1>6, <1>7, <1>8, <1>9, RetopicedCountInv
  <1>11. TotalInv => TotalInv'
    <2>1. ASSUME options.cleanup_only PROVE SumOver(bag.per_file, t) = 0
      <3>1. \A i \in 1 .. Len(bag.files) : bag.per_file[i][t] = 0
        <4> SUFFICES ASSUME NEW i \in 1 .. Len(bag.files) PROVE bag.per_file[i][t] = 0
          OBVIOUS
        <4> DEFINE messages == bag.disk[bag.files[i].index].messages
        <4>1. bag.files[i].index \in DOMAIN bag.disk /\ IsSequence(messages)
          BY <1>2 DEF Listed
        <4>2. \A j \in 1 .. Len(messages) : messages[j] \in Stored(bag)
          BY <4>1, SequenceFacts DEF Stored
        <4>3. \A j \in 1 .. Len(messages) : messages[j].topic # t
          BY <1>1, <1>2, <1>9, <2>1, <4>2 DEF Proper
        <4>4. Count(messages, t) = 0
          BY <4>1, <4>3, CountFacts
        <4> DEFINE rest == IF i = Len(bag.files) THEN uncounted ELSE <<>>
        <4>5. t \in Topics \ missed
          BY <1>2, <2>1 DEF Uncounted
        <4>6. bag.per_file[i][t] + Count(rest, t) = Count(messages, t)
          BY <1>2, <4>5 DEF Counted
        <4>7. bag.per_file[i][t] \in Nat
          BY <1>2 DEF Detailed
        <4>8. Count(rest, t) \in Nat
          BY CountFacts, InvFacts DEF IInv
        <4> HIDE DEF messages, rest
        <4> QED
          BY <4>4, <4>6, <4>7, <4>8
      <3>2. DOMAIN bag.per_file = 1 .. Len(bag.files) /\ Len(bag.files) \in Nat
        BY <1>2, SequenceFacts DEF Detailed, Listed
      <3> QED
        BY <3>1, <3>2, SumOverZero
    <2> QED
      BY <1>1, <1>3, <1>7, <2>1, TotalsOfFewer DEF Known
  <1> QED
    BY <1>7, <1>10, <1>11 DEF Keeping

(* remove_topic(): the topic's queue goes with it. *)
LEMMA RemoveTopicCounts ==
  ASSUME IInv, CountInv, DateInv, options' = options, NEW t \in Topics, RemoveTopic(t)
  PROVE  Keeping
  <1> DEFINE formats == Without(bag.disk[bag.storage].formats, t)
             topics == Without(bag.topics, t)
  <1>1. /\ is_open => bag.storage # NoFile
        /\ options.cleanup_only => Count(log, t) = 0
        /\ Retopiced(topics, formats)
        /\ transient' = ForgetTopic(transient, t)
        /\ missed' = IF Count(uncounted, t) > 0 THEN missed \cup {t} ELSE missed
        /\ UNCHANGED <<is_open, yaml, last_recv, cache, in_flight, uncounted, log, due>>
    BY DEF RemoveTopic, pipe, history, Retopiced
  <1>2. Listed(bag) /\ Detailed(bag) /\ LatchInv /\ Uncounted /\ IsSequence(uncounted)
    BY InvFacts DEF CountInv, IInv
  <1>3. DOMAIN topics = Known \ {t} /\ (\A u \in DOMAIN topics : topics[u] = bag.topics[u])
        /\ topics = [u \in DOMAIN topics |-> topics[u]]
    BY DEF Without, Known
  <1>4. is_open => DOMAIN formats = DOMAIN topics
    BY <1>1, <1>2, <1>3 DEF Detailed, Without, Known
  <1>5. Known \subseteq Topics /\ IsFiniteSet(Known) /\ \A u \in Known : bag.topics[u] \in Nat
    BY <1>2 DEF Detailed, Known
  <1>6. DOMAIN topics \subseteq Topics /\ IsFiniteSet(DOMAIN topics) /\ \A u \in DOMAIN topics : topics[u] \in Nat
    <2>1. IsFiniteSet(Known \ {t})
      BY <1>5, FS_Subset
    <2> HIDE DEF topics
    <2> QED
      BY <1>3, <1>5, <2>1
  <1> HIDE DEF topics, formats
  <1>7. /\ Detailed(bag') /\ Counted(bag', uncounted, missed) /\ Known' = DOMAIN topics
        /\ \A m \in Stored(bag') \cup Range(Todo') : Proper(m)
        /\ DateInv'
        /\ bag'.topics = topics /\ bag'.files = bag.files /\ bag'.per_file = bag.per_file
        /\ DOMAIN bag'.disk = DOMAIN bag.disk
    BY <1>1, <1>3, <1>4, <1>6, RetopicCounts
  <1>8. /\ DOMAIN transient' \subseteq Known \ {t}
        /\ \A u \in DOMAIN transient' : Own(transient'[u].messages, u)
    BY <1>1, <1>2 DEF LatchInv, ForgetTopic
  <1>9. options.cleanup_only => Logged \subseteq Known \ {t}
    <2> SUFFICES ASSUME options.cleanup_only PROVE Logged \subseteq Known \ {t}
      OBVIOUS
    <2>1. IsSequence(log)
      BY DEF IInv
    <2>2. \A i \in 1 .. Len(log) : log[i].topic # t
      BY <1>1, <2>1, CountFacts
    <2> QED
      BY <2>2 DEF CountInv, Logged
  <1>12. Count(uncounted, t) > 0 \/ \A m \in Range(uncounted) : m.topic # t
    <2>1. Len(uncounted) \in Nat /\ Range(uncounted) = {uncounted[i] : i \in 1 .. Len(uncounted)}
      BY <1>2, SequenceFacts
    <2>2. Count(uncounted, t) \in Nat
      BY <1>2, CountFacts
    <2>3. Count(uncounted, t) = 0 => \A i \in 1 .. Len(uncounted) : uncounted[i].topic # t
      BY <1>2, CountFacts
    <2> QED
      BY <2>1, <2>2, <2>3
  <1>13. OnTopics(uncounted, Known' \cup missed')
    <2>1. \A m \in Range(uncounted) : m.topic \in Known \cup missed
      BY <1>2 DEF Uncounted, OnTopics
    <2>2. Known' = Known \ {t}
      BY <1>3, <1>7
    <2> QED
      BY <1>1, <1>12, <2>1, <2>2 DEF OnTopics
  <1>14. options.cleanup_only => missed' = {}
    <2> SUFFICES ASSUME options.cleanup_only PROVE missed' = {}
      OBVIOUS
    <2>1. missed = {}
      BY <1>2 DEF Uncounted
    <2>2. OnTopics(uncounted, Logged) /\ t \notin Logged
      BY <1>2, <1>9 DEF Uncounted, OnTopics, Proper
    <2>3. Count(uncounted, t) = 0
      BY <1>2, <2>2, CountOthers
    <2> QED
      BY <1>1, <2>1, <2>3
  <1>15. Counted(bag', uncounted', missed')
    <2>1. missed \subseteq missed'
      BY <1>1
    <2> QED
      BY <1>1, <1>7, <2>1 DEF Counted
  <1>10. CountInv'
    BY <1>13, <1>14, <1>15, <1>1, <1>3, <1>6, <1>7, <1>8, <1>9, RetopicedCountInv
  <1>11. TotalInv => TotalInv'
    BY <1>1, <1>3, <1>7, TotalsOfFewer DEF Known
  <1> QED
    BY <1>7, <1>10, <1>11 DEF Keeping

(* The rest of the messages, once the consumer has written what it had to. *)
LEMMA RestFacts ==
  ASSUME IInv, in_flight' = <<>>, cache' = Rest
  PROVE  /\ Range(Todo') \subseteq Range(Todo)
         /\ options.mode # "snapshot" => Range(Todo') = {}
  <1>1. IsSequence(Rest) /\ IsSequence(in_flight) /\ IsSequence(cache)
    <2>1. IsSequence(cache) /\ IsSequence(in_flight)
      BY DEF IInv
    <2> QED
      BY <2>1, EmptySequence DEF Rest
  <1>2. Todo' = Rest
    BY <1>1, EmptyJoined DEF Todo
  <1>3. Range(Todo) = Range(in_flight) \cup Range(cache)
    BY <1>1, ConcatFacts DEF Todo
  <1>4. Range(Rest) \subseteq Range(cache)
    BY EmptySequence DEF Rest
  <1>5. options.mode # "snapshot" => Rest = <<>>
    BY InvFacts DEF IInv, Modes, Rest
  <1> QED
    BY <1>2, <1>3, <1>4, <1>5, EmptySequence

(* split_bagfile(): what was cached is in the old file, and copies are in the new. *)
LEMMA SplitBagfileCounts ==
  ASSUME IInv, CountInv, DateInv, options' = options, NEW losses, NEW n, SplitBagfile(losses, n)
  PROVE  Keeping
  <1> DEFINE f == AddToFile(Written, Kept(Pending, losses))
             Q == Range(Todo)
             D == DOMAIN due
             atRisk == Range(Pending) \cup Range(Heads)
  <1>1. /\ Registered(bag, Pending)
        /\ Split(f, atRisk, losses, n)
        /\ bag' = Rolled(f, losses, n)
        /\ cache' = Rest
        /\ options.mode = "snapshot" => due' = due
        /\ UNCHANGED <<transient, last_recv, log>>
    BY DEF SplitBagfile, Rest
  <1>2. is_open /\ is_open' = is_open /\ yaml' = yaml /\ in_flight' = <<>> /\ n \in 0 .. Excess(bag)
        /\ uncounted' = <<>> /\ missed' = missed
    BY <1>1 DEF Split
  <1>3. /\ Listed(f) /\ Detailed(f) /\ Counted(f, <<>>, missed) /\ DOMAIN f.topics = Known
        /\ \A m \in Stored(f) : Proper(m)
        /\ Len(f.files) = Len(bag.files)
    BY <1>1, FlushCounts, WrittenCounts DEF Grown, Refiled
  <1>4. /\ options.mode # "snapshot" => Started(f, Q)
        /\ options.mode = "snapshot" => f = Written
        /\ Totalled(bag) => Totalled(f)
    BY <1>1, FlushDates
  <1>5. Latches(transient) /\ LatchInv /\ last_recv \in Nat /\ options \in Configurations /\ n \in 0 .. Len(f.files)
    BY <1>2, <1>3, ExcessFacts DEF IInv, CountInv
  <1> HIDE DEF f, Q, D
  <1>6. /\ Detailed(bag') /\ Counted(bag', <<>>, missed) /\ DOMAIN bag'.topics = Known
        /\ \A m \in Stored(bag') : Proper(m)
    <2> DEFINE a == Rolled(f, losses, n)
    <2>1. /\ Detailed(a) /\ Counted(a, <<>>, missed) /\ DOMAIN a.topics = Known
          /\ \A m \in Stored(a) : Proper(m)
      BY <1>3, <1>5, RollCounts
    <2> HIDE DEF a
    <2>2. bag' = a
      BY <1>1 DEF a
    <2> QED
      BY <2>1, <2>2
  <1>7. /\ options.mode # "snapshot" /\ Started(f, Q) => Started(bag', {})
        /\ options.mode = "snapshot" /\ Snapped(f, D) => Snapped(bag', D) /\ Unfilled(bag', D)
        /\ Totalled(f) /\ (\A t \in Topics : SumOver(bag'.per_file, t) < CountModulus) => Totalled(bag')
    <2> DEFINE a == Rolled(f, losses, n)
    <2>1. /\ options.mode # "snapshot" /\ Started(f, Q) => Started(a, {})
          /\ options.mode = "snapshot" /\ Snapped(f, D) => Snapped(a, D) /\ Unfilled(a, D)
          /\ Totalled(f) /\ (\A t \in Topics : SumOver(a.per_file, t) < CountModulus) => Totalled(a)
      BY <1>3, <1>5, RollDates
    <2> HIDE DEF a
    <2>2. bag' = a
      BY <1>1 DEF a
    <2> QED
      BY <2>1, <2>2
  <1>8. Range(Todo') \subseteq Range(Todo) /\ (options.mode # "snapshot" => Range(Todo') = {})
    BY <1>1, <1>2, RestFacts
  <1>9. CountInv'
    <2>1. Known' = Known
      BY <1>6 DEF Known
    <2> QED
      BY <1>1, <1>2, <1>6, <1>8, <2>1, Assembled DEF Passing
  <1>10. DateInv'
    <2>1. options.mode # "snapshot" => Started(bag', Range(Todo'))
      BY <1>4, <1>7, <1>8
    <2>2. options.mode = "snapshot" => Snapped(bag', D) /\ Unfilled(bag', D) /\ DOMAIN due' = D
      BY <1>1, <1>4, <1>7, WrittenDates DEF DateInv, D
    <2> QED
      BY <2>1, <2>2 DEF DateInv, Started, Snapped, Unfilled
  <1>11. TotalInv /\ Fits' => TotalInv'
    <2>1. ASSUME TotalInv, Fits', options.cleanup_only PROVE Totalled(bag')
      BY <1>2, <1>4, <1>7, <2>1, FitsFacts DEF TotalInv
    <2> QED
      BY <1>2, <2>1 DEF TotalInv, Totalled
  <1> QED
    BY <1>9, <1>10, <1>11 DEF Keeping

(* take_snapshot(): the snapshot fills the old file, and dates it. *)
LEMMA TakeSnapshotCounts ==
  ASSUME IInv, CountInv, DateInv, options' = options, NEW losses, NEW n, TakeSnapshot(losses, n)
  PROVE  Keeping
  <1> DEFINE y == Kept(SnapshotMessages, losses)
             f == AddSnapshot(Written, y)
             l == Len(bag.files)
             D == DOMAIN due
             E == DOMAIN due'
             atRisk == Range(SnapshotMessages)
  <1>1. /\ options.mode = "snapshot"
        /\ Registered(bag, SnapshotMessages)
        /\ Split(f, atRisk, losses, n)
        /\ bag' = Rolled(f, losses, n)
        /\ cache' = <<>>
        /\ due' = IF cache = <<>> THEN due ELSE With(due, bag.storage, Len(log))
        /\ UNCHANGED <<transient, last_recv, log>>
    BY DEF TakeSnapshot
  <1>2. is_open /\ bag.storage # NoFile /\ is_open' = is_open /\ yaml' = yaml /\ in_flight' = <<>>
        /\ n \in 0 .. Excess(bag) /\ uncounted' = <<>> /\ missed' = missed
    BY <1>1 DEF Split
  <1>3. /\ IsSequence(y) /\ Grown(Written, f, y)
        /\ Listed(f) /\ Detailed(f) /\ Counted(f, <<>>, missed) /\ DOMAIN f.topics = Known
        /\ \A m \in Stored(f) : Proper(m)
        /\ \A m \in Range(y) : Proper(m)
        /\ y # <<>> => /\ f.files[l].starting_time = Head(y).stamp
                       /\ f.files[l].duration = Last(y).stamp - Head(y).stamp
        /\ y = <<>> => f = Written
        /\ cache = <<>> => y = <<>>
    BY <1>1, <1>2, SnapshotCounts
  <1> HIDE DEF y, f
  <1>4. Len(f.files) = l
    BY <1>3, WrittenCounts DEF Grown, Refiled
  <1>5. Latches(transient) /\ LatchInv /\ last_recv \in Nat /\ options \in Configurations /\ n \in 0 .. Len(f.files)
    BY <1>2, <1>4, ExcessFacts DEF IInv, CountInv
  <1>6. /\ Listed(Written) /\ Detailed(Written) /\ Snapped(Written, D) /\ Unfilled(Written, D)
        /\ Written.storage = bag.storage /\ Len(Written.files) = l
    BY <1>1, <1>2, WrittenCounts, WrittenDates DEF DateInv
  <1>7. Snapped(f, E)
    <2>1. CASE cache = <<>>
      BY <1>1, <1>3, <1>6, <2>1
    <2>2. CASE cache # <<>>
      <3>1. E = D \cup {bag.storage}
        BY <1>1, <2>2 DEF With
      <3>2. \A m \in Range(y) : m.stamp \in Nat
        BY <1>3 DEF Proper
      <3> HIDE DEF D, E
      <3>3. Snapped(f, D \cup {bag.storage})
        BY <1>2, <1>3, <1>6, <3>2, SnappedFilled
      <3> QED
        BY <3>1, <3>3
    <2> QED
      BY <2>1, <2>2
  <1>8. Totalled(bag) => Totalled(f)
    BY <1>2, <1>3, <1>6, TotalledGrown, WrittenTotals
  <1> HIDE DEF D, E
  <1>9. /\ Detailed(bag') /\ Counted(bag', <<>>, missed) /\ DOMAIN bag'.topics = Known
        /\ \A m \in Stored(bag') : Proper(m)
    <2> DEFINE a == Rolled(f, losses, n)
    <2>1. /\ Detailed(a) /\ Counted(a, <<>>, missed) /\ DOMAIN a.topics = Known
          /\ \A m \in Stored(a) : Proper(m)
      BY <1>3, <1>5, RollCounts
    <2> HIDE DEF a
    <2>2. bag' = a
      BY <1>1 DEF a
    <2> QED
      BY <2>1, <2>2
  <1>10. /\ Snapped(bag', E) /\ Unfilled(bag', E)
         /\ Totalled(f) /\ (\A t \in Topics : SumOver(bag'.per_file, t) < CountModulus) => Totalled(bag')
    <2> DEFINE a == Rolled(f, losses, n)
               Q == {}
    <2>1. /\ options.mode = "snapshot" /\ Snapped(f, E) => Snapped(a, E) /\ Unfilled(a, E)
          /\ Totalled(f) /\ (\A t \in Topics : SumOver(a.per_file, t) < CountModulus) => Totalled(a)
      BY <1>3, <1>5, RollDates
    <2> HIDE DEF a
    <2>2. bag' = a
      BY <1>1 DEF a
    <2> QED
      BY <1>1, <1>7, <2>1, <2>2
  <1>11. Range(Todo') \subseteq Range(Todo)
    <2>1. Todo' = <<>>
      BY <1>1, <1>2, InvFacts DEF Todo
    <2> QED
      BY <2>1, EmptySequence
  <1>12. CountInv'
    <2>1. Known' = Known
      BY <1>9 DEF Known
    <2> QED
      BY <1>1, <1>2, <1>9, <1>11, <2>1, Assembled DEF Passing
  <1>13. DateInv'
    BY <1>1, <1>10 DEF DateInv, Snapped, Unfilled, E
  <1>14. TotalInv /\ Fits' => TotalInv'
    <2>1. ASSUME TotalInv, Fits', options.cleanup_only PROVE Totalled(bag')
      BY <1>2, <1>8, <1>10, <2>1, FitsFacts DEF TotalInv
    <2> QED
      BY <1>2, <2>1 DEF TotalInv, Totalled
  <1> QED
    BY <1>12, <1>13, <1>14 DEF Keeping

(* What write() leaves once its message is recorded. *)
LEMMA RecordedKeeps ==
  ASSUME IInv', CountInv, options' = options, is_open',
         NEW b, NEW w, NEW queued, NEW m, Recorded(b, w, queued, m, DOMAIN due'),
         m.topic \in Known, in_flight' = w,
         uncounted' \in {uncounted, <<>>}, missed' = missed,
         options.mode # "snapshot" => Started(b, Range(w) \cup Range(queued)),
         options.mode = "snapshot" => Snapped(b, DOMAIN due') /\ Unfilled(b, DOMAIN due'),
         TotalInv /\ Fits' /\ options.cleanup_only => Totalled(b)
  PROVE  Keeping
  <1> DEFINE E == DOMAIN due'
  <1>1. /\ last_recv' \in Nat
        /\ Detailed(bag') /\ Counted(bag', uncounted', missed')
        /\ \A x \in Stored(bag') \cup Range(w) \cup Range(cache') : x.stamp \in Nat /\ x.topic \in Logged'
        /\ LatchInv'
        /\ Known' = Known /\ Logged' = Logged \cup {m.topic}
        /\ options.mode # "snapshot" /\ Started(b, Range(w) \cup Range(queued))
           => Started(bag', Range(w) \cup Range(cache'))
        /\ options.mode = "snapshot" /\ Snapped(b, E) /\ Unfilled(b, E) => Snapped(bag', E) /\ Unfilled(bag', E)
        /\ Totalled(b) => Totalled(bag')
    BY DEF Recorded
  <1> HIDE DEF E
  <1>2. Range(Todo') = Range(w) \cup Range(cache')
    <2>1. IsSequence(in_flight') /\ IsSequence(cache')
      BY DEF IInv, IsSequence
    <2>2. Todo' = w \o cache'
      BY DEF Todo
    <2> QED
      BY <2>1, <2>2, ConcatFacts
  <1>3. CountInv'
    <2>1. \A x \in Stored(bag') \cup Range(Todo') : x.stamp \in Nat /\ x.topic \in Logged'
      BY <1>1, <1>2
    <2>2. (\A x \in Stored(bag) \cup Range(Todo) : Proper(x))'
      BY <2>1 DEF Proper, Stored
    <2>3. options'.cleanup_only => Logged' \subseteq Known'
      BY <1>1 DEF CountInv
    <2>4. Uncounted'
      BY <1>1, UncountedPasses DEF CountInv, Passing
    <2> QED
      BY <1>1, <2>2, <2>3, <2>4 DEF CountInv
  <1>4. DateInv'
    <2>1. options.mode # "snapshot" => Started(bag', Range(Todo'))
      BY <1>1, <1>2
    <2>2. options.mode = "snapshot" => Snapped(bag', E) /\ Unfilled(bag', E)
      BY <1>1 DEF E
    <2> QED
      BY <2>1, <2>2 DEF DateInv, Started, Snapped, Unfilled, E
  <1>5. TotalInv /\ Fits' => TotalInv'
    <2>1. ASSUME TotalInv, Fits', options.cleanup_only PROVE Totalled(bag')
      BY <1>1, <2>1
    <2> QED
      BY <2>1 DEF TotalInv, Totalled
  <1> QED
    BY <1>3, <1>4, <1>5 DEF Keeping

(* write() to the same file. *)
LEMMA WriteCounts ==
  ASSUME IInv, CountInv, DateInv, options' = options, NEW t, NEW stamp, NEW losses, Write(t, stamp, losses)
  PROVE  Keeping
  <1> DEFINE m == NewMessage(t, stamp)
             D == DOMAIN due'
  <1>1. /\ is_open /\ is_open' = is_open /\ in_flight' = in_flight /\ due' = due
        /\ uncounted' = uncounted /\ missed' = missed
        /\ t \in Known /\ stamp \in options.stamps
        /\ bag.storage = NoFile => options.mode # "direct"
        /\ Store(bag, m, cache, losses)
    BY DEF Write, Writable
  <1>2. m.stamp \in Nat /\ m.topic \in Known /\ m.id = Len(log) + 1
    BY <1>1, NoTimeIsLate DEF NewMessage, IInv
  <1> HIDE DEF m, D
  <1>3. IInv'
    BY WriteKeeps
  <1>4. /\ options \in Configurations /\ IsSequence(log) /\ Latches(transient) /\ LatchInv
        /\ Listed(bag) /\ Detailed(bag) /\ Counted(bag, uncounted', missed') /\ DOMAIN bag.topics = Known /\ Len(bag.files) > 0
        /\ IsSequence(in_flight) /\ IsSequence(cache)
    BY <1>1, InvFacts DEF IInv, CountInv, Known, Modes
  <1>5. Range(Todo) = Range(in_flight) \cup Range(cache) /\ Len(cache) \in Nat
    BY <1>4, ConcatFacts, SequenceFacts DEF Todo
  <1>6. \A x \in Stored(bag) \cup Range(in_flight) \cup Range(cache) : Proper(x)
    BY <1>5 DEF CountInv
  <1>7. Recorded(bag, in_flight, cache, m, D)
    <2>1. options.mode = "direct" => bag.storage # NoFile
      BY <1>1
    <2>2. Store(bag, m, cache, losses)
      BY <1>1
    <2> QED
      BY <1>2, <1>4, <1>5, <1>6, <2>1, <2>2, Recording
  <1>8. Recorded(bag, in_flight, cache, m, DOMAIN due')
    BY <1>7 DEF D
  <1>9. options.mode # "snapshot" => Started(bag, Range(in_flight) \cup Range(cache))
    BY <1>5 DEF DateInv
  <1>10. options.mode = "snapshot" => Snapped(bag, DOMAIN due') /\ Unfilled(bag, DOMAIN due')
    BY <1>1 DEF DateInv
  <1>11. TotalInv /\ Fits' /\ options.cleanup_only => Totalled(bag)
    BY <1>1 DEF TotalInv
  <1> QED
    BY <1>1, <1>2, <1>3, <1>8, <1>9, <1>10, <1>11, RecordedKeeps

(* write() that splits: the new file starts with copies, then with the message. *)
LEMMA SplitAndWriteCounts ==
  ASSUME IInv, CountInv, DateInv, options' = options, NEW t, NEW stamp, NEW losses, NEW n,
         SplitAndWrite(t, stamp, losses, n)
  PROVE  Keeping
  <1> DEFINE m == NewMessage(t, stamp)
             new == IF options.mode = "direct" THEN {m} ELSE {}
             f == AddToFile(Written, Kept(Pending, losses))
             a == Rolled(f, losses, n)
             l == Len(a.files)
             b == [a EXCEPT !.files[l].starting_time = stamp]
             Q == Range(Todo)
             D == DOMAIN due'
             none == <<>>
             atRisk == Range(Pending) \cup Range(Heads) \cup new
  <1>1. /\ t \in Known /\ stamp \in options.stamps
        /\ options.mode # "snapshot"
        /\ Registered(bag, Pending)
        /\ Split(f, atRisk, losses, n)
        /\ Store(b, m, none, losses)
    BY DEF SplitAndWrite, SplitsFor, Writable
  <1>2. is_open /\ is_open' = is_open /\ in_flight' = <<>> /\ n \in 0 .. Excess(bag)
        /\ uncounted' = <<>> /\ missed' = missed
    BY <1>1 DEF Split
  <1>3. m.stamp \in Nat /\ m.topic \in Known /\ m.id = Len(log) + 1 /\ stamp \in Nat /\ m.stamp = stamp
    BY <1>1, NoTimeIsLate DEF NewMessage, IInv
  <1> HIDE DEF m
  <1>4. IInv'
    BY SplitAndWriteKeeps
  <1>5. /\ Listed(f) /\ Detailed(f) /\ Counted(f, <<>>, missed) /\ DOMAIN f.topics = Known
        /\ \A x \in Stored(f) : Proper(x)
        /\ Len(f.files) = Len(bag.files)
    BY <1>1, FlushCounts, WrittenCounts DEF Grown, Refiled
  <1>6. Started(f, Q) /\ (Totalled(bag) => Totalled(f))
    BY <1>1, FlushDates
  <1>7. /\ Latches(transient) /\ LatchInv /\ last_recv \in Nat /\ options \in Configurations
        /\ n \in 0 .. Len(f.files) /\ IsSequence(log)
    BY <1>2, <1>5, ExcessFacts DEF IInv, CountInv
  <1> HIDE DEF f, Q, D
  <1>8. /\ Listed(a) /\ Detailed(a) /\ Counted(a, <<>>, missed) /\ DOMAIN a.topics = Known
        /\ \A x \in Stored(a) : Proper(x)
        /\ a.storage # NoFile /\ l > 0
    BY <1>5, <1>7, RollCounts
  <1>9. /\ Started(a, {})
        /\ Copies(a.disk[a.files[l].index].messages)
        /\ Totalled(f) /\ (\A u \in Topics : SumOver(a.per_file, u) < CountModulus) => Totalled(a)
    BY <1>1, <1>5, <1>6, <1>7, RollDates
  <1> HIDE DEF a
  <1>10. Grown(a, b, <<>>) /\ b.files[l].starting_time = stamp
    BY <1>8, RestartGrows
  <1> HIDE DEF b
  <1>11. IsSequence(<<>>) /\ Range(<<>>) = {} /\ Len(<<>>) = 0
    BY EmptySequence
  <1>12. Listed(b) /\ Detailed(b) /\ Counted(b, <<>>, missed) /\ Stored(b) = Stored(a)
    <2>1. Stored(b) = Stored(a) \cup Range(<<>>)
      BY <1>8, <1>10, <1>11, RefiledStored DEF Grown
    <2> QED
      BY <1>8, <1>10, <1>11, <2>1, GrownCounts
  <1>13. b.storage # NoFile /\ Len(b.files) = l /\ DOMAIN b.topics = Known
    BY <1>8, <1>10 DEF Grown, Refiled
  <1>14. Started(b, {})
    <2>1. b.files[Len(a.files)].starting_time \in Nat
      BY <1>3, <1>10
    <2> QED
      BY <1>8, <1>9, <1>10, <2>1, StartedAgain
  <1>15. IsSequence(none) /\ Range(none) = {} /\ Len(none) \in Nat
    BY <1>11
  <1> HIDE DEF none
  <1>16. Recorded(b, none, none, m, D)
    <2>1. \A x \in Stored(b) \cup Range(none) \cup Range(none) : Proper(x)
      BY <1>8, <1>12, <1>15
    <2>2. options.mode = "direct" => b.storage # NoFile
      BY <1>13
    <2>3. Store(b, m, none, losses) /\ Len(b.files) > 0
      BY <1>1, <1>8, <1>13
    <2>4. Counted(b, uncounted', missed')
      BY <1>2, <1>12
    <2> QED
      BY <1>3, <1>7, <1>12, <1>13, <1>15, <2>1, <2>2, <2>3, <2>4, Recording
  <1>17. \A u \in Topics : SumOver(a.per_file, u) <= SumOver(bag'.per_file, u)
    <2>1. \A u \in Topics : SumOver(a.per_file, u) <= SumOver(b.per_file, u)
      BY <1>8, <1>10, <1>11, TotalledGrown
    <2>2. Detailed(bag') /\ \A u \in Topics : SumOver(b.per_file, u) <= SumOver(bag'.per_file, u)
      BY <1>16 DEF Recorded
    <2>3. \A u \in Topics : SumOver(a.per_file, u) \in Nat /\ SumOver(b.per_file, u) \in Nat
                            /\ SumOver(bag'.per_file, u) \in Nat
      BY <1>8, <1>12, <2>2, SumOverFields
    <2> QED
      BY <2>1, <2>2, <2>3
  <1>18. ASSUME TotalInv, Fits', options.cleanup_only PROVE Totalled(b)
    <2>1. Totalled(f)
      BY <1>2, <1>6, <1>18 DEF TotalInv
    <2>2. \A u \in Topics : SumOver(a.per_file, u) < CountModulus
      <3>1. \A u \in Topics : SumOver(bag'.per_file, u) < CountModulus
        BY <1>18, FitsFacts
      <3>2. Detailed(bag')
        BY <1>16 DEF Recorded
      <3>3. \A u \in Topics : SumOver(a.per_file, u) \in Nat /\ SumOver(bag'.per_file, u) \in Nat
        BY <1>8, <3>2, SumOverFields
      <3>4. CountModulus \in Nat
        BY WriterAssumption
      <3> QED
        BY <1>17, <3>1, <3>3, <3>4
    <2>3. Totalled(a)
      BY <1>9, <2>1, <2>2
    <2> QED
      BY <1>8, <1>10, <1>11, <2>3, TotalledGrown
  <1>19. Recorded(b, none, none, m, DOMAIN due')
    BY <1>16 DEF D
  <1>20. options.mode # "snapshot" => Started(b, Range(none) \cup Range(none))
    BY <1>14, <1>15
  <1>21. in_flight' = none /\ is_open'
    BY <1>2 DEF none
  <1> QED
    BY <1>1, <1>2, <1>3, <1>4, <1>18, <1>19, <1>20, <1>21, RecordedKeeps

(* No file, no message. *)
LEMMA InitCounts == Init => CountInv /\ DateInv /\ TotalInv
  <1> SUFFICES ASSUME Init PROVE CountInv /\ DateInv /\ TotalInv
    OBVIOUS
  <1>1. /\ bag.storage = NoFile /\ bag.disk = <<>> /\ bag.files = <<>> /\ bag.per_file = <<>>
        /\ bag.topics = <<>>
        /\ is_open = FALSE /\ transient = <<>> /\ cache = <<>> /\ in_flight = <<>>
        /\ uncounted = <<>> /\ missed = {}
        /\ last_recv = 0 /\ log = <<>> /\ due = <<>>
    BY DEF Init
  <1>2. IsSequence(<<>>) /\ Range(<<>>) = {} /\ Len(<<>>) = 0 /\ DOMAIN <<>> = {} /\ <<>> \o <<>> = <<>>
    BY EmptySequence, EmptyJoined
  <1>3. Stored(bag) = {} /\ Range(Todo) = {} /\ Logged = {} /\ Known = {}
    <2>1. Todo = <<>>
      BY <1>1, <1>2 DEF Todo
    <2>2. 1 .. 0 = {}
      OBVIOUS
    <2> QED
      BY <1>1, <1>2, <2>1, <2>2 DEF Stored, Logged, Known
  <1>4. Detailed(bag)
    <2>1. Tabled(bag)
      BY <1>1, <1>2 DEF Tabled
    <2>2. IsFiniteSet({})
      BY FS_EmptySet
    <2> QED
      BY <1>1, <1>2, <2>1, <2>2 DEF Detailed
  <1>5. Counted(bag, uncounted, missed) /\ Uncounted
    BY <1>1, <1>2 DEF Counted, Uncounted, OnTopics
  <1>6. CountInv
    BY <1>1, <1>2, <1>3, <1>4, <1>5 DEF CountInv, LatchInv
  <1>7. DateInv
    BY <1>1, <1>2, <1>3 DEF DateInv, Started, Snapped
  <1>8. TotalInv
    BY <1>1, <1>2 DEF TotalInv
  <1> QED
    BY <1>6, <1>7, <1>8

(* Every step of a call or of the consumer keeps them. *)
LEMMA NextCounted == IInv /\ CountInv /\ DateInv /\ [Next]_vars => Keeping
  <1> SUFFICES ASSUME IInv, CountInv, DateInv, [Next]_vars PROVE Keeping
    OBVIOUS
  <1>1. CASE UNCHANGED vars
    <2>1. UNCHANGED <<options, is_open, bag, yaml, transient, last_recv, uncounted, log, due, missed, cache, in_flight>>
      BY <1>1 DEF vars, callVars, pipe, history
    <2>2. Range(Todo') = Range(Todo)
      BY <2>1 DEF Todo
    <2> QED
      BY <2>1, <2>2, IdleKeeps
  <1>2. CASE Next
    <2>1. options' = options
      BY <1>2 DEF Next
    <2>2. ASSUME NEW convert, Open(convert) \/ OpenFails(convert) PROVE Keeping
      BY <2>1, <2>2, OpenCounts, OpenFailsCounts
    <2>3. ASSUME NEW losses \in Losses(Pending), Close(losses) \/ RolloverFails(losses) PROVE Keeping
      BY <2>1, <2>3, CloseCounts, RolloverFailsCounts
    <2>4. ASSUME NEW t \in Topics, CreateTopic(t) \/ RemoveTopic(t) PROVE Keeping
      BY <2>1, <2>4, CreateTopicCounts, RemoveTopicCounts
    <2>5. ASSUME NEW losses, NEW n, SplitBagfile(losses, n) \/ TakeSnapshot(losses, n) PROVE Keeping
      BY <2>1, <2>5, SplitBagfileCounts, TakeSnapshotCounts
    <2>6. ASSUME NEW t, NEW stamp, NEW losses, Write(t, stamp, losses) PROVE Keeping
      BY <2>1, <2>6, WriteCounts
    <2>7. ASSUME NEW t, NEW stamp, NEW losses, NEW n, SplitAndWrite(t, stamp, losses, n) PROVE Keeping
      BY <2>1, <2>7, SplitAndWriteCounts
    <2>8. CASE SwapBuffers
      BY <2>1, <2>8, SwapBuffersCounts
    <2>9. ASSUME NEW losses, StoreMessages(losses) PROVE Keeping
      BY <2>1, <2>9, StoreMessagesCounts
    <2>11. CASE CountMessages
      BY <2>1, <2>11, CountMessagesCounts
    <2>10. CASE Crash
      BY <2>1, <2>10, CrashCounts
    <2> QED
      BY <1>2, <2>2, <2>3, <2>4, <2>5, <2>6, <2>7, <2>8, <2>9, <2>10, <2>11 DEF Next
  <1> QED
    BY <1>1, <1>2

(* For any options, topics and depth, whatever the storage refuses, whenever the
   consumer runs and whatever topics are removed meanwhile: the counts of the files are
   those of their messages, but for what the consumer has stored and not counted yet and
   for topics removed just then; and no file starts after one of its own. *)
THEOREM CountInvariance == Spec => [](CountInv /\ DateInv)
  <1>1. Init => IInv /\ CountInv /\ DateInv
    BY InitHolds, InitCounts
  <1>2. IInv /\ CountInv /\ DateInv /\ [Next]_vars => IInv' /\ CountInv' /\ DateInv'
    BY NextKeeps, NextCounted DEF Keeping
  <1> QED
    BY <1>1, <1>2, PTL DEF Spec

(* In snapshot mode a file that no snapshot filled is empty, and the dates of a filled
   one are those of its first and last message. *)
THEOREM SnapshotSafety == Spec => []SnapshotFilesAreExact
  <1>1. IInv /\ DateInv => SnapshotFilesAreExact
    <2> SUFFICES ASSUME IInv, DateInv, options.mode = "snapshot", NEW i \in DOMAIN bag.files
                 PROVE  LET f == bag.files[i]
                            messages == bag.disk[f.index].messages
                        IN  IF f.index \notin DOMAIN due THEN messages = <<>> ELSE Exact(f, messages)
      BY DEF SnapshotFilesAreExact, Exact
    <2>1. Snapped(bag, DOMAIN due)
      BY DEF DateInv
    <2>2. i \in 1 .. Len(bag.files)
      BY InvFacts, SequenceFacts DEF Listed
    <2> QED
      BY <2>1, <2>2 DEF Snapped
  <1> QED
    BY <1>1, Invariance, CountInvariance, PTL

(* There are as many files on disk as are listed. *)
LEMMA FilesOnDisk ==
  ASSUME NEW b, Listed(b)
  PROVE  Cardinality(DOMAIN b.disk) = Len(b.files)
  <1> DEFINE l == Len(b.files)
             index == [i \in 1 .. l |-> b.files[i].index]
  <1>1. l \in Nat
    BY SequenceFacts DEF Listed
  <1>2. index \in [1 .. l -> DOMAIN b.disk]
    BY DEF Listed
  <1>3. \A k \in DOMAIN b.disk : \E i \in 1 .. l : index[i] = k
    BY DEF Listed
  <1>4. ASSUME NEW i \in 1 .. l, NEW j \in 1 .. l, index[i] = index[j] PROVE i = j
    <2>1. i < j => index[i] < index[j]
      BY DEF Listed
    <2>2. j < i => index[j] < index[i]
      BY DEF Listed
    <2>3. index[i] \in Nat /\ index[j] \in Nat
      BY DEF Listed
    <2> HIDE DEF index
    <2> QED
      BY <1>1, <1>4, <2>1, <2>2, <2>3
  <1>5. IsFiniteSet(1 .. l) /\ Cardinality(1 .. l) = l
    BY <1>1, FS_Interval
  <1> HIDE DEF index, l
  <1>6. index \in Bijection(1 .. l, DOMAIN b.disk)
    BY <1>2, <1>3, <1>4 DEF Bijection, Injection, Surjection, IsInjective
  <1>7. ExistsBijection(1 .. l, DOMAIN b.disk)
    BY <1>6 DEF ExistsBijection
  <1> QED
    BY <1>5, <1>7, FS_Bijection DEF l

(* What metadata_ says at every moment, and metadata.yaml at the end, is what is on
   disk, for any options, as long as the counts fit in size_t; the counts of a file but
   for what the consumer is about to count, and for topics removed before it could. *)
THEOREM MetadataSafety == Spec /\ []Fits => []MetadataIsRight
  <1>1. IInv /\ CountInv /\ DateInv /\ TotalInv /\ [Next]_vars /\ Fits'
        => IInv' /\ CountInv' /\ DateInv' /\ TotalInv'
    BY NextKeeps, NextCounted DEF Keeping
  <1>2. Init => IInv /\ CountInv /\ DateInv /\ TotalInv
    BY InitHolds, InitCounts
  <1>3. Spec /\ []Fits => [](IInv /\ CountInv /\ DateInv /\ TotalInv)
    BY <1>1, <1>2, PTL DEF Spec
  <1>4. IInv /\ CountInv => Listed(bag) /\ Detailed(bag) /\ Counted(bag, uncounted, missed) /\ DOMAIN bag.files = 1 .. Len(bag.files)
    BY InvFacts, SequenceFacts DEF CountInv, Listed
  <1>5. IInv /\ CountInv /\ TotalInv => CountsMatchFiles
    <2> SUFFICES ASSUME IInv, CountInv, TotalInv PROVE CountsMatchFiles
      OBVIOUS
    <2>1. \A i \in DOMAIN bag.files :
            LET messages == bag.disk[bag.files[i].index].messages
                rest == IF i = Len(bag.files) THEN uncounted ELSE <<>>
            IN  /\ bag.files[i].message_count = Len(messages)
                /\ \A t \in Topics \ missed : bag.per_file[i][t] + Count(rest, t) = Count(messages, t)
      BY <1>4 DEF Counted
    <2>2. is_open /\ options.cleanup_only => \A t \in Known : bag.topics[t] = TotalOf(bag.per_file, t)
      BY TotalsAreSums DEF TotalInv, Totalled, Known
    <2> QED
      BY <2>1, <2>2 DEF CountsMatchFiles
  <1>6. IInv /\ CountInv /\ TotalInv => ClosedBagIsDescribed
    <2> SUFFICES ASSUME IInv, CountInv, TotalInv, ~is_open, DOMAIN bag.disk # {}
                 PROVE  /\ \A i \in DOMAIN bag.files :
                             yaml.files[i].message_count = Len(bag.disk[bag.files[i].index].messages)
                        /\ Len(yaml.files) = Cardinality(DOMAIN bag.disk)
                        /\ options.cleanup_only => yaml.message_count = TotalOf(yaml.files, "message_count")
      BY DEF ClosedBagIsDescribed
    <2>1. yaml.files = bag.files
      BY DEF TotalInv
    <2>2. \A i \in DOMAIN bag.files :
             yaml.files[i].message_count = Len(bag.disk[bag.files[i].index].messages)
      BY <1>4, <2>1 DEF Counted
    <2>3. Len(yaml.files) = Cardinality(DOMAIN bag.disk)
      BY <1>4, <2>1, FilesOnDisk
    <2>4. options.cleanup_only => yaml.message_count = TotalOf(yaml.files, "message_count")
      BY <2>1, TotalsAreSums DEF TotalInv
    <2> QED
      BY <2>2, <2>3, <2>4
  <1>7. IInv /\ CountInv /\ DateInv => StartsAreEarliest
    <2> SUFFICES ASSUME IInv, CountInv, DateInv, options.mode # "snapshot", NEW i \in DOMAIN bag.files,
                        NEW m \in {x \in Range(bag.disk[bag.files[i].index].messages) : ~x.repeat}
                           \cup (IF i = Len(bag.files) /\ is_open THEN Range(in_flight \o cache) ELSE {})
                 PROVE  bag.files[i].starting_time <= m.stamp
      BY DEF StartsAreEarliest
    <2>1. Started(bag, Range(Todo)) /\ i \in 1 .. Len(bag.files)
      BY <1>4 DEF DateInv
    <2>2. CASE m \in {x \in Range(bag.disk[bag.files[i].index].messages) : ~x.repeat}
      BY <2>1, <2>2 DEF Started
    <2>3. CASE i = Len(bag.files) /\ m \in Range(in_flight \o cache)
      BY <2>1, <2>3 DEF Started, Todo
    <2> QED
      BY <2>2, <2>3
  <1>8. IInv /\ CountInv /\ DateInv /\ TotalInv /\ FilesAreListed /\ RetentionLimit => MetadataIsRight
    BY <1>5, <1>6, <1>7 DEF MetadataIsRight
  <1> QED
    BY <1>3, <1>8, FilesSafety, PTL

-----------------------------------------------------------------------------
(* The latched messages are the latest. *)

(* A queue of topic t holds the newest messages of the topic in l. *)
Window(queue, t, l) ==
    LET s == queue.messages IN
    /\ queue.max_depth = Depth /\ Len(s) <= Depth
    /\ \A p \in 1 .. Len(s) : s[p].id \in 1 .. Len(l) /\ l[s[p].id].topic = t
    /\ \A i \in 1 .. Len(l) : l[i].topic = t =>
          (\E p \in 1 .. Len(s) : s[p].id = i) \/ (Len(s) = Depth /\ i < s[1].id)

Windows ==
    /\ DOMAIN transient = Known \cap Latched
    /\ \A t \in DOMAIN transient : Window(transient[t], t, log)

(* The last messages of the latched topics among the first n of l. *)
LastOf(l, n) ==
    {i \in 1 .. n : l[i].topic \in Latched /\
                    Cardinality({j \in i + 1 .. n : l[j].topic = l[i].topic}) < Depth}

(* As many different ids as positions. *)
LEMMA DistinctIds ==
  ASSUME NEW a \in Nat, NEW n \in Nat, NEW s, \A p, q \in a .. n : p # q => s[p].id # s[q].id
  PROVE  /\ IsFiniteSet({s[p].id : p \in a .. n})
         /\ Cardinality({s[p].id : p \in a .. n}) = IF a > n THEN 0 ELSE n - a + 1
  <1> DEFINE T == {s[p].id : p \in a .. n}
             f == [p \in a .. n |-> s[p].id]
  <1>1. f \in Surjection(a .. n, T) /\ f \in Injection(a .. n, T)
    BY DEF Surjection, Injection, IsInjective
  <1>2. IsFiniteSet(a .. n) /\ Cardinality(a .. n) = IF a > n THEN 0 ELSE n - a + 1
    BY FS_Interval
  <1> HIDE DEF T, f
  <1>3. IsFiniteSet(T) /\ (Cardinality(T) = Cardinality(a .. n) <=> f \in Injection(a .. n, T))
    BY <1>1, <1>2, FS_Surjection
  <1> QED
    BY <1>1, <1>2, <1>3 DEF T

(* Fewer than Depth messages follow one of the queue, and at least as many one that
   the queue has dropped. *)
LEMMA WindowIsLast ==
  ASSUME IsSequence(log), NEW s, IsSequence(s), NEW t, Own(s, t),
         NEW depth, Window([max_depth |-> depth, messages |-> s], t, log),
         NEW i \in 1 .. Len(log), log[i].topic = t
  PROVE  (\E p \in 1 .. Len(s) : s[p].id = i)
         <=> Cardinality({j \in i + 1 .. Len(log) : log[j].topic = t}) < Depth
  <1> DEFINE n == Len(s)
             after == {j \in i + 1 .. Len(log) : log[j].topic = t}
  <1>1. n \in Nat /\ Len(log) \in Nat /\ Depth \in Nat \ {0} /\ i \in Nat
    BY SequenceFacts, WriterAssumption
  <1>2. \A p \in 1 .. n : s[p].id \in 1 .. Len(log) /\ log[s[p].id].topic = t
    BY DEF Window
  <1>3. \A j \in 1 .. Len(log) : log[j].topic = t => (\E p \in 1 .. n : s[p].id = j) \/ (n = Depth /\ j < s[1].id)
    BY DEF Window
  <1>4. \A p, q \in 1 .. n : p < q => s[p].id < s[q].id
    BY DEF Own
  <1>5. n <= Depth
    BY DEF Window
  <1>6. \A a \in 1 .. n + 1 : LET T == {s[p].id : p \in a .. n} IN
           IsFiniteSet(T) /\ Cardinality(T) = n - a + 1
    <2> TAKE a \in 1 .. n + 1
    <2>1. \A p, q \in a .. n : p # q => s[p].id # s[q].id
      <3> TAKE p \in a .. n, q \in a .. n
      <3>1. p \in 1 .. n /\ q \in 1 .. n /\ s[p].id \in Nat /\ s[q].id \in Nat
        BY <1>1, <1>2
      <3> QED
        BY <3>1, <1>4
    <2> HIDE DEF n
    <2>2. n \in Nat /\ a \in Nat /\ (IF a > n THEN 0 ELSE n - a + 1) = n - a + 1
      BY <1>1
    <2>3. /\ IsFiniteSet({s[p].id : p \in a .. n})
          /\ Cardinality({s[p].id : p \in a .. n}) = IF a > n THEN 0 ELSE n - a + 1
      BY <2>1, <2>2, DistinctIds
    <2> QED
      BY <2>2, <2>3
  <1>7. IsFiniteSet(after)
    <2>1. after \subseteq i + 1 .. Len(log) /\ IsFiniteSet(i + 1 .. Len(log))
      BY <1>1, FS_Interval
    <2> QED
      BY <2>1, FS_Subset
  <1> HIDE DEF after, n
  <1>8. ASSUME NEW p \in 1 .. n, s[p].id = i PROVE Cardinality(after) < Depth
    <2> DEFINE T == {s[q].id : q \in p + 1 .. n}
    <2>1. after \subseteq T
      <3> SUFFICES ASSUME NEW j \in after PROVE j \in T
        OBVIOUS
      <3>1. j \in 1 .. Len(log) /\ j > i /\ log[j].topic = t
        BY <1>1 DEF after
      <3>2. s[1].id <= i
        <4>1. s[1].id \in Nat /\ (1 < p => s[1].id < s[p].id)
          BY <1>1, <1>2, <1>4
        <4> QED
          BY <1>1, <1>8, <4>1
      <3>3. s[1].id \in Nat
        BY <1>1, <1>2
      <3>4. PICK q \in 1 .. n : s[q].id = j
        BY <3>1, <3>2, <3>3, <1>1, <1>3
      <3>5. q > p
        <4>1. q < p => s[q].id < s[p].id
          BY <1>4
        <4> QED
          BY <1>1, <1>8, <3>1, <3>4, <4>1
      <3> QED
        BY <1>1, <3>4, <3>5
    <2>2. IsFiniteSet(T) /\ Cardinality(T) = n - p
      <3>1. p + 1 \in 1 .. n + 1 /\ n - (p + 1) + 1 = n - p
        BY <1>1
      <3> QED
        BY <1>6, <3>1
    <2> HIDE DEF T
    <2>3. Cardinality(after) <= Cardinality(T) /\ Cardinality(after) \in Nat
      BY <2>1, <2>2, <1>7, FS_Subset, FS_CardinalityType
    <2> QED
      BY <1>1, <1>5, <2>2, <2>3
  <1>9. ASSUME Cardinality(after) < Depth PROVE \E p \in 1 .. n : s[p].id = i
    <2> SUFFICES ASSUME n = Depth, i < s[1].id PROVE FALSE
      BY <1>3
    <2> DEFINE T == {s[q].id : q \in 1 .. n}
    <2>1. T \subseteq after
      <3> SUFFICES ASSUME NEW q \in 1 .. n PROVE s[q].id \in after
        OBVIOUS
      <3>1. s[q].id \in Nat /\ s[1].id \in Nat /\ (1 < q => s[1].id < s[q].id)
        BY <1>1, <1>2, <1>4
      <3>2. s[q].id > i
        BY <1>1, <3>1
      <3> QED
        BY <1>1, <1>2, <3>1, <3>2 DEF after
    <2>2. IsFiniteSet(T) /\ Cardinality(T) = n
      <3>1. 1 \in 1 .. n + 1 /\ n - 1 + 1 = n
        BY <1>1
      <3> QED
        BY <1>6, <3>1
    <2> HIDE DEF T
    <2>3. Cardinality(T) <= Cardinality(after) /\ Cardinality(after) \in Nat
      BY <2>1, <2>2, <1>7, FS_Subset, FS_CardinalityType
    <2> QED
      BY <1>1, <1>9, <2>2, <2>3
  <1> QED
    BY <1>8, <1>9 DEF after, n

(* The ids of the latched messages: each once. *)
LEMMA LatchedIds ==
  ASSUME IsSequence(log), Latches(transient), LatchInv, Windows, Logged \subseteq Known
  PROVE  /\ {m.id : m \in All(transient)} = LastOf(log, Len(log))
         /\ \A m, n \in All(transient) : m.id = n.id => m = n
  <1>1. \A t \in DOMAIN transient :
           /\ IsSequence(transient[t].messages) /\ Own(transient[t].messages, t)
           /\ Window([max_depth |-> transient[t].max_depth, messages |-> transient[t].messages], t, log)
    BY DEF Latches, LatchInv, Windows, Window
  <1>2. \A t \in DOMAIN transient : \A i \in 1 .. Len(log) : log[i].topic = t =>
           ((\E p \in 1 .. Len(transient[t].messages) : transient[t].messages[p].id = i)
            <=> Cardinality({j \in i + 1 .. Len(log) : log[j].topic = t}) < Depth)
    <2> TAKE t \in DOMAIN transient
    <2> TAKE i \in 1 .. Len(log)
    <2> HAVE log[i].topic = t
    <2> DEFINE s == transient[t].messages
               d == transient[t].max_depth
    <2>1. IsSequence(s) /\ Own(s, t) /\ Window([max_depth |-> d, messages |-> s], t, log)
      BY <1>1
    <2> HIDE DEF s, d
    <2>2. (\E p \in 1 .. Len(s) : s[p].id = i) <=> Cardinality({j \in i + 1 .. Len(log) : log[j].topic = t}) < Depth
      BY <2>1, WindowIsLast
    <2> QED
      BY <2>2 DEF s
  <1>3. \A m : m \in All(transient) <=>
           \E t \in DOMAIN transient : \E p \in 1 .. Len(transient[t].messages) : m = transient[t].messages[p]
    <2>1. \A t \in DOMAIN transient :
             Range(transient[t].messages) = {transient[t].messages[p] : p \in 1 .. Len(transient[t].messages)}
      BY <1>1, SequenceFacts
    <2> TAKE m
    <2>2. m \in All(transient) <=> \E t \in DOMAIN transient : m \in Range(transient[t].messages)
      BY DEF All
    <2> QED
      BY <2>1, <2>2
  <1>4. \A t \in DOMAIN transient : \A p \in 1 .. Len(transient[t].messages) :
           LET m == transient[t].messages[p] IN m.id \in 1 .. Len(log) /\ log[m.id].topic = t /\ m.topic = t
    BY DEF Windows, Window, LatchInv, Own
  <1>5. ASSUME NEW m \in All(transient) PROVE m.id \in LastOf(log, Len(log))
    <2>1. PICK t \in DOMAIN transient : \E p \in 1 .. Len(transient[t].messages) : m = transient[t].messages[p]
      BY <1>3
    <2>2. m.id \in 1 .. Len(log) /\ log[m.id].topic = t /\ t \in Latched
      BY <1>4, <2>1 DEF Windows
    <2>3. Cardinality({j \in m.id + 1 .. Len(log) : log[j].topic = t}) < Depth
      BY <1>2, <2>1, <2>2
    <2> QED
      BY <2>2, <2>3 DEF LastOf
  <1>6. ASSUME NEW i \in LastOf(log, Len(log)) PROVE \E m \in All(transient) : m.id = i
    <2> DEFINE t == log[i].topic
    <2>1. i \in 1 .. Len(log) /\ t \in Latched /\ Cardinality({j \in i + 1 .. Len(log) : log[j].topic = t}) < Depth
      BY DEF LastOf
    <2>2. t \in DOMAIN transient
      BY <2>1 DEF Windows, Logged
    <2> HIDE DEF t
    <2>3. log[i].topic = t
      BY DEF t
    <2>4. PICK p \in 1 .. Len(transient[t].messages) : transient[t].messages[p].id = i
      BY <1>2, <2>1, <2>2, <2>3
    <2> QED
      BY <1>3, <2>2, <2>4
  <1>7. ASSUME NEW m \in All(transient), NEW n \in All(transient), m.id = n.id PROVE m = n
    <2>1. ASSUME NEW x \in All(transient) PROVE x.topic = log[x.id].topic
      <3>1. PICK t \in DOMAIN transient : \E p \in 1 .. Len(transient[t].messages) : x = transient[t].messages[p]
        BY <1>3, <2>1
      <3>2. PICK p \in 1 .. Len(transient[t].messages) : x = transient[t].messages[p]
        BY <3>1
      <3> QED
        BY <1>4, <3>2
    <2>2. m.topic = n.topic
      BY <1>7, <2>1
    <2> QED
      BY <1>7, <2>2, AllFacts
  <1> QED
    BY <1>5, <1>6, <1>7

-----------------------------------------------------------------------------
(* The heads of the files. *)

(* The file s starts with copies of messages of S, each once, and with no others;
   those that are missing are among the lost ones, L. *)
Topped(s, S, L) ==
    \E h \in 0 .. Len(s) :
       /\ \A i \in 1 .. h : s[i].repeat = TRUE /\ s[i].id \in S
       /\ \A i \in h + 1 .. Len(s) : s[i].repeat = FALSE
       /\ \A i, j \in 1 .. h : i # j => s[i].id # s[j].id
       /\ \A x \in S : (\E i \in 1 .. h : s[i].id = x) \/ \E m \in L : m.repeat /\ m.id = x

(* So do the files of b that were due to, at these lengths of the log l. *)
HeadsIn(b, d, l, L) ==
    \A k \in DOMAIN d \cap DOMAIN b.disk :
       d[k] \in 0 .. Len(l) /\ Topped(b.disk[k].messages, LastOf(l, d[k]), L)

Originally(x) == \A m \in Range(x) : m.repeat = FALSE

(* Messages that are no copies follow, and more are lost. *)
LEMMA ToppedGrown ==
  ASSUME NEW s, NEW x, IsSequence(s), IsSequence(x), Originally(x),
         NEW S, NEW L, NEW M, L \subseteq M, Topped(s, S, L)
  PROVE  Topped(s \o x, S, M)
  <1>1. Len(s) \in Nat /\ Len(x) \in Nat /\ Range(x) = {x[i] : i \in 1 .. Len(x)}
    BY SequenceFacts
  <1>2. /\ Len(s \o x) = Len(s) + Len(x)
        /\ \A i \in 1 .. Len(s) : (s \o x)[i] = s[i]
        /\ \A i \in 1 .. Len(x) : (s \o x)[Len(s) + i] = x[i]
        /\ \A i \in 1 .. Len(s) + Len(x) : i \in 1 .. Len(s) \/ \E j \in 1 .. Len(x) : i = Len(s) + j
    <2>1. /\ Len(s \o x) = Len(s) + Len(x)
          /\ \A i \in 1 .. Len(s) : (s \o x)[i] = s[i]
          /\ \A i \in 1 .. Len(x) : (s \o x)[Len(s) + i] = x[i]
      BY ConcatFacts
    <2>2. ASSUME NEW i \in 1 .. Len(s) + Len(x), i \notin 1 .. Len(s) PROVE \E j \in 1 .. Len(x) : i = Len(s) + j
      <3>1. i - Len(s) \in 1 .. Len(x) /\ i = Len(s) + (i - Len(s))
        BY <1>1, <2>2
      <3> QED
        BY <3>1
    <2> QED
      BY <2>1, <2>2
  <1> DEFINE r == s \o x
  <1>3. PICK h \in 0 .. Len(s) :
           /\ \A i \in 1 .. h : s[i].repeat = TRUE /\ s[i].id \in S
           /\ \A i \in h + 1 .. Len(s) : s[i].repeat = FALSE
           /\ \A i, j \in 1 .. h : i # j => s[i].id # s[j].id
           /\ \A y \in S : (\E i \in 1 .. h : s[i].id = y) \/ \E m \in L : m.repeat /\ m.id = y
    BY DEF Topped
  <1>4. h \in 0 .. Len(r) /\ \A i \in 1 .. h : i \in 1 .. Len(s) /\ r[i] = s[i]
    BY <1>1, <1>2
  <1>5. ASSUME NEW i \in h + 1 .. Len(r) PROVE r[i].repeat = FALSE
    <2>1. i \in 1 .. Len(s) + Len(x)
      BY <1>1, <1>2
    <2>2. CASE i \in 1 .. Len(s)
      <3>1. i \in h + 1 .. Len(s)
        BY <1>1, <2>2
      <3> QED
        BY <1>2, <1>3, <2>2, <3>1
    <2>3. CASE \E j \in 1 .. Len(x) : i = Len(s) + j
      <3>1. PICK j \in 1 .. Len(x) : i = Len(s) + j
        BY <2>3
      <3>2. r[i] = x[j] /\ x[j] \in Range(x)
        BY <1>1, <1>2, <3>1
      <3> QED
        BY <3>2 DEF Originally
    <2> QED
      BY <1>2, <2>1, <2>2, <2>3
  <1> HIDE DEF r
  <1>6. \A i, j \in 1 .. h : i # j => r[i].id # r[j].id
    BY <1>3, <1>4
  <1>7. \A i \in 1 .. h : r[i].repeat = TRUE /\ r[i].id \in S
    BY <1>3, <1>4
  <1>8. \A y \in S : (\E i \in 1 .. h : r[i].id = y) \/ \E m \in M : m.repeat /\ m.id = y
    BY <1>3, <1>4
  <1>9. Topped(r, S, M)
    BY <1>4, <1>5, <1>6, <1>7, <1>8 DEF Topped
  <1> QED
    BY <1>9 DEF r

(* The copies the storage did not refuse. *)
LEMMA ToppedKept ==
  ASSUME NEW r, IsSequence(r), Copies(r), \A i, j \in 1 .. Len(r) : i # j => r[i].id # r[j].id,
         NEW losses, NEW L
  PROVE  Topped(Kept(r, losses), {m.id : m \in Range(r)}, L \cup losses)
  <1> DEFINE K == {i \in DOMAIN r : r[i] \notin losses}
             s == At(r, K)
             S == {m.id : m \in Range(r)}
  <1>1. Len(r) \in Nat /\ DOMAIN r = 1 .. Len(r) /\ Range(r) = {r[i] : i \in 1 .. Len(r)}
    BY SequenceFacts
  <1>2. /\ IsSequence(s) /\ Range(s) = {r[k] : k \in K}
        /\ \A i \in 1 .. Len(s) : Ranked(K, i) \in K /\ s[i] = r[Ranked(K, i)]
        /\ \A i, j \in 1 .. Len(s) : i < j => Ranked(K, i) < Ranked(K, j)
    BY AtFacts
  <1>3. Len(s) \in Nat /\ Range(s) = {s[i] : i \in 1 .. Len(s)}
    BY <1>2, SequenceFacts
  <1>4. K \subseteq 1 .. Len(r)
    BY <1>1
  <1>5. \A x \in S : (\E k \in K : r[k].id = x) \/ \E m \in L \cup losses : m.repeat /\ m.id = x
    <2> TAKE x \in S
    <2>1. PICK i \in 1 .. Len(r) : r[i].id = x
      BY <1>1
    <2>2. r[i].repeat
      BY <1>1 DEF Copies
    <2> QED
      BY <1>1, <2>1, <2>2
  <1>6. Kept(r, losses) = s
    BY DEF Kept
  <1> HIDE DEF K, s
  <1>7. \A i \in 1 .. Len(s) : s[i].repeat = TRUE /\ s[i].id \in S
    BY <1>1, <1>2, <1>4 DEF Copies
  <1> HIDE DEF S
  <1>8. \A i, j \in 1 .. Len(s) : i # j => s[i].id # s[j].id
    <2> TAKE i \in 1 .. Len(s), j \in 1 .. Len(s)
    <2> HAVE i # j
    <2>1. Ranked(K, i) \in 1 .. Len(r) /\ Ranked(K, j) \in 1 .. Len(r)
      BY <1>2, <1>4
    <2>2. (i < j => Ranked(K, i) < Ranked(K, j)) /\ (j < i => Ranked(K, j) < Ranked(K, i))
      BY <1>2
    <2>3. Ranked(K, i) # Ranked(K, j)
      BY <1>1, <1>3, <2>1, <2>2
    <2> QED
      BY <1>2, <2>1, <2>3
  <1>9. \A x \in S : (\E i \in 1 .. Len(s) : s[i].id = x) \/ \E m \in L \cup losses : m.repeat /\ m.id = x
    <2> TAKE x \in S
    <2>1. ASSUME NEW k \in K, r[k].id = x PROVE \E i \in 1 .. Len(s) : s[i].id = x
      <3>1. r[k] \in Range(s)
        BY <1>2
      <3> QED
        BY <1>3, <2>1, <3>1
    <2> QED
      BY <1>5, <2>1
  <1>10. Topped(s, S, L \cup losses)
    <2>1. Len(s) \in 0 .. Len(s) /\ Len(s) + 1 .. Len(s) = {}
      BY <1>3
    <2> QED
      BY <1>7, <1>8, <1>9, <2>1 DEF Topped
  <1> QED
    BY <1>6, <1>10 DEF S

(* write() and the consumer put no copies in the file. *)
LEMMA HeadsGrown ==
  ASSUME NEW b, NEW a, NEW x, Listed(b), IsSequence(x), Originally(x), Refiled(b, a, x),
         NEW d, NEW l, NEW L, NEW M, L \subseteq M, HeadsIn(b, d, l, L)
  PROVE  HeadsIn(a, d, l, M)
  <1> SUFFICES ASSUME NEW k \in DOMAIN d \cap DOMAIN a.disk
               PROVE  d[k] \in 0 .. Len(l) /\ Topped(a.disk[k].messages, LastOf(l, d[k]), M)
    BY DEF HeadsIn
  <1> DEFINE s == b.disk[k].messages
             S == LastOf(l, d[k])
             none == <<>>
  <1>1. k \in DOMAIN b.disk
    BY DEF Refiled
  <1>2. IsSequence(s)
    BY <1>1 DEF Listed
  <1>3. d[k] \in 0 .. Len(l) /\ Topped(s, S, L)
    BY <1>1 DEF HeadsIn
  <1>4. a.disk[k].messages = s \o x \/ a.disk[k].messages = s
    BY <1>1 DEF Refiled
  <1>5. IsSequence(none) /\ Originally(none)
    BY EmptySequence DEF Originally
  <1>6. s \o none = s
    BY <1>2, EmptyJoined
  <1> HIDE DEF s, S, none
  <1>7. Topped(s \o x, S, M)
    BY <1>2, <1>3, ToppedGrown
  <1>8. Topped(s \o none, S, M)
    BY <1>2, <1>3, <1>5, ToppedGrown
  <1> QED
    BY <1>3, <1>4, <1>6, <1>7, <1>8 DEF S

(* More was written: what came before is the same. *)
LEMMA HeadsLogged ==
  ASSUME IsSequence(log), NEW e, NEW b, NEW d, NEW L, HeadsIn(b, d, log, L)
  PROVE  HeadsIn(b, d, Append(log, e), L)
  <1> DEFINE l == Append(log, e)
  <1>1. Len(log) \in Nat /\ Len(l) = Len(log) + 1 /\ \A i \in 1 .. Len(log) : l[i] = log[i]
    BY SequenceFacts, AppendFacts
  <1> HIDE DEF l
  <1>2. ASSUME NEW n \in 0 .. Len(log) PROVE LastOf(l, n) = LastOf(log, n)
    <2>1. \A i \in 1 .. n : l[i] = log[i]
      BY <1>1
    <2>2. \A i \in 1 .. n : {j \in i + 1 .. n : l[j].topic = l[i].topic} = {j \in i + 1 .. n : log[j].topic = log[i].topic}
      <3> TAKE i \in 1 .. n
      <3>1. \A j \in i + 1 .. n : j \in 1 .. n
        BY <1>1
      <3> QED
        BY <2>1, <3>1
    <2> QED
      BY <2>1, <2>2 DEF LastOf
  <1>3. ASSUME NEW k \in DOMAIN d \cap DOMAIN b.disk
        PROVE  d[k] \in 0 .. Len(l) /\ Topped(b.disk[k].messages, LastOf(l, d[k]), L)
    <2>1. d[k] \in 0 .. Len(log) /\ Topped(b.disk[k].messages, LastOf(log, d[k]), L)
      BY DEF HeadsIn
    <2> QED
      BY <1>1, <1>2, <2>1
  <1> QED
    BY <1>3 DEF HeadsIn, l

(* The next file starts with the copies the storage did not refuse. *)
LEMMA HeadsNext ==
  ASSUME NEW f, NEW c, NEW n, NEW a, NEW r, NEW losses, NEW d, NEW l, NEW L, NEW D,
         Listed(f), NextFileIs(f, c, n), Refiled(c, a, Kept(r, losses)),
         Len(l) \in Nat, IsSequence(r), Copies(r), \A i, j \in 1 .. Len(r) : i # j => r[i].id # r[j].id,
         {m.id : m \in Range(r)} = LastOf(l, Len(l)),
         HeadsIn(f, d, l, L), D = With(d, f.next_file_index, Len(l))
  PROVE  HeadsIn(a, D, l, L \cup losses)
  <1> DEFINE M == L \cup losses
             k0 == f.next_file_index
             y == Kept(r, losses)
             S == LastOf(l, Len(l))
             none == <<>>
  <1>1. IsSequence(y) /\ IsSequence(none) /\ Originally(none)
    BY KeptFacts, EmptySequence DEF Originally
  <1>2. /\ c.storage = k0 /\ c.disk[k0].messages = none /\ k0 \in DOMAIN c.disk
        /\ \A k \in DOMAIN c.disk : k # k0 => k \in DOMAIN f.disk /\ c.disk[k].messages = f.disk[k].messages
    BY DEF NextFileIs
  <1>3. /\ DOMAIN a.disk = DOMAIN c.disk
        /\ \A k \in DOMAIN c.disk : k # k0 => a.disk[k].messages = c.disk[k].messages
        /\ a.disk[k0].messages = none \o y
    BY <1>2 DEF Refiled
  <1>4. none \o y = y
    BY <1>1, EmptyJoined
  <1>5. DOMAIN D = DOMAIN d \cup {k0} /\ D[k0] = Len(l) /\ \A k \in DOMAIN d : k # k0 => D[k] = d[k]
    BY DEF With
  <1>6. Topped(y, S, M)
    <2>1. Topped(Kept(r, losses), {m.id : m \in Range(r)}, L \cup losses)
      BY ToppedKept
    <2> QED
      BY <2>1
  <1>7. ASSUME NEW k \in DOMAIN f.disk PROVE IsSequence(f.disk[k].messages) /\ f.disk[k].messages \o none = f.disk[k].messages
    BY EmptyJoined DEF Listed
  <1> HIDE DEF M, k0, y, none
  <1> SUFFICES ASSUME NEW k \in DOMAIN D \cap DOMAIN a.disk
               PROVE  D[k] \in 0 .. Len(l) /\ Topped(a.disk[k].messages, LastOf(l, D[k]), M)
    BY DEF HeadsIn, M
  <1>8. CASE k = k0
    BY <1>3, <1>4, <1>5, <1>6, <1>8
  <1>9. CASE k # k0
    <2> DEFINE s == f.disk[k].messages
               T == LastOf(l, d[k])
    <2>1. k \in DOMAIN d /\ k \in DOMAIN f.disk /\ a.disk[k].messages = s /\ D[k] = d[k]
      BY <1>2, <1>3, <1>5, <1>9
    <2>2. d[k] \in 0 .. Len(l) /\ Topped(s, T, L)
      BY <2>1 DEF HeadsIn
    <2>3. IsSequence(s) /\ s \o none = s
      BY <1>7, <2>1
    <2>4. L \subseteq M
      BY DEF M
    <2> HIDE DEF s, T
    <2>5. Topped(s \o none, T, M)
      BY <1>1, <2>2, <2>3, <2>4, ToppedGrown
    <2> QED
      BY <2>1, <2>2, <2>3, <2>5 DEF T
  <1> QED
    BY <1>8, <1>9

(* What the heads are. *)
LEMMA HeadsAreLast ==
  ASSUME IsSequence(log), Latches(transient), LatchInv, Windows, Logged \subseteq Known,
         options.mode # "snapshot"
  PROVE  /\ IsSequence(Heads) /\ Copies(Heads)
         /\ \A i, j \in 1 .. Len(Heads) : i # j => Heads[i].id # Heads[j].id
         /\ {m.id : m \in Range(Heads)} = LastOf(log, Len(log))
  <1> DEFINE s == SortedMessages(transient)
             r == Heads
  <1>1. /\ IsSequence(s) /\ Range(s) = All(transient)
        /\ \A i, j \in 1 .. Len(s) : i # j => s[i] # s[j]
    BY SortedFacts
  <1>2. IsSequence(r) /\ Copies(r)
    BY HeadsAreCopies
  <1>3. r = Adjusted(s, last_recv)
    BY DEF Heads
  <1> HIDE DEF s, r
  <1>4. CopiesOf(r, s, last_recv)
    BY <1>1, <1>3, AdjustedFacts
  <1>5. Len(r) = Len(s) /\ \A i \in 1 .. Len(s) : r[i].id = s[i].id
    BY <1>4 DEF CopiesOf
  <1>6. Range(s) = {s[i] : i \in 1 .. Len(s)} /\ Range(r) = {r[i] : i \in 1 .. Len(r)}
    BY <1>1, <1>2, SequenceFacts
  <1>7. {m.id : m \in All(transient)} = LastOf(log, Len(log)) /\ \A m, n \in All(transient) : m.id = n.id => m = n
    BY LatchedIds
  <1>8. \A i, j \in 1 .. Len(r) : i # j => r[i].id # r[j].id
    BY <1>1, <1>5, <1>6, <1>7
  <1>9. {m.id : m \in Range(r)} = {m.id : m \in Range(s)}
    <2>1. \A m \in Range(r) : \E n \in Range(s) : m.id = n.id
      BY <1>5, <1>6
    <2>2. \A n \in Range(s) : \E m \in Range(r) : m.id = n.id
      BY <1>5, <1>6
    <2> QED
      BY <2>1, <2>2
  <1> QED
    BY <1>1, <1>2, <1>7, <1>8, <1>9 DEF r

-----------------------------------------------------------------------------
(* The queues as topics come and messages are written. *)

(* The queue of a topic that nothing was written on is empty. *)
LEMMA WindowsCreated ==
  ASSUME IsSequence(log), Windows, Logged \subseteq Known, NEW t, t \notin Known,
         transient' = IF t \in Latched THEN AddTopic(transient, t, Depth) ELSE transient,
         log' = log, Known' = Known \cup {t}
  PROVE  Windows'
  <1>1. Len(log) \in Nat /\ Depth \in Nat \ {0} /\ t \notin DOMAIN transient
    BY SequenceFacts, WriterAssumption DEF Windows
  <1>2. CASE t \notin Latched
    BY <1>2 DEF Windows, Window
  <1>3. CASE t \in Latched
    <2>1. /\ DOMAIN transient' = DOMAIN transient \cup {t}
          /\ \A u \in DOMAIN transient : transient'[u] = transient[u]
      BY <1>1, <1>3 DEF AddTopic
    <2>2. transient'[t].max_depth = Depth /\ transient'[t].messages = Newest(<<>>, Depth)
      BY <1>1, <1>3 DEF AddTopic, Queue
    <2>3. Newest(<<>>, Depth) = <<>>
      <3>1. PICK m \in 1 .. Len(<<>>) + 1 : Newest(<<>>, Depth) = SubSeq(<<>>, m, Len(<<>>))
        BY <1>1, EmptySequence, NewestFacts
      <3>2. IsSequence(SubSeq(<<>>, m, Len(<<>>))) /\ Len(SubSeq(<<>>, m, Len(<<>>))) = 0
        BY <3>1, EmptySequence, RestOf
      <3> QED
        BY <3>1, <3>2, SequenceFacts
    <2>4. Window(transient'[t], t, log)
      <3>1. \A i \in 1 .. Len(log) : log[i].topic # t
        BY DEF Logged
      <3>2. Len(transient'[t].messages) = 0
        BY <2>2, <2>3, EmptySequence
      <3> QED
        BY <1>1, <2>2, <3>1, <3>2 DEF Window
    <2>5. ASSUME NEW u \in DOMAIN transient' PROVE Window(transient'[u], u, log')
      <3>1. CASE u = t
        BY <2>4, <3>1
      <3>2. CASE u \in DOMAIN transient
        BY <2>1, <3>2 DEF Windows
      <3> QED
        BY <2>1, <3>1, <3>2
    <2>6. DOMAIN transient' = Known' \cap Latched
      BY <1>3, <2>1 DEF Windows
    <2> QED
      BY <2>5, <2>6 DEF Windows, Window
  <1> QED
    BY <1>2, <1>3

(* The queue of a removed topic goes. *)
LEMMA WindowsRemoved ==
  ASSUME Windows, NEW t, transient' = ForgetTopic(transient, t), log' = log, Known' = Known \ {t}
  PROVE  Windows'
  <1>1. DOMAIN transient' = DOMAIN transient \ {t} /\ \A u \in DOMAIN transient \ {t} : transient'[u] = transient[u]
    BY DEF ForgetTopic
  <1> QED
    BY <1>1 DEF Windows, Window

(* A message is pushed: the oldest goes when the queue is full. *)
LEMMA WindowPushed ==
  ASSUME IsSequence(log), NEW s, IsSequence(s), NEW t, Own(s, t), NEW queue,
         queue.max_depth = Depth, queue.messages = s, Window(queue, t, log),
         NEW m, m.id = Len(log) + 1, NEW e, e.topic = t, NEW pushed,
         pushed.max_depth = Depth, pushed.messages = Newest(Append(s, m), Depth)
  PROVE  Window(pushed, t, Append(log, e))
  <1> DEFINE n == Len(s)
             N == Len(log)
             l == Append(log, e)
             q == Append(s, m)
             r == Newest(q, Depth)
  <1>1. n \in Nat /\ N \in Nat /\ Depth \in Nat \ {0}
    BY SequenceFacts, WriterAssumption
  <1>2. Len(l) = N + 1 /\ (\A i \in 1 .. N : l[i] = log[i]) /\ l[N + 1] = e
    BY AppendFacts
  <1>3. IsSequence(q) /\ Len(q) = n + 1 /\ (\A i \in 1 .. n : q[i] = s[i]) /\ q[n + 1] = m
    BY AppendFacts
  <1>4. /\ n <= Depth
        /\ \A p \in 1 .. n : s[p].id \in 1 .. N /\ log[s[p].id].topic = t
        /\ \A i \in 1 .. N : log[i].topic = t => (\E p \in 1 .. n : s[p].id = i) \/ (n = Depth /\ i < s[1].id)
    BY DEF Window
  <1>5. \A p, k \in 1 .. n : p < k => s[p].id < s[k].id
    BY DEF Own
  <1>6. \E o \in {0, 1} : /\ o = 1 <=> n = Depth
                          /\ r = SubSeq(q, o + 1, Len(q))
    <2>1. CASE n = Depth
      <3>1. r = SubSeq(q, 1 + 1, Len(q))
        BY <1>1, <1>3, <2>1 DEF Newest
      <3> QED
        BY <2>1, <3>1
    <2>2. CASE n # Depth
      <3>1. ~(Len(q) > Depth) /\ 0 + 1 = 1
        BY <1>1, <1>3, <1>4, <2>2
      <3>2. r = SubSeq(q, 0 + 1, Len(q))
        BY <3>1 DEF Newest
      <3> QED
        BY <2>2, <3>2
    <2> QED
      BY <2>1, <2>2
  <1> HIDE DEF n, N, l, q, r
  <1>7. PICK o \in {0, 1} : (o = 1 <=> n = Depth) /\ r = SubSeq(q, o + 1, Len(q))
    BY <1>6
  <1>8. /\ Len(r) = n + 1 - o
        /\ \A i \in 1 .. Len(r) : o + i \in 1 .. n + 1 /\ r[i] = q[o + i]
    <2>1. o + 1 \in 1 .. Len(q) + 1
      BY <1>1, <1>3, <1>7
    <2>2. /\ Len(r) = Len(q) - (o + 1) + 1
          /\ \A i \in 1 .. Len(r) : o + 1 + i - 1 \in 1 .. Len(q) /\ r[i] = q[o + 1 + i - 1]
      BY <1>3, <1>7, <2>1, RestOf
    <2>3. \A i \in Nat : o + 1 + i - 1 = o + i
      BY <1>7
    <2>4. Len(q) - (o + 1) + 1 = n + 1 - o
      BY <1>1, <1>3, <1>7
    <2> QED
      BY <1>1, <1>3, <2>2, <2>3, <2>4
  <1>9. Len(r) \in 1 .. Depth
    BY <1>1, <1>4, <1>7, <1>8
  <1>10. ASSUME NEW p \in 1 .. Len(r) PROVE r[p].id \in 1 .. Len(l) /\ l[r[p].id].topic = t
    <2>1. CASE o + p \in 1 .. n
      <3>1. r[p] = s[o + p]
        BY <1>3, <1>8, <2>1
      <3>2. s[o + p].id \in 1 .. N /\ log[s[o + p].id].topic = t
        BY <1>4, <2>1
      <3> QED
        BY <1>1, <1>2, <3>1, <3>2
    <2>2. CASE o + p = n + 1
      <3>1. r[p] = m
        BY <1>3, <1>8, <2>2
      <3> QED
        BY <1>1, <1>2, <3>1 DEF N
    <2> QED
      BY <1>1, <1>8, <2>1, <2>2
  <1>11. ASSUME NEW i \in 1 .. Len(l), l[i].topic = t
         PROVE  (\E p \in 1 .. Len(r) : r[p].id = i) \/ (Len(r) = Depth /\ i < r[1].id)
    <2>1. CASE i = N + 1
      <3>1. Len(r) \in 1 .. Len(r) /\ o + Len(r) = n + 1
        BY <1>1, <1>7, <1>8, <1>9
      <3>2. r[Len(r)].id = i
        BY <1>3, <1>8, <2>1, <3>1 DEF N
      <3> QED
        BY <3>1, <3>2
    <2>2. CASE i \in 1 .. N
      <3>1. (\E p \in 1 .. n : s[p].id = i) \/ (n = Depth /\ i < s[1].id)
        BY <1>2, <1>4, <1>11, <2>2
      <3>2. CASE o = 0
        <4>1. PICK p \in 1 .. n : s[p].id = i
          BY <1>7, <3>1, <3>2
        <4>2. p \in 1 .. Len(r) /\ o + p = p
          BY <1>1, <1>8, <3>2
        <4>3. r[p] = s[p]
          BY <1>3, <1>8, <4>1, <4>2
        <4> QED
          BY <4>1, <4>2, <4>3
      <3>3. CASE o = 1
        <4>1. n = Depth /\ Len(r) = Depth /\ n \in Nat \ {0} /\ 1 \in 1 .. Len(r)
          BY <1>1, <1>7, <1>8, <3>3
        <4>2. \A p \in 2 .. n : p - 1 \in 1 .. Len(r) /\ r[p - 1] = s[p]
          <5> TAKE p \in 2 .. n
          <5>1. p - 1 \in 1 .. Len(r) /\ o + (p - 1) = p /\ p \in 1 .. n
            BY <1>1, <3>3, <4>1
          <5>2. r[p - 1] = q[p] /\ q[p] = s[p]
            BY <1>3, <1>8, <5>1
          <5> QED
            BY <5>1, <5>2
        <4>3. s[1].id < r[1].id
          <5>1. CASE n = 1
            <6>1. r[1] = m /\ s[1].id \in 1 .. N
              BY <1>3, <1>4, <1>8, <3>3, <4>1, <5>1
            <6> QED
              BY <1>1, <6>1 DEF N
          <5>2. CASE n # 1
            <6>1. 2 \in 2 .. n /\ 2 - 1 = 1 /\ 1 \in 1 .. n /\ 2 \in 1 .. n
              BY <4>1, <5>2
            <6>2. r[1] = s[2]
              BY <4>2, <6>1
            <6>3. s[1].id < s[2].id
              BY <1>5, <6>1
            <6> QED
              BY <6>2, <6>3
          <5> QED
            BY <5>1, <5>2
        <4>4. s[1].id \in Nat /\ r[1].id \in Nat /\ i \in Nat
          BY <1>1, <1>4, <1>10, <4>1, <2>2
        <4>5. ASSUME NEW p \in 1 .. n, s[p].id = i
              PROVE  (\E k \in 1 .. Len(r) : r[k].id = i) \/ i < r[1].id
          <5>1. CASE p = 1
            BY <4>3, <4>5, <5>1
          <5>2. CASE p # 1
            <6>1. p \in 2 .. n
              BY <1>1, <5>2
            <6> QED
              BY <4>2, <4>5, <6>1
          <5> QED
            BY <5>1, <5>2
        <4> QED
          BY <3>1, <4>1, <4>3, <4>4, <4>5
      <3> QED
        BY <1>7, <3>2, <3>3
    <2> QED
      BY <1>1, <1>2, <2>1, <2>2
  <1>12. pushed.messages = r /\ pushed.max_depth = Depth
    BY DEF r, q
  <1>13. Window(pushed, t, l)
    BY <1>9, <1>10, <1>11, <1>12 DEF Window
  <1> QED
    BY <1>13 DEF l

(* write() on any topic. *)
LEMMA WindowsPushed ==
  ASSUME IsSequence(log), Latches(transient), LatchInv, Windows, NEW m, m.id = Len(log) + 1,
         log' = Append(log, [topic |-> m.topic, stamp |-> m.stamp]), Known' = Known,
         transient' = IF m.topic \in DOMAIN transient
                      THEN PushLatched(transient, m.topic, m) ELSE transient
  PROVE  Windows'
  <1> DEFINE t == m.topic
             e == [topic |-> t, stamp |-> m.stamp]
             l == Append(log, e)
  <1>1. Len(log) \in Nat /\ Len(l) = Len(log) + 1 /\ (\A i \in 1 .. Len(log) : l[i] = log[i]) /\ l[Len(log) + 1] = e
    BY SequenceFacts, AppendFacts
  <1>2. e.topic = t /\ log' = l
    OBVIOUS
  <1> HIDE DEF e, l, t
  <1>3. ASSUME NEW u \in DOMAIN transient, u # t PROVE Window(transient[u], u, l)
    <2>1. Window(transient[u], u, log)
      BY DEF Windows
    <2>2. \A i \in 1 .. Len(l) : l[i].topic = u => i \in 1 .. Len(log) /\ log[i].topic = u
      BY <1>1, <1>2, <1>3
    <2>3. \A i \in 1 .. Len(log) : i \in 1 .. Len(l) /\ l[i] = log[i]
      BY <1>1
    <2> QED
      BY <2>1, <2>2, <2>3 DEF Window
  <1>4. CASE t \notin DOMAIN transient
    <2>1. transient' = transient
      BY <1>4 DEF t
    <2>2. \A u \in DOMAIN transient' : Window(transient'[u], u, log')
      BY <1>2, <1>3, <1>4, <2>1
    <2> QED
      BY <2>1, <2>2 DEF Windows, Window
  <1>5. CASE t \in DOMAIN transient
    <2> DEFINE old == transient[t]
               s == old.messages
               pushed == transient'[t]
    <2>1. transient' = [transient EXCEPT ![t].messages = Newest(Append(@, m), transient[t].max_depth)]
      BY <1>5 DEF t, PushLatched
    <2>2. /\ "messages" \in DOMAIN old /\ "max_depth" \in DOMAIN old /\ IsSequence(s)
          /\ Own(s, t) /\ Window(old, t, log) /\ old.max_depth = Depth
      BY <1>5 DEF Latches, LatchInv, Windows, Window
    <2>3. /\ DOMAIN transient' = DOMAIN transient
          /\ \A u \in DOMAIN transient \ {t} : transient'[u] = transient[u]
          /\ pushed.messages = Newest(Append(s, m), Depth) /\ pushed.max_depth = Depth
      BY <1>5, <2>1, <2>2
    <2> HIDE DEF old, s, pushed
    <2>4. old.messages = s
      BY DEF s
    <2>5. Window(pushed, t, Append(log, e))
      BY <1>2, <2>2, <2>3, <2>4, WindowPushed
    <2>6. ASSUME NEW u \in DOMAIN transient' PROVE Window(transient'[u], u, log')
      <3>1. CASE u = t
        BY <1>2, <2>5, <3>1 DEF pushed, l
      <3>2. CASE u # t
        BY <1>2, <1>3, <2>3, <3>2
      <3> QED
        BY <3>1, <3>2
    <2>7. DOMAIN transient' = Known' \cap Latched
      BY <2>3 DEF Windows
    <2> QED
      BY <2>6, <2>7 DEF Windows, Window
  <1> QED
    BY <1>4, <1>5

-----------------------------------------------------------------------------
(* The steps keep the heads. *)

(* The queues hold the last messages, nothing to be written is a copy, and the files
   start with the messages that were the last ones when they were due. *)
Heading == Windows /\ Originally(Todo) /\ HeadsIn(bag, due, log, lost)

HeadInv == options.mode # "snapshot" /\ options.cleanup_only => Heading

Headed == Windows' /\ Originally(Todo') /\ HeadsIn(bag', due', log', lost')

(* Nobody writes, and the topics are the same. *)
LEMMA WindowsSame ==
  ASSUME Windows, UNCHANGED <<transient, log>>, Known' = Known
  PROVE  Windows'
  BY DEF Windows, Window

(* The files have the same messages. *)
LEMMA HeadsSame ==
  ASSUME NEW b, NEW a, NEW d, NEW l, NEW L, HeadsIn(b, d, l, L), DOMAIN a.disk = DOMAIN b.disk,
         \A k \in DOMAIN b.disk : a.disk[k].messages = b.disk[k].messages
  PROVE  HeadsIn(a, d, l, L)
  BY DEF HeadsIn

(* The consumer writes what it had to. *)
LEMMA FlushHeads ==
  ASSUME IInv, CountInv, Heading, NEW x, IsSequence(x), Registered(bag, x),
         x = <<>> \/ bag.storage # NoFile, Range(x) \subseteq Range(Todo), NEW losses
  PROVE  LET f == AddToFile(Written, Kept(x, losses)) IN
         /\ HeadsIn(f, due, log, lost \cup losses)
         /\ Listed(f) /\ DOMAIN f.topics = Known /\ f.next_file_index = bag.next_file_index
  <1> DEFINE y == Kept(x, losses)
             f == AddToFile(Written, y)
             L == lost \cup losses
  <1>1. /\ Listed(Written) /\ Detailed(Written) /\ Written.storage = bag.storage
        /\ Written.disk = bag.disk /\ Written.next_file_index = bag.next_file_index
        /\ DOMAIN Written.topics = Known /\ DOMAIN bag.topics = Known
        /\ \A m \in Range(x) : Proper(m)
    BY WrittenCounts DEF CountInv
  <1>2. IsSequence(y) /\ (y = <<>> \/ bag.storage # NoFile) /\ OnTopics(y, DOMAIN bag.topics)
    BY <1>1, KeptTopics
  <1>3. Originally(y)
    <2>1. Range(y) \subseteq Range(x)
      BY KeptFacts
    <2> QED
      BY <2>1 DEF Heading, Originally
  <1>4. HeadsIn(Written, due, log, lost) /\ lost \subseteq L
    <2>1. HeadsIn(bag, due, log, lost)
      BY DEF Heading
    <2> QED
      BY <1>1, <2>1, HeadsSame
  <1> HIDE DEF y, L
  <1>5. Grown(Written, f, y)
    BY <1>1, <1>2, AddToFileGrows
  <1> HIDE DEF f
  <1>6. Refiled(Written, f, y) /\ DOMAIN f.topics = DOMAIN Written.topics
    BY <1>5 DEF Grown
  <1>7. Listed(f)
    BY <1>1, <1>2, <1>6, RefiledIsListed
  <1>8. HeadsIn(f, due, log, L)
    BY <1>1, <1>2, <1>3, <1>4, <1>6, HeadsGrown
  <1>9. DOMAIN f.topics = Known /\ f.next_file_index = bag.next_file_index
    BY <1>1, <1>6 DEF Refiled
  <1> QED
    BY <1>7, <1>8, <1>9 DEF f, y, L

(* What stopping the consumer writes. *)
LEMMA PendingHeads ==
  ASSUME IInv, CountInv, Heading, Registered(bag, Pending), NEW losses
  PROVE  LET f == AddToFile(Written, Kept(Pending, losses)) IN
         /\ HeadsIn(f, due, log, lost \cup losses)
         /\ Listed(f) /\ DOMAIN f.topics = Known /\ f.next_file_index = bag.next_file_index
  <1>1. IsSequence(Pending) /\ (Pending = <<>> \/ bag.storage # NoFile)
    BY QueuedFacts
  <1>2. Range(Pending) \subseteq Range(Todo)
    <2>1. Pending = <<>> \/ Pending = Todo
      BY Flushing
    <2> QED
      BY <2>1, EmptySequence
  <1> QED
    BY <1>1, <1>2, FlushHeads

(* Nothing is to be written that was not. *)
LEMMA NothingNew ==
  ASSUME Originally(Todo), Range(Todo') \subseteq Range(Todo)
  PROVE  Originally(Todo')
  BY DEF Originally

(* A step that changes neither files nor queues. *)
LEMMA IdleHeads ==
  ASSUME Heading, UNCHANGED <<bag, transient, log, due, lost>>, Range(Todo') \subseteq Range(Todo)
  PROVE  Headed
  <1>1. Windows'
    BY WindowsSame DEF Heading, Known
  <1>2. Originally(Todo')
    BY NothingNew DEF Heading
  <1>3. HeadsIn(bag', due', log', lost')
    BY DEF Heading
  <1> QED
    BY <1>1, <1>2, <1>3 DEF Headed

(* A failed open(), a crash, and the swap of the buffers. *)
LEMMA OtherHeads ==
  ASSUME IInv, Heading, NEW convert, OpenFails(convert) \/ Crash \/ SwapBuffers
  PROVE  Headed
  <1>1. UNCHANGED <<bag, transient, log, due, lost>>
    BY DEF OpenFails, Crash, SwapBuffers, callVars, history
  <1>2. Range(Todo') \subseteq Range(Todo)
    <2>1. CASE OpenFails(convert) \/ Crash
      BY <2>1 DEF OpenFails, Crash, pipe, Todo
    <2>2. CASE SwapBuffers
      <3>1. in_flight = <<>> /\ in_flight' = cache /\ cache' = <<>>
        BY <2>2 DEF SwapBuffers
      <3>2. <<>> \o cache = cache /\ cache \o <<>> = cache
        BY InvFacts
      <3>3. Todo' = cache \o <<>> /\ Todo = <<>> \o cache
        BY <3>1 DEF Todo
      <3> QED
        BY <3>2, <3>3
    <2> QED
      BY <2>1, <2>2
  <1> QED
    BY <1>1, <1>2, IdleHeads

(* open(): no file of the new bag is due to start with copies. *)
LEMMA OpenHeads ==
  ASSUME IInv, Heading, NEW convert, Open(convert)
  PROVE  Headed
  <1>1. /\ bag'.topics = [t \in Known |-> 0] /\ due' = <<>> /\ cache' = <<>> /\ in_flight' = <<>>
        /\ UNCHANGED <<transient, log>>
    BY DEF Open
  <1>2. Windows'
    BY <1>1, WindowsSame DEF Heading, Known
  <1>3. Originally(Todo')
    <2>1. Range(Todo') = {}
      BY <1>1, InvFacts, EmptySequence DEF Todo
    <2> QED
      BY <2>1 DEF Originally
  <1>4. HeadsIn(bag', due', log', lost')
    BY <1>1, EmptySequence DEF HeadsIn
  <1> QED
    BY <1>2, <1>3, <1>4 DEF Headed

(* The consumer writes what it has taken. *)
LEMMA StoreMessagesHeads ==
  ASSUME IInv, CountInv, Heading, NEW losses, StoreMessages(losses)
  PROVE  Headed
  <1> DEFINE y == Kept(in_flight, losses)
             f == AddToFile(bag, y)
  <1>1. /\ Registered(bag, in_flight) /\ in_flight # <<>> /\ in_flight' = <<>>
        /\ bag' = Put(bag, y) /\ lost' = lost \cup losses
        /\ UNCHANGED <<transient, log, due, cache>>
    BY DEF StoreMessages
  <1>2. /\ IsSequence(in_flight) /\ IsSequence(cache) /\ (in_flight = <<>> \/ bag.storage # NoFile)
        /\ \A m \in Range(in_flight) : Proper(m)
    BY QueuedFacts
  <1>3. Range(Todo) = Range(in_flight) \cup Range(cache) /\ Todo' = cache
    BY <1>1, <1>2, ConcatFacts, EmptyJoined DEF Todo
  <1>4. uncounted = <<>> /\ Written = bag
    BY <1>1 DEF IInv, Modes, Written, CountIn
  <1>5. HeadsIn(f, due, log, lost \cup losses)
    <2>1. HeadsIn(AddToFile(Written, y), due, log, lost \cup losses)
      BY <1>1, <1>2, <1>3, FlushHeads
    <2> HIDE DEF y
    <2> QED
      BY <1>4, <2>1
  <1>6. IsSequence(y) /\ (y = <<>> \/ bag.storage # NoFile) /\ OnTopics(y, DOMAIN bag.topics)
    BY <1>1, <1>2, KeptTopics
  <1>7. Listed(bag) /\ Detailed(bag) /\ Counted(bag, <<>>, missed)
    BY <1>4, InvFacts DEF CountInv
  <1> HIDE DEF y
  <1>8. bag'.disk = f.disk /\ bag'.topics = bag.topics
    BY <1>1, <1>6, <1>7, PutCounts
  <1> HIDE DEF f
  <1>9. Windows'
    <2>1. Known' = Known
      BY <1>8 DEF Known
    <2> QED
      BY <1>1, <2>1, WindowsSame DEF Heading
  <1>10. Originally(Todo')
    BY <1>3, NothingNew DEF Heading
  <1>11. HeadsIn(bag', due', log', lost')
    BY <1>1, <1>5, <1>8, HeadsSame
  <1> QED
    BY <1>9, <1>10, <1>11 DEF Headed

(* The consumer counts what it has stored. *)
LEMMA CountMessagesHeads ==
  ASSUME IInv, CountInv, Heading, CountMessages
  PROVE  Headed
  <1>1. bag' = Written /\ UNCHANGED <<transient, cache, in_flight, log, lost, due>>
    BY DEF CountMessages, history
  <1>2. bag'.disk = bag.disk /\ Known' = Known
    BY <1>1, WrittenCounts DEF Known
  <1>3. Windows'
    BY <1>1, <1>2, WindowsSame DEF Heading
  <1>4. Originally(Todo')
    <2>1. Todo' = Todo
      BY <1>1 DEF Todo
    <2> QED
      BY <2>1 DEF Heading
  <1>5. HeadsIn(bag', due', log', lost')
    BY <1>1, <1>2, HeadsSame DEF Heading
  <1> QED
    BY <1>3, <1>4, <1>5 DEF Headed

(* What is left to write when the consumer has stopped. *)
LEMMA RestHeads ==
  ASSUME IInv, Heading, in_flight' = <<>>, cache' \in {<<>>, Rest}
  PROVE  Originally(Todo')
  <1>1. CASE cache' = Rest
    BY <1>1, RestFacts, NothingNew DEF Heading
  <1>2. CASE cache' = <<>>
    BY <1>2, InvFacts, EmptySequence DEF Todo, Originally
  <1> QED
    BY <1>1, <1>2

(* close(): the last file keeps its head. *)
LEMMA CloseHeads ==
  ASSUME IInv, CountInv, Heading, NEW losses, Close(losses)
  PROVE  Headed
  <1> DEFINE f == AddToFile(Written, Kept(Pending, losses))
             none == [t \in Known |-> 0]
  <1>1. /\ Registered(bag, Pending)
        /\ bag' = [f EXCEPT !.storage = NoFile, !.topics = none]
        /\ cache' = <<>> /\ in_flight' = <<>> /\ lost' = lost \cup losses
        /\ UNCHANGED <<transient, log, due>>
    BY DEF Close
  <1>2. HeadsIn(f, due, log, lost \cup losses) /\ Listed(f)
    BY <1>1, PendingHeads
  <1> HIDE DEF f
  <1>3. bag'.disk = f.disk /\ bag'.topics = none
    BY <1>1, <1>2 DEF Listed, Fields
  <1>4. Windows'
    <2>1. Known' = Known
      BY <1>3 DEF Known
    <2> QED
      BY <1>1, <2>1, WindowsSame DEF Heading
  <1>5. Originally(Todo')
    BY <1>1, RestHeads
  <1>6. HeadsIn(bag', due', log', lost')
    BY <1>1, <1>2, <1>3, HeadsSame
  <1> QED
    BY <1>4, <1>5, <1>6 DEF Headed

(* A rollover fails once the consumer has written the rest. *)
LEMMA RolloverFailsHeads ==
  ASSUME IInv, CountInv, Heading, NEW losses, RolloverFails(losses)
  PROVE  Headed
  <1> DEFINE f == AddToFile(Written, Kept(Pending, losses))
  <1>1. /\ Registered(bag, Pending)
        /\ bag' = [f EXCEPT !.storage = NoFile, !.next_file_index = @ + 1]
        /\ cache' = Rest /\ in_flight' = <<>> /\ lost' = lost \cup losses
        /\ UNCHANGED <<transient, log, due>>
    BY DEF RolloverFails, Rest
  <1>2. HeadsIn(f, due, log, lost \cup losses) /\ Listed(f) /\ DOMAIN f.topics = Known
    BY <1>1, PendingHeads
  <1> HIDE DEF f
  <1>3. bag'.disk = f.disk /\ bag'.topics = f.topics
    BY <1>1, <1>2 DEF Listed, Fields
  <1>4. Windows'
    <2>1. Known' = Known
      BY <1>2, <1>3 DEF Known
    <2> QED
      BY <1>1, <2>1, WindowsSame DEF Heading
  <1>5. Originally(Todo')
    BY <1>1, RestHeads
  <1>6. HeadsIn(bag', due', log', lost')
    BY <1>1, <1>2, <1>3, HeadsSame
  <1> QED
    BY <1>4, <1>5, <1>6 DEF Headed

(* Topics come and go: the files have the same messages. *)
LEMMA RetopicHeads ==
  ASSUME IInv, CountInv, Heading, NEW topics, NEW formats, Retopiced(topics, formats),
         is_open => bag.storage # NoFile, Windows',
         UNCHANGED <<cache, in_flight, log, lost, due>>
  PROVE  Headed
  <1>1. Listed(bag) /\ DOMAIN bag = Fields /\ Detailed(bag)
    BY InvFacts DEF CountInv
  <1>2. bag'.disk = IF is_open THEN [bag.disk EXCEPT ![bag.storage].formats = formats] ELSE bag.disk
    BY <1>1 DEF Retopiced, Fields
  <1>3. DOMAIN bag'.disk = DOMAIN bag.disk
    BY <1>2
  <1>4. ASSUME NEW k \in DOMAIN bag.disk PROVE bag'.disk[k].messages = bag.disk[k].messages
    <2>1. DOMAIN bag.disk[k] = {"formats", "messages"}
      BY <1>1 DEF Detailed
    <2>2. bag'.disk[k] = bag.disk[k] \/ bag'.disk[k] = [bag.disk[k] EXCEPT !.formats = formats]
      BY <1>2
    <2> QED
      BY <2>1, <2>2
  <1>5. HeadsIn(bag', due, log, lost)
    BY <1>3, <1>4, HeadsSame DEF Heading
  <1>6. Originally(Todo')
    <2>1. Todo' = Todo
      BY DEF Todo
    <2> QED
      BY <2>1 DEF Heading
  <1> QED
    BY <1>5, <1>6 DEF Headed

(* create_topic(): the queue of the new topic is empty, as nothing was written on it. *)
LEMMA CreateTopicHeads ==
  ASSUME IInv, CountInv, Heading, options.cleanup_only, NEW t, CreateTopic(t)
  PROVE  Headed
  <1> DEFINE formats == With(bag.disk[bag.storage].formats, t, converter)
             topics == With(bag.topics, t, 0)
  <1>1. /\ t \notin Known /\ (is_open => bag.storage # NoFile)
        /\ Retopiced(topics, formats)
        /\ transient' = IF t \in Latched THEN AddTopic(transient, t, Depth) ELSE transient
        /\ UNCHANGED <<cache, in_flight, log, lost, due>>
    BY DEF CreateTopic, pipe, history, Retopiced
  <1>2. DOMAIN topics = Known \cup {t} /\ bag'.topics = topics
    <2>1. DOMAIN bag = Fields
      BY InvFacts
    <2> QED
      BY <1>1, <2>1 DEF With, Known, Retopiced, Fields
  <1> HIDE DEF topics, formats
  <1>3. Known' = Known \cup {t}
    BY <1>2 DEF Known
  <1>4. Windows /\ IsSequence(log) /\ Logged \subseteq Known
    BY DEF Heading, IInv, CountInv
  <1>5. Windows'
    BY <1>1, <1>3, <1>4, WindowsCreated
  <1> QED
    BY <1>1, <1>5, RetopicHeads

(* remove_topic(): the topic's queue goes with it. *)
LEMMA RemoveTopicHeads ==
  ASSUME IInv, CountInv, Heading, NEW t, RemoveTopic(t)
  PROVE  Headed
  <1> DEFINE formats == Without(bag.disk[bag.storage].formats, t)
             topics == Without(bag.topics, t)
  <1>1. /\ is_open => bag.storage # NoFile
        /\ Retopiced(topics, formats)
        /\ transient' = ForgetTopic(transient, t)
        /\ UNCHANGED <<cache, in_flight, log, lost, due>>
    BY DEF RemoveTopic, pipe, history, Retopiced
  <1>2. DOMAIN topics = Known \ {t} /\ bag'.topics = topics
    <2>1. DOMAIN bag = Fields
      BY InvFacts
    <2> QED
      BY <1>1, <2>1 DEF Without, Known, Retopiced, Fields
  <1> HIDE DEF topics, formats
  <1>3. Known' = Known \ {t}
    BY <1>2 DEF Known
  <1>4. Windows /\ log' = log
    BY <1>1 DEF Heading
  <1>5. Windows'
    BY <1>1, <1>3, <1>4, WindowsRemoved
  <1> QED
    BY <1>1, <1>5, RetopicHeads

(* The next file starts with the latched messages, which are the last ones. *)
LEMMA RollHeads ==
  ASSUME IInv, CountInv, Heading, options.mode # "snapshot", options.cleanup_only,
         Registered(bag, Pending), NEW losses, NEW n \in 0 .. Excess(bag)
  PROVE  LET a == Rolled(AddToFile(Written, Kept(Pending, losses)), losses, n) IN
         /\ HeadsIn(a, With(due, bag.next_file_index, Len(log)), log, lost \cup losses)
         /\ Listed(a) /\ Detailed(a) /\ Counted(a, <<>>, missed) /\ DOMAIN a.topics = Known
         /\ \A m \in Stored(a) : Proper(m)
         /\ a.storage # NoFile /\ Len(a.files) > 0
  <1> DEFINE f == AddToFile(Written, Kept(Pending, losses))
             c == NextFile(f, n)
             r == Heads
             h == Kept(r, losses)
             a == Rolled(f, losses, n)
             D == With(due, bag.next_file_index, Len(log))
             L == lost \cup losses
  <1>1. /\ Listed(f) /\ Detailed(f) /\ Counted(f, <<>>, missed) /\ DOMAIN f.topics = Known /\ \A m \in Stored(f) : Proper(m)
        /\ Len(f.files) = Len(bag.files)
    BY FlushCounts, WrittenCounts DEF Grown, Refiled
  <1>2. HeadsIn(f, due, log, L) /\ f.next_file_index = bag.next_file_index
    BY PendingHeads
  <1>3. /\ Latches(transient) /\ LatchInv /\ last_recv \in Nat /\ n \in 0 .. Len(f.files)
        /\ IsSequence(log) /\ Len(log) \in Nat /\ Windows /\ Logged \subseteq Known
    BY <1>1, InvFacts, ExcessFacts DEF IInv, CountInv, Heading
  <1> HIDE DEF f
  <1>4. /\ NextFileIs(f, c, n) /\ Grown(c, a, h)
        /\ Listed(a) /\ Detailed(a) /\ Counted(a, <<>>, missed) /\ DOMAIN a.topics = Known
        /\ \A m \in Stored(a) : Proper(m)
        /\ a.storage # NoFile /\ Len(a.files) > 0
    BY <1>1, <1>3, RollCounts
  <1>5. /\ IsSequence(r) /\ Copies(r)
        /\ \A i, j \in 1 .. Len(r) : i # j => r[i].id # r[j].id
        /\ {m.id : m \in Range(r)} = LastOf(log, Len(log))
    BY <1>3, HeadsAreLast
  <1> HIDE DEF a, c, r, L
  <1>6. Refiled(c, a, Kept(r, losses))
    BY <1>4 DEF Grown
  <1> HIDE DEF h
  <1>7. D = With(due, f.next_file_index, Len(log))
    BY <1>2
  <1> HIDE DEF D
  <1>8. HeadsIn(a, D, log, L \cup losses)
    BY <1>1, <1>2, <1>3, <1>4, <1>5, <1>6, <1>7, HeadsNext
  <1>9. L \cup losses = L
    BY DEF L
  <1> QED
    BY <1>4, <1>8, <1>9 DEF a, D, L, f

(* split_bagfile(). *)
LEMMA SplitBagfileHeads ==
  ASSUME IInv, CountInv, Heading, options.mode # "snapshot", options.cleanup_only,
         NEW losses, NEW n, SplitBagfile(losses, n)
  PROVE  Headed
  <1> DEFINE f == AddToFile(Written, Kept(Pending, losses))
             a == Rolled(f, losses, n)
             D == With(due, bag.next_file_index, Len(log))
             atRisk == Range(Pending) \cup Range(Heads)
  <1>1. /\ Registered(bag, Pending)
        /\ Split(f, atRisk, losses, n)
        /\ bag' = a /\ lost' = lost \cup losses /\ due' = D
        /\ cache' = Rest
        /\ UNCHANGED <<transient, log>>
    BY DEF SplitBagfile, Rest
  <1>2. in_flight' = <<>> /\ n \in 0 .. Excess(bag)
    BY <1>1 DEF Split
  <1>3. HeadsIn(a, D, log, lost \cup losses) /\ DOMAIN a.topics = Known
    BY <1>1, <1>2, RollHeads
  <1> HIDE DEF a, D
  <1>4. Windows'
    <2>1. Known' = Known
      BY <1>1, <1>3 DEF Known
    <2> QED
      BY <1>1, <2>1, WindowsSame DEF Heading
  <1>5. Originally(Todo')
    BY <1>1, <1>2, RestHeads
  <1>6. HeadsIn(bag', due', log', lost')
    BY <1>1, <1>3
  <1> QED
    BY <1>4, <1>5, <1>6 DEF Headed

(* The message that is written is the last of its topic, and no copy. *)
LEMMA StoreHeads ==
  ASSUME options \in Configurations, IsSequence(log), Latches(transient), LatchInv,
         NEW b, NEW w, NEW queued, NEW m, NEW losses, NEW L,
         Listed(b), Detailed(b), Counted(b, uncounted', missed'), DOMAIN b.topics = Known, Len(b.files) > 0,
         \A x \in Stored(b) \cup Range(w) \cup Range(queued) : Proper(x),
         IsSequence(w), IsSequence(queued), Originally(w), Originally(queued),
         options.mode # "snapshot", options.mode = "direct" => b.storage # NoFile,
         m.stamp \in Nat, m.topic \in Known, m.id = Len(log) + 1, m.repeat = FALSE,
         Store(b, m, queued, losses), in_flight' = w, Windows,
         L \subseteq lost', HeadsIn(b, due', log, L)
  PROVE  Headed
  <1> DEFINE D == DOMAIN due'
             s == Span(b, m.stamp)
             x == IF options.mode = "direct" THEN <<m>> ELSE <<>>
             y == Kept(x, losses)
             e == [topic |-> m.topic, stamp |-> m.stamp]
             none == <<>>
  <1>1. /\ bag' = AddToFile(s, y)
        /\ cache' \in {queued, Append(queued, m)}
        /\ transient' = IF m.topic \in DOMAIN transient THEN PushLatched(transient, m.topic, m) ELSE transient
        /\ log' = Append(log, e)
    BY DEF Store
  <1>2. Known' = Known
    <2>1. Len(queued) \in Nat
      BY SequenceFacts
    <2> HIDE DEF D
    <2>2. Recorded(b, w, queued, m, D)
      BY <2>1, Recording
    <2> QED
      BY <2>2 DEF Recorded
  <1>3. IsSequence(none) /\ Originally(none) /\ IsSequence(<<m>>) /\ Originally(<<m>>)
    BY EmptySequence, OneOnly DEF Originally
  <1>4. IsSequence(y) /\ Originally(y) /\ (y = <<>> \/ b.storage # NoFile)
    <2>1. IsSequence(x) /\ Originally(x) /\ (x = <<>> \/ b.storage # NoFile)
      BY <1>3
    <2> HIDE DEF x
    <2> QED
      BY <2>1, KeptFacts DEF Originally
  <1> HIDE DEF x, y, s, none
  <1>5. Refiled(b, s, none)
    BY SpanRedates DEF s, none
  <1>6. Listed(s) /\ s.storage = b.storage
    BY <1>3, <1>5, RefiledIsListed DEF Refiled
  <1>7. Refiled(s, bag', y)
    BY <1>1, <1>4, <1>6, AddToFileRefiles
  <1>8. HeadsIn(s, due', log, L)
    BY <1>3, <1>5, HeadsGrown
  <1>9. HeadsIn(bag', due', log, lost')
    BY <1>4, <1>6, <1>7, <1>8, HeadsGrown
  <1>10. HeadsIn(bag', due', log', lost')
    <2> HIDE DEF e
    <2> QED
      BY <1>1, <1>9, HeadsLogged
  <1>11. Windows'
    BY <1>1, <1>2, WindowsPushed
  <1>12. Originally(Todo')
    <2>1. IsSequence(cache') /\ Originally(cache')
      <3> DEFINE q == Append(queued, m)
      <3>1. IsSequence(q) /\ Range(q) = Range(queued) \cup {m}
        BY AppendFacts
      <3>2. Originally(q)
        BY <3>1 DEF Originally
      <3>3. cache' = queued \/ cache' = q
        BY <1>1
      <3> HIDE DEF q
      <3> QED
        BY <3>1, <3>2, <3>3
    <2>2. Todo' = w \o cache'
      BY DEF Todo
    <2>3. Range(Todo') = Range(w) \cup Range(cache')
      BY <2>1, <2>2, ConcatFacts
    <2> QED
      BY <2>1, <2>3 DEF Originally
  <1> QED
    BY <1>10, <1>11, <1>12 DEF Headed

(* write() to the same file. *)
LEMMA WriteHeads ==
  ASSUME IInv, CountInv, Heading, options.mode # "snapshot",
         NEW t, NEW stamp, NEW losses, Write(t, stamp, losses)
  PROVE  Headed
  <1> DEFINE m == NewMessage(t, stamp)
  <1>1. /\ is_open /\ in_flight' = in_flight /\ due' = due
        /\ uncounted' = uncounted /\ missed' = missed
        /\ t \in Known /\ stamp \in options.stamps
        /\ bag.storage = NoFile => options.mode # "direct"
        /\ Store(bag, m, cache, losses)
    BY DEF Write, Writable
  <1>2. m.stamp \in Nat /\ m.topic \in Known /\ m.id = Len(log) + 1 /\ m.repeat = FALSE
    BY <1>1, NoTimeIsLate DEF NewMessage, IInv
  <1> HIDE DEF m
  <1>3. /\ options \in Configurations /\ IsSequence(log) /\ Latches(transient) /\ LatchInv
        /\ Listed(bag) /\ Detailed(bag) /\ Counted(bag, uncounted', missed') /\ DOMAIN bag.topics = Known /\ Len(bag.files) > 0
        /\ IsSequence(in_flight) /\ IsSequence(cache) /\ Windows
    BY <1>1, InvFacts DEF IInv, CountInv, Known, Modes, Heading
  <1>4. Range(Todo) = Range(in_flight) \cup Range(cache)
    BY <1>3, ConcatFacts DEF Todo
  <1>5. /\ \A x \in Stored(bag) \cup Range(in_flight) \cup Range(cache) : Proper(x)
        /\ Originally(in_flight) /\ Originally(cache)
    BY <1>4 DEF CountInv, Heading, Originally
  <1>6. HeadsIn(bag, due', log, lost) /\ lost \subseteq lost'
    BY <1>1 DEF Heading, Store
  <1>7. options.mode = "direct" => bag.storage # NoFile
    BY <1>1
  <1>8. Store(bag, m, cache, losses) /\ in_flight' = in_flight
    BY <1>1
  <1> QED
    BY <1>2, <1>3, <1>5, <1>6, <1>7, <1>8, StoreHeads

(* write() that splits: the message is none of those its file starts with. *)
LEMMA SplitAndWriteHeads ==
  ASSUME IInv, CountInv, Heading, options.cleanup_only,
         NEW t, NEW stamp, NEW losses, NEW n, SplitAndWrite(t, stamp, losses, n)
  PROVE  Headed
  <1> DEFINE m == NewMessage(t, stamp)
             new == IF options.mode = "direct" THEN {m} ELSE {}
             f == AddToFile(Written, Kept(Pending, losses))
             a == Rolled(f, losses, n)
             l == Len(a.files)
             b == [a EXCEPT !.files[l].starting_time = stamp]
             D == With(due, bag.next_file_index, Len(log))
             L == lost \cup losses
             none == <<>>
             atRisk == Range(Pending) \cup Range(Heads) \cup new
  <1>1. /\ t \in Known /\ stamp \in options.stamps
        /\ options.mode # "snapshot"
        /\ Registered(bag, Pending)
        /\ Split(f, atRisk, losses, n)
        /\ Store(b, m, none, losses)
        /\ due' = D
    BY DEF SplitAndWrite, SplitsFor, Writable
  <1>2. in_flight' = none /\ uncounted' = <<>> /\ missed' = missed /\ n \in 0 .. Excess(bag)
    BY <1>1 DEF Split
  <1>3. m.stamp \in Nat /\ m.topic \in Known /\ m.id = Len(log) + 1 /\ m.repeat = FALSE
    BY <1>1, NoTimeIsLate DEF NewMessage, IInv
  <1> HIDE DEF m
  <1>4. /\ HeadsIn(a, D, log, L)
        /\ Listed(a) /\ Detailed(a) /\ Counted(a, <<>>, missed) /\ DOMAIN a.topics = Known
        /\ \A x \in Stored(a) : Proper(x)
        /\ a.storage # NoFile /\ l > 0
    BY <1>1, <1>2, RollHeads
  <1>5. L \subseteq lost'
    BY <1>1 DEF Store
  <1> HIDE DEF a, D, L
  <1>6. Grown(a, b, none)
    BY <1>4, RestartGrows
  <1> HIDE DEF b
  <1>7. IsSequence(none) /\ Range(none) = {} /\ Originally(none)
    BY EmptySequence DEF Originally
  <1>8. Refiled(a, b, none)
    BY <1>6 DEF Grown
  <1> HIDE DEF none
  <1>9. Listed(b) /\ Detailed(b) /\ Counted(b, <<>>, missed) /\ Stored(b) = Stored(a)
    <2>1. Stored(b) = Stored(a) \cup Range(none)
      BY <1>4, <1>7, <1>8, RefiledStored
    <2>2. none = <<>> \/ a.storage # NoFile
      BY <1>4
    <2> QED
      BY <1>4, <1>6, <1>7, <2>1, <2>2, GrownCounts
  <1>10. b.storage # NoFile /\ Len(b.files) > 0 /\ DOMAIN b.topics = Known
    BY <1>4, <1>6, <1>8 DEF Grown, Refiled
  <1>11. HeadsIn(b, due', log, L)
    <2>1. HeadsIn(b, D, log, L)
      BY <1>4, <1>7, <1>8, HeadsGrown
    <2> QED
      BY <1>1, <2>1
  <1>12. options \in Configurations /\ IsSequence(log) /\ Latches(transient) /\ LatchInv /\ Windows
    BY DEF IInv, CountInv, Heading
  <1>13. \A x \in Stored(b) \cup Range(none) \cup Range(none) : Proper(x)
    BY <1>4, <1>7, <1>9
  <1>14. Store(b, m, none, losses) /\ options.mode # "snapshot" /\ (options.mode = "direct" => b.storage # NoFile)
    BY <1>1, <1>10
  <1>15. Counted(b, uncounted', missed')
    BY <1>2, <1>9
  <1> QED
    BY <1>15, <1>2, <1>3, <1>5, <1>7, <1>9, <1>10, <1>11, <1>12, <1>13, <1>14, StoreHeads

(* No file, no message, no queue. *)
LEMMA InitHeads == Init => HeadInv
  <1> SUFFICES ASSUME Init PROVE Heading
    BY DEF HeadInv
  <1>1. /\ bag.disk = <<>> /\ bag.topics = <<>> /\ transient = <<>> /\ cache = <<>> /\ in_flight = <<>>
        /\ due = <<>>
    BY DEF Init
  <1>2. Range(<<>>) = {} /\ DOMAIN <<>> = {} /\ <<>> \o <<>> = <<>>
    BY EmptySequence, EmptyJoined
  <1>3. Windows
    BY <1>1, <1>2 DEF Windows, Known
  <1>4. Originally(Todo)
    BY <1>1, <1>2 DEF Originally, Todo
  <1>5. HeadsIn(bag, due, log, lost)
    BY <1>1, <1>2 DEF HeadsIn
  <1> QED
    BY <1>3, <1>4, <1>5 DEF Heading

(* Every step of a call or of the consumer keeps them. *)
LEMMA NextHeads == IInv /\ CountInv /\ HeadInv /\ [Next]_vars => HeadInv'
  <1> SUFFICES ASSUME IInv, CountInv, HeadInv, [Next]_vars,
                      options'.mode # "snapshot", options'.cleanup_only
               PROVE  Heading'
    BY DEF HeadInv
  <1>1. options' = options
    BY DEF Next, vars
  <1>2. Heading /\ options.mode # "snapshot" /\ options.cleanup_only
    BY <1>1 DEF HeadInv
  <1>3. Headed
    <2>1. CASE UNCHANGED vars
      <3>1. UNCHANGED <<bag, transient, log, due, lost, cache, in_flight>>
        BY <2>1 DEF vars, callVars, pipe, history
      <3>2. Range(Todo') \subseteq Range(Todo)
        BY <3>1 DEF Todo
      <3> QED
        BY <1>2, <3>1, <3>2, IdleHeads
    <2>2. CASE Next
      <3>1. ASSUME NEW convert, Open(convert) \/ OpenFails(convert) PROVE Headed
        BY <1>2, <3>1, OpenHeads, OtherHeads
      <3>2. ASSUME NEW losses, Close(losses) \/ RolloverFails(losses) PROVE Headed
        BY <1>2, <3>2, CloseHeads, RolloverFailsHeads
      <3>3. ASSUME NEW t, CreateTopic(t) \/ RemoveTopic(t) PROVE Headed
        BY <1>2, <3>3, CreateTopicHeads, RemoveTopicHeads
      <3>4. ASSUME NEW losses, NEW n, SplitBagfile(losses, n) \/ TakeSnapshot(losses, n) PROVE Headed
        <4>1. ~TakeSnapshot(losses, n)
          BY <1>2 DEF TakeSnapshot
        <4> QED
          BY <1>2, <3>4, <4>1, SplitBagfileHeads
      <3>5. ASSUME NEW t, NEW stamp, NEW losses, Write(t, stamp, losses) PROVE Headed
        BY <1>2, <3>5, WriteHeads
      <3>6. ASSUME NEW t, NEW stamp, NEW losses, NEW n, SplitAndWrite(t, stamp, losses, n) PROVE Headed
        BY <1>2, <3>6, SplitAndWriteHeads
      <3>7. ASSUME NEW losses, StoreMessages(losses) PROVE Headed
        BY <1>2, <3>7, StoreMessagesHeads
      <3>9. CASE CountMessages
        BY <1>2, <3>9, CountMessagesHeads
      <3>8. CASE SwapBuffers \/ Crash
        BY <1>2, <3>8, OtherHeads
      <3> QED
        BY <2>2, <3>1, <3>2, <3>3, <3>4, <3>5, <3>6, <3>7, <3>8, <3>9 DEF Next
    <2> QED
      BY <2>1, <2>2
  <1>4. Windows' /\ Originally(Todo') /\ HeadsIn(bag', due', log', lost')
    BY <1>3 DEF Headed
  <1> QED
    BY <1>4 DEF Heading, Originally, Todo, HeadsIn, Topped, LastOf

(* The copies in a file that starts with them. *)
LEMMA ToppedCopies ==
  ASSUME NEW s, IsSequence(s), NEW S, NEW L, Topped(s, S, L)
  PROVE  LET copies == {m.id : m \in {x \in Range(s) : x.repeat}} IN
         /\ copies \subseteq S
         /\ S \subseteq copies \cup {m.id : m \in {x \in L : x.repeat}}
         /\ \A i \in DOMAIN s : i <= Cardinality(copies) <=> s[i].repeat
  <1> DEFINE copies == {m.id : m \in {x \in Range(s) : x.repeat}}
  <1>1. Len(s) \in Nat /\ DOMAIN s = 1 .. Len(s) /\ Range(s) = {s[i] : i \in 1 .. Len(s)}
    BY SequenceFacts
  <1>2. PICK h \in 0 .. Len(s) :
           /\ \A i \in 1 .. h : s[i].repeat = TRUE /\ s[i].id \in S
           /\ \A i \in h + 1 .. Len(s) : s[i].repeat = FALSE
           /\ \A i, j \in 1 .. h : i # j => s[i].id # s[j].id
           /\ \A x \in S : (\E i \in 1 .. h : s[i].id = x) \/ \E m \in L : m.repeat /\ m.id = x
    BY DEF Topped
  <1>3. \A i \in 1 .. Len(s) : (i \in 1 .. h /\ i <= h) \/ (i \in h + 1 .. Len(s) /\ ~(i <= h))
    BY <1>1
  <1>4. \A i \in 1 .. h : i \in 1 .. Len(s)
    BY <1>1
  <1>5. copies = {s[i].id : i \in 1 .. h}
    <2>1. ASSUME NEW x \in copies PROVE \E i \in 1 .. h : x = s[i].id
      <3>1. PICK i \in 1 .. Len(s) : s[i].repeat /\ x = s[i].id
        BY <1>1
      <3> QED
        BY <1>2, <1>3, <3>1
    <2>2. ASSUME NEW i \in 1 .. h PROVE s[i].id \in copies
      <3>1. s[i] \in Range(s) /\ s[i].repeat
        BY <1>1, <1>2, <1>4
      <3> QED
        BY <3>1
    <2> HIDE DEF copies
    <2> QED
      BY <2>1, <2>2
  <1>6. Cardinality(copies) = h
    <2>1. 1 \in Nat /\ h \in Nat /\ (IF 1 > h THEN 0 ELSE h - 1 + 1) = h
      BY <1>1
    <2>2. \A i, j \in 1 .. h : i # j => s[i].id # s[j].id
      BY <1>2
    <2>3. Cardinality({s[i].id : i \in 1 .. h}) = IF 1 > h THEN 0 ELSE h - 1 + 1
      BY <2>1, <2>2, DistinctIds
    <2> QED
      BY <1>5, <2>1, <2>3
  <1> HIDE DEF copies
  <1>7. copies \subseteq S
    BY <1>2, <1>5
  <1>8. S \subseteq copies \cup {m.id : m \in {x \in L : x.repeat}}
    BY <1>2, <1>5
  <1>9. \A i \in DOMAIN s : i <= Cardinality(copies) <=> s[i].repeat
    BY <1>1, <1>2, <1>3, <1>6
  <1> QED
    BY <1>7, <1>8, <1>9 DEF copies

(* For any options, topics and depth, whatever the storage refuses and whenever the
   consumer runs: every file that a split opens starts with the last messages of the
   latched topics, each once, and holds no other copies. *)
THEOREM LatchedSafety == Spec => []LatchedInEverySplit
  <1>1. IInv /\ HeadInv => LatchedInEverySplit
    <2> SUFFICES ASSUME IInv, Heading, NEW k \in DOMAIN due \cap DOMAIN bag.disk
                 PROVE  LET messages == bag.disk[k].messages
                            copies   == {m.id : m \in {x \in Range(messages) : x.repeat}}
                        IN  /\ copies \subseteq LastLatched(due[k])
                            /\ LastLatched(due[k]) \subseteq copies \cup LostRepeats
                            /\ \A i \in DOMAIN messages : i <= Cardinality(copies) <=> messages[i].repeat
      BY DEF HeadInv, LatchedInEverySplit
    <2>1. Topped(bag.disk[k].messages, LastOf(log, due[k]), lost)
      BY DEF Heading, HeadsIn
    <2>2. IsSequence(bag.disk[k].messages)
      BY InvFacts DEF Listed
    <2>3. LastLatched(due[k]) = LastOf(log, due[k]) /\ LostRepeats = {m.id : m \in {x \in lost : x.repeat}}
      BY DEF LastLatched, LastOf, LostRepeats
    <2> QED
      BY <2>1, <2>2, <2>3, ToppedCopies
  <1>2. Init => IInv /\ CountInv /\ DateInv /\ HeadInv
    BY InitHolds, InitCounts, InitHeads
  <1>3. IInv /\ CountInv /\ DateInv /\ HeadInv /\ [Next]_vars => (IInv /\ CountInv /\ DateInv /\ HeadInv)'
    BY NextKeeps, NextCounted, NextHeads DEF Keeping
  <1> QED
    BY <1>1, <1>2, <1>3, PTL DEF Spec

=============================================================================
