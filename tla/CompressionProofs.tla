------------------------- MODULE CompressionProofs -------------------------
(***************************************************************************)
(* Proofs about CompressionWriter, for any number of threads, files and       *)
(* messages, with and without retention: a closed bag is complete, and each   *)
(* split is announced once, with the names of the files next to each other.  *)
(***************************************************************************)
EXTENDS CompressionWriter, SequenceTheorems, TLAPS

-----------------------------------------------------------------------------
(* Sequences.                                                              *)

(* A queue that loses its first item. *)
LEMMA HeadAndTail ==
    ASSUME NEW s \in Seq(Nat), s # << >>
    PROVE  /\ Len(s) \in Nat \ {0} /\ DOMAIN s = 1 .. Len(s)
           /\ Head(s) = s[1] /\ Head(s) \in Nat
           /\ Tail(s) \in Seq(Nat) /\ Len(Tail(s)) = Len(s) - 1
           /\ DOMAIN Tail(s) = 1 .. Len(s) - 1
           /\ \A i \in 1 .. Len(s) - 1 : Tail(s)[i] = s[i + 1]
  <1>1. /\ Tail(s) \in Seq(Nat) /\ Len(Tail(s)) = Len(s) - 1 /\ Head(s) \in Nat
        /\ \A i \in 1 .. Len(Tail(s)) : Tail(s)[i] = s[i + 1]
    BY HeadTailProperties
  <1>2. Len(s) \in Nat \ {0} /\ DOMAIN s = 1 .. Len(s)
    BY LenProperties, EmptySeq
  <1>3. Head(s) = s[1]
    OBVIOUS
  <1>4. DOMAIN Tail(s) = 1 .. Len(Tail(s))
    BY <1>1, LenProperties
  <1>5. QED
    BY <1>1, <1>2, <1>3, <1>4

(* A sequence with one more item. *)
LEMMA Appended ==
    ASSUME NEW S, NEW s \in Seq(S), NEW x \in S
    PROVE  /\ Append(s, x) \in Seq(S) /\ Len(s) \in Nat /\ Len(Append(s, x)) = Len(s) + 1
           /\ DOMAIN s = 1 .. Len(s) /\ DOMAIN Append(s, x) = 1 .. Len(s) + 1
           /\ \A i \in 1 .. Len(s) : Append(s, x)[i] = s[i]
           /\ Append(s, x)[Len(s) + 1] = x
  <1>1. /\ Append(s, x) \in Seq(S) /\ Len(Append(s, x)) = Len(s) + 1
        /\ \A i \in 1 .. Len(s) : Append(s, x)[i] = s[i]
        /\ Append(s, x)[Len(s) + 1] = x
    BY AppendProperties
  <1>2. Len(s) \in Nat /\ DOMAIN s = 1 .. Len(s)
    BY LenProperties
  <1>3. DOMAIN Append(s, x) = 1 .. Len(Append(s, x))
    BY <1>1, LenProperties
  <1>4. QED
    BY <1>1, <1>2, <1>3

(* A list with one more item, cut at the front. *)
IsCut(S, s, x, d, rest) ==
    /\ s \in Seq(S) /\ x \in S /\ d \in 0 .. Len(s)
    /\ rest = SubSeq(Append(s, x), d + 1, Len(s) + 1)

Follows(S, s, x, d, rest) ==
    /\ rest \in Seq(S) /\ Len(rest) = Len(s) + 1 - d
    /\ DOMAIN rest = 1 .. Len(s) + 1 - d
    /\ \A i \in 1 .. Len(s) - d : rest[i] = s[i + d]
    /\ rest[Len(s) + 1 - d] = x

(* A list with one more item, cut at the front, keeps the rest in its places. *)
LEMMA CutFront ==
    ASSUME NEW S, NEW s, NEW x, NEW d, NEW cut, IsCut(S, s, x, d, cut)
    PROVE  Follows(S, s, x, d, cut)
  <1> USE DEF IsCut
  <1> DEFINE more == Append(s, x)
             n == Len(s)
             rest == SubSeq(more, d + 1, n + 1)
  <1>1. /\ more \in Seq(S) /\ n \in Nat /\ Len(more) = n + 1
        /\ \A i \in 1 .. n : more[i] = s[i]
        /\ more[n + 1] = x
    BY Appended
  <1>2. \A i \in 1 .. n + 1 : more[i] \in S
    BY <1>1, ElementOfSeq
  <1> HIDE DEF more
  <1>3. d \in Nat /\ d <= n /\ n \in Nat
    BY <1>1
  <1> HIDE DEF n
  <1>4. \A i \in d + 1 .. n + 1 : more[i] \in S
    BY <1>2, <1>3
  <1>5. /\ rest \in Seq(S)
        /\ Len(rest) = IF d + 1 <= n + 1 THEN (n + 1) - (d + 1) + 1 ELSE 0
        /\ \A i \in 1 .. (n + 1) - (d + 1) + 1 : rest[i] = more[d + 1 + i - 1]
    BY <1>3, <1>4, SubSeqProperties
  <1>6. DOMAIN rest = 1 .. Len(rest)
    BY <1>5, LenProperties
  <1> HIDE DEF rest
  <1>7. Len(rest) = n + 1 - d /\ \A i \in 1 .. n + 1 - d : rest[i] = more[i + d]
    BY <1>3, <1>5
  <1>8. \A i \in 1 .. n - d : rest[i] = s[i + d]
    BY <1>1, <1>3, <1>7
  <1>9. rest[n + 1 - d] = x
    BY <1>1, <1>3, <1>7
  <1>10. QED
    BY <1>1, <1>5, <1>6, <1>7, <1>8, <1>9 DEF more, n, rest, Follows

-----------------------------------------------------------------------------
(* The files of the base class.                                            *)

(* What the list of files is, in numbers. *)
LEMMA ListOfFiles ==
    ASSUME TypeOK, FilesAreListed
    PROVE  /\ Len(content) \in Nat \ {0} /\ Len(files) \in 1 .. Len(content) /\ Len(paths) = Len(files)
           /\ DOMAIN content = 1 .. Len(content)
           /\ DOMAIN files = 1 .. Len(files) /\ DOMAIN paths = 1 .. Len(files)
           /\ \A i \in 1 .. Len(files) : /\ files[i] = Len(content) - Len(files) + i
                                         /\ paths[i] \in Name /\ paths[i][1] = files[i]
           /\ Current = Len(content)
           /\ Last(paths) = paths[Len(files)]
  <1>1. Len(content) \in Nat /\ Len(files) \in Nat /\ Len(paths) \in Nat
    BY LenProperties DEF TypeOK
  <1>2. /\ DOMAIN content = 1 .. Len(content) /\ DOMAIN files = 1 .. Len(files)
        /\ DOMAIN paths = 1 .. Len(paths)
    BY LenProperties DEF TypeOK
  <1>3. Len(files) \in 1 .. Len(content) /\ Len(paths) = Len(files)
    BY DEF FilesAreListed
  <1>4. \A i \in 1 .. Len(paths) : paths[i] \in Name
    BY ElementOfSeq DEF TypeOK
  <1>5. \A i \in 1 .. Len(files) : files[i] = Len(content) - Len(files) + i /\ paths[i][1] = files[i]
    BY <1>2 DEF FilesAreListed
  <1>6. Current = files[Len(files)] /\ Last(paths) = paths[Len(paths)]
    BY DEF Current, Last
  <1>7. Len(files) \in 1 .. Len(files)
    BY <1>1, <1>3
  <1>8. Current = Len(content)
    BY <1>1, <1>5, <1>6, <1>7
  <1>9. QED
    BY <1>1, <1>2, <1>3, <1>4, <1>5, <1>6, <1>8

(* A split drops the oldest files and lists a new one. *)
SplitDrops(d) ==
    LET n == Len(content) IN
    /\ d \in 0 .. Len(files) /\ (options.max_bag_files = 0 => d = 0)
    /\ files' \in Seq(Nat) /\ Len(files') = Len(files) + 1 - d
    /\ paths' \in Seq(Name) /\ Len(paths') = Len(files) + 1 - d
    /\ DOMAIN files' = 1 .. Len(files) + 1 - d /\ DOMAIN paths' = 1 .. Len(files) + 1 - d
    /\ \A i \in 1 .. Len(files) - d : files'[i] = files[i + d] /\ paths'[i] = paths[i + d]
    /\ files'[Len(files) + 1 - d] = n + 1 /\ paths'[Len(files) + 1 - d] = Plain(n + 1)
    /\ disk' = (disk \cup {Plain(n + 1)}) \ {Plain(files[i]) : i \in 1 .. d}

(* A split adds one file at the end of the lists, and retention drops some at the front. *)
LEMMA SplitMeans ==
    ASSUME TypeOK, FilesAreListed, Split
    PROVE  \E d \in 0 .. Len(files) : SplitDrops(d)
  <1> DEFINE n == Len(content)
             fs == Append(files, n + 1)
             d == Dropped(fs)
             k == Len(files)
             name == Plain(n + 1)
  <1>1. /\ n \in Nat \ {0} /\ k \in 1 .. n /\ Len(paths) = k
        /\ files \in Seq(Nat) /\ paths \in Seq(Name)
    BY ListOfFiles DEF TypeOK
  <1>6. /\ files' = SubSeq(fs, d + 1, Len(fs))
        /\ paths' = SubSeq(Append(paths, name), d + 1, Len(Append(paths, name)))
        /\ disk' = (disk \cup {name}) \ Deleted(fs)
    BY DEF Split, Kept
  <1>7. Deleted(fs) = {Plain(fs[i]) : i \in 1 .. d}
    BY DEF Deleted
  <1>3. options.max_bag_files \in Nat
    BY CompressionAssumption DEF TypeOK
  <1>13. d = IF options.max_bag_files > 0 /\ Len(fs) > options.max_bag_files
             THEN Len(fs) - options.max_bag_files ELSE 0
    BY DEF Dropped, Surplus
  <1> HIDE DEF d, n
  <1>2. n + 1 \in Nat /\ name \in Name
    <2>1. n + 1 \in Nat
      BY <1>1
    <2>2. <<n + 1, FALSE>> \in Nat \X BOOLEAN
      BY <2>1
    <2>3. QED
      BY <2>1, <2>2 DEF Plain, Name
  <1> HIDE DEF name
  <1>4. Len(fs) = k + 1 /\ Len(Append(paths, name)) = k + 1 /\ \A i \in 1 .. k : fs[i] = files[i]
    BY <1>1, <1>2, Appended
  <1>14. fs = Append(files, n + 1) /\ k = Len(files)
    OBVIOUS
  <1> HIDE DEF fs, k
  <1>5. d \in 0 .. k /\ (options.max_bag_files = 0 => d = 0)
    BY <1>1, <1>3, <1>4, <1>13
  <1>8. Follows(Nat, files, n + 1, d, files')
    <2>1. IsCut(Nat, files, n + 1, d, files')
      BY <1>1, <1>2, <1>4, <1>5, <1>6, <1>14 DEF IsCut
    <2>2. QED
      BY <2>1, CutFront
  <1>9. Follows(Name, paths, name, d, paths')
    <2>1. IsCut(Name, paths, name, d, paths')
      BY <1>1, <1>2, <1>4, <1>5, <1>6 DEF IsCut
    <2>2. QED
      BY <2>1, CutFront
  <1>10. Deleted(fs) = {Plain(files[i]) : i \in 1 .. d}
    <2>1. \A i \in 1 .. d : fs[i] = files[i]
      BY <1>1, <1>4, <1>5
    <2>2. QED
      BY <1>7, <2>1
  <1>11. SplitDrops(d)
    BY <1>1, <1>5, <1>6, <1>8, <1>9, <1>10, <1>14 DEF SplitDrops, Follows, n, name
  <1>12. QED
    BY <1>5, <1>11, <1>14

(* The base class stores a message in the last file, or in a new one. *)
InLast(m) ==
    LET n == Len(content) IN
    /\ content' \in Seq(SUBSET Nat) /\ Len(content') = n /\ DOMAIN content' = 1 .. n
    /\ \A k \in 1 .. n : content'[k] = IF k = n THEN content[k] \cup {m} ELSE content[k]
    /\ UNCHANGED <<files, paths, disk, compressor_file_queue, announced>>
InNext(m) ==
    LET n == Len(content) IN
    /\ content' \in Seq(SUBSET Nat) /\ Len(content') = n + 1 /\ DOMAIN content' = 1 .. n + 1
    /\ \A k \in 1 .. n : content'[k] = content[k]
    /\ content'[n + 1] = {m}
    /\ Split

(* A write of the base class goes to the last file, or to a new one when it is full. *)
LEMMA BaseWriteMeans ==
    ASSUME TypeOK, FilesAreListed, NEW m \in Nat, BaseWrite(m)
    PROVE  InLast(m) \/ InNext(m)
  <1> DEFINE n == Len(content)
             full == Cardinality(content[Current]) >= FileSize
  <1>1. /\ content \in Seq(SUBSET Nat) /\ n \in Nat \ {0} /\ DOMAIN content = 1 .. n
        /\ Current = n
    BY ListOfFiles DEF TypeOK
  <1>2. content[n] \in SUBSET Nat
    BY <1>1, ElementOfSeq
  <1>3. {m} \in SUBSET Nat /\ content[n] \cup {m} \in SUBSET Nat
    BY <1>2
  <1>4. CASE full
    <2>1. content' = Append(content, {m}) /\ Split
      BY <1>4 DEF BaseWrite
    <2>2. /\ content' \in Seq(SUBSET Nat) /\ Len(content') = n + 1 /\ DOMAIN content' = 1 .. n + 1
          /\ \A k \in 1 .. n : content'[k] = content[k]
          /\ content'[n + 1] = {m}
      BY <1>1, <1>3, <2>1, Appended
    <2>3. QED
      BY <2>1, <2>2 DEF InNext
  <1>5. CASE ~full
    <2>1. content' = [content EXCEPT ![n] = content[n] \cup {m}]
          /\ UNCHANGED <<files, paths, disk, compressor_file_queue, announced>>
      BY <1>1, <1>5 DEF BaseWrite
    <2> HIDE DEF n
    <2>2. content' \in Seq(SUBSET Nat) /\ Len(content') = Len(content)
      BY <1>1, <1>3, <2>1, ExceptSeq
    <2>3. DOMAIN content' = 1 .. n
      BY <1>1, <2>1
    <2>4. \A k \in 1 .. n : content'[k] = IF k = n THEN content[k] \cup {m} ELSE content[k]
      BY <1>1, <2>1
    <2>5. QED
      BY <2>1, <2>2, <2>3, <2>4 DEF InLast, n
  <1>6. QED
    BY <1>4, <1>5

(* The new message is in one file, the others stay where they are. *)
Stores(m) ==
    \E p \in DOMAIN content' :
        /\ m \in content'[p]
        /\ \A k \in DOMAIN content : k \in DOMAIN content' /\ content[k] \subseteq content'[k]
        /\ \A k \in DOMAIN content' : \A x \in content'[k] :
              (x = m /\ k = p) \/ (k \in DOMAIN content /\ x \in content[k])

(* Either way the message is added to one file, and no other message moves. *)
LEMMA BaseWriteStores ==
    ASSUME TypeOK, FilesAreListed, NEW m \in Nat, InLast(m) \/ InNext(m)
    PROVE  Stores(m)
  <1> DEFINE n == Len(content)
  <1>1. n \in Nat \ {0} /\ DOMAIN content = 1 .. n
    BY ListOfFiles
  <1>2. CASE InLast(m)
    <2>1. /\ DOMAIN content' = 1 .. n
          /\ \A k \in 1 .. n : content'[k] = IF k = n THEN content[k] \cup {m} ELSE content[k]
      BY <1>2 DEF InLast
    <2> HIDE DEF n
    <2>2. n \in DOMAIN content' /\ m \in content'[n]
      BY <1>1, <2>1
    <2>3. QED
      BY <1>1, <2>1, <2>2 DEF Stores
  <1>3. CASE InNext(m)
    <2>1. /\ DOMAIN content' = 1 .. n + 1
          /\ \A k \in 1 .. n : content'[k] = content[k]
          /\ content'[n + 1] = {m}
      BY <1>3 DEF InNext
    <2> HIDE DEF n
    <2>2. n + 1 \in DOMAIN content' /\ m \in content'[n + 1]
      BY <1>1, <2>1
    <2>3. \A k \in 1 .. n + 1 : k \in 1 .. n \/ k = n + 1
      BY <1>1
    <2>4. \A k \in 1 .. n : k \in 1 .. n + 1
      BY <1>1
    <2>5. \A k \in DOMAIN content' : \A x \in content'[k] :
              (x = m /\ k = n + 1) \/ (k \in DOMAIN content /\ x \in content[k])
      BY <1>1, <2>1, <2>3
    <2>6. \A k \in DOMAIN content : k \in DOMAIN content' /\ content[k] \subseteq content'[k]
      BY <1>1, <2>1, <2>4
    <2>7. QED
      BY <2>2, <2>5, <2>6 DEF Stores
  <1>4. QED
    BY <1>2, <1>3

(* The list after a split is that of the newest files. *)
LEMMA SplitLists ==
    ASSUME TypeOK, FilesAreListed, NEW d \in 0 .. Len(files), SplitDrops(d),
           Len(content') = Len(content) + 1, UNCHANGED options
    PROVE  FilesAreListed'
  <1> DEFINE n == Len(content)
             k == Len(files)
  <1>1. /\ n \in Nat \ {0} /\ k \in 1 .. n /\ d \in 0 .. k
        /\ \A i \in 1 .. k : files[i] = n - k + i /\ paths[i][1] = files[i]
        /\ options.max_bag_files = 0 => k = n
    BY ListOfFiles DEF FilesAreListed
  <1>2. /\ Len(files') = k + 1 - d /\ Len(paths') = k + 1 - d
        /\ DOMAIN files' = 1 .. k + 1 - d
        /\ \A i \in 1 .. k - d : files'[i] = files[i + d] /\ paths'[i] = paths[i + d]
        /\ files'[k + 1 - d] = n + 1 /\ paths'[k + 1 - d] = Plain(n + 1)
        /\ options.max_bag_files = 0 => d = 0
        /\ Len(content') = n + 1
    BY DEF SplitDrops
  <1> HIDE DEF n, k
  <1>3. Len(files') \in 1 .. Len(content') /\ Len(paths') = Len(files')
    BY <1>1, <1>2
  <1>4. options'.max_bag_files = 0 => Len(files') = Len(content')
    BY <1>1, <1>2
  <1>5. ASSUME NEW i \in 1 .. k + 1 - d
        PROVE  files'[i] = Len(content') - Len(files') + i /\ paths'[i][1] = files'[i]
    <2>1. CASE i = k + 1 - d
      <3>1. files'[i] = n + 1 /\ paths'[i] = Plain(n + 1)
        BY <1>2, <2>1
      <3>2. n + 1 = (n + 1) - (k + 1 - d) + i
        BY <1>1, <2>1
      <3>3. paths'[i][1] = n + 1
        BY <3>1 DEF Plain
      <3>4. QED
        BY <1>2, <3>1, <3>2, <3>3
    <2>2. CASE i # k + 1 - d
      <3>1. i \in 1 .. k - d /\ i + d \in 1 .. k
        BY <1>1, <2>2
      <3>2. files'[i] = n - k + (i + d) /\ paths'[i][1] = files'[i]
        BY <1>1, <1>2, <3>1
      <3>3. n - k + (i + d) = (n + 1) - (k + 1 - d) + i
        BY <1>1, <3>1
      <3>4. QED
        BY <1>2, <3>2, <3>3
    <2>3. QED
      BY <2>1, <2>2
  <1>6. QED
    BY <1>2, <1>3, <1>4, <1>5 DEF FilesAreListed

-----------------------------------------------------------------------------
(* Items, each in one place.                                               *)

(* The items of a queue. *)
LEMMA QueueAppend ==
    ASSUME NEW S, NEW s \in Seq(S), NEW x \in S
    PROVE  /\ Range(Append(s, x)) = Range(s) \cup {x}
           /\ IsInjective(s) /\ x \notin Range(s) => IsInjective(Append(s, x))
  <1> DEFINE n == Len(s)
             more == Append(s, x)
  <1>1. /\ n \in Nat /\ DOMAIN s = 1 .. n /\ DOMAIN more = 1 .. n + 1
        /\ \A i \in 1 .. n : more[i] = s[i]
        /\ more[n + 1] = x
    BY Appended
  <1> HIDE DEF n, more
  <1>2. \A i \in 1 .. n + 1 : i \in 1 .. n \/ i = n + 1
    BY <1>1
  <1>3. (\A i \in 1 .. n : i \in 1 .. n + 1) /\ n + 1 \in 1 .. n + 1
    BY <1>1
  <1>4. Range(more) = Range(s) \cup {x}
    BY <1>1, <1>2, <1>3 DEF Range
  <1>5. ASSUME IsInjective(s), x \notin Range(s)
        PROVE  IsInjective(more)
    <2>1. \A i \in 1 .. n : s[i] # x
      BY <1>1, <1>5 DEF Range
    <2>2. \A i, j \in 1 .. n : s[i] = s[j] => i = j
      BY <1>1, <1>5 DEF IsInjective
    <2>3. \A i, j \in 1 .. n + 1 : more[i] = more[j] => i = j
      BY <1>1, <1>2, <2>1, <2>2
    <2>4. QED
      BY <1>1, <2>3 DEF IsInjective
  <1>6. QED
    BY <1>4, <1>5 DEF more

(* The front of a queue without repetition leaves it for good. *)
LEMMA QueueTail ==
    ASSUME NEW s \in Seq(Nat), s # << >>
    PROVE  /\ Head(s) \in Range(s)
           /\ IsInjective(s) => Range(Tail(s)) = Range(s) \ {Head(s)} /\ IsInjective(Tail(s))
  <1> DEFINE n == Len(s)
             rest == Tail(s)
             x == Head(s)
  <1>1. /\ n \in Nat \ {0} /\ DOMAIN s = 1 .. n /\ x = s[1]
        /\ DOMAIN rest = 1 .. n - 1
        /\ \A i \in 1 .. n - 1 : rest[i] = s[i + 1]
    BY HeadAndTail
  <1> HIDE DEF n, rest, x
  <1>2. 1 \in 1 .. n /\ \A i \in 1 .. n - 1 : i + 1 \in 1 .. n /\ i + 1 # 1
    BY <1>1
  <1>3. x \in Range(s)
    BY <1>1, <1>2 DEF Range
  <1>4. ASSUME IsInjective(s)
        PROVE  Range(rest) = Range(s) \ {x} /\ IsInjective(rest)
    <2>1. \A i, j \in 1 .. n : s[i] = s[j] => i = j
      BY <1>1, <1>4 DEF IsInjective
    <2>2. \A i, j \in 1 .. n - 1 : i + 1 = j + 1 => i = j
      BY <1>1
    <2>3. IsInjective(rest)
      BY <1>1, <1>2, <2>1, <2>2 DEF IsInjective
    <2>4. \A j \in 1 .. n : j # 1 => j - 1 \in 1 .. n - 1 /\ (j - 1) + 1 = j
      BY <1>1
    <2>5. ASSUME NEW y \in Range(rest)
          PROVE  y \in Range(s) \ {x}
      <3>1. PICK i \in 1 .. n - 1 : y = rest[i]
        BY <1>1 DEF Range
      <3>2. y = s[i + 1] /\ i + 1 \in 1 .. n /\ i + 1 # 1
        BY <1>1, <1>2, <3>1
      <3>3. y \in Range(s)
        BY <1>1, <3>2 DEF Range
      <3>4. y # x
        BY <1>1, <1>2, <2>1, <3>2
      <3>5. QED
        BY <3>3, <3>4
    <2>6. ASSUME NEW y \in Range(s), y # x
          PROVE  y \in Range(rest)
      <3>1. PICK j \in 1 .. n : y = s[j]
        BY <1>1 DEF Range
      <3>2. j # 1
        BY <1>1, <2>6, <3>1
      <3>3. j - 1 \in DOMAIN rest /\ rest[j - 1] = y
        BY <1>1, <2>4, <3>1, <3>2
      <3>4. QED
        BY <3>3 DEF Range
    <2>7. QED
      BY <2>3, <2>5, <2>6
  <1>5. QED
    BY <1>3, <1>4 DEF rest, x

(* A new item is queued. *)
LEMMA OnceQueued ==
    ASSUME NEW items, NEW queued, NEW done, NEW users, NEW at, NEW x,
           EachOnce(items, queued, done, users, at), x \notin items
    PROVE  EachOnce(items \cup {x}, queued \cup {x}, done, users, at)
  BY DEF EachOnce

(* A new item is done at once. *)
LEMMA OnceDone ==
    ASSUME NEW items, NEW queued, NEW done, NEW users, NEW at, NEW x,
           EachOnce(items, queued, done, users, at), x \notin items
    PROVE  EachOnce(items \cup {x}, queued, done \cup {x}, users, at)
  BY DEF EachOnce

(* A thread that has no item takes one from a queue. *)
LEMMA OnceTaken ==
    ASSUME NEW items, NEW queued, NEW done, NEW users, NEW at, NEW new, NEW x, NEW t,
           EachOnce(items, queued, done, users, at), x \in queued, t \notin users,
           new[t].item = x, \A u \in users : new[u].item = at[u].item
    PROVE  EachOnce(items, queued \ {x}, done, users \cup {t}, new)
  BY DEF EachOnce

(* A thread is done with its item. *)
LEMMA OnceGiven ==
    ASSUME NEW items, NEW queued, NEW done, NEW users, NEW at, NEW new, NEW t \in users,
           EachOnce(items, queued, done, users, at),
           \A u \in users \ {t} : new[u].item = at[u].item
    PROVE  EachOnce(items, queued, done \cup {at[t].item}, users \ {t}, new)
  BY DEF EachOnce

(* The threads keep their items. *)
LEMMA OnceKept ==
    ASSUME NEW items, NEW queued, NEW done, NEW users, NEW at, NEW new,
           EachOnce(items, queued, done, users, at), \A u \in users : new[u].item = at[u].item
    PROVE  EachOnce(items, queued, done, users, new)
  BY DEF EachOnce

-----------------------------------------------------------------------------
(* What the steps do to files.                                             *)

(* The threads that have a file go on with it, at the places that the names tell apart. *)
FileThreadsStay ==
    /\ UNCHANGED options
    /\ \A t \in Threads : /\ HasFile(t)' <=> HasFile(t)
                          /\ HasFile(t) => thread'[t].item = thread[t].item
                          /\ \A place \in {"rename", "remove", "announce"} :
                                thread'[t].at = place <=> thread[t].at = place

(* Then the threads at each place of a file are the same. *)
LEMMA FileThreadsMean ==
    ASSUME FileThreadsStay
    PROVE  /\ Threads' = Threads /\ FileThreads' = FileThreads
           /\ \A t \in Threads : /\ HasFile(t) => thread'[t].item = thread[t].item
                                 /\ thread'[t].at = "rename" <=> thread[t].at = "rename"
                                 /\ thread'[t].at = "remove" <=> thread[t].at = "remove"
                                 /\ thread'[t].at = "announce" <=> thread[t].at = "announce"
  <1>1. Threads' = Threads
    BY DEF Threads, FileThreadsStay
  <1>2. ASSUME NEW t \in Threads
        PROVE  /\ HasFile(t) => thread'[t].item = thread[t].item
               /\ thread'[t].at = "rename" <=> thread[t].at = "rename"
               /\ thread'[t].at = "remove" <=> thread[t].at = "remove"
               /\ thread'[t].at = "announce" <=> thread[t].at = "announce"
    BY DEF FileThreadsStay, HasFile
  <1>3. FileThreads' = FileThreads
    BY <1>1 DEF FileThreads, FileThreadsStay
  <1>4. QED
    BY <1>1, <1>2, <1>3

(* The callbacks, with one more of them. *)
LEMMA ReportsAppend ==
    ASSUME TypeOK, NEW x \in Name \X Name, announced' = Append(announced, x)
    PROVE  /\ announced' \in Seq(Name \X Name)
           /\ DOMAIN announced = 1 .. Len(announced) /\ DOMAIN announced' = 1 .. Len(announced) + 1
           /\ Len(announced) \in Nat
           /\ \A i \in 1 .. Len(announced) : announced'[i] = announced[i]
           /\ announced'[Len(announced) + 1] = x
           /\ Range(Reports') = Range(Reports) \cup {x[1][1]}
           /\ IsInjective(Reports) /\ x[1][1] \notin Range(Reports) => IsInjective(Reports')
  <1> DEFINE n == Len(announced)
             y == x[1][1]
  <1>1. announced \in Seq(Name \X Name)
    BY DEF TypeOK
  <1>2. /\ announced' \in Seq(Name \X Name)
        /\ n \in Nat /\ DOMAIN announced = 1 .. n /\ DOMAIN announced' = 1 .. n + 1
        /\ \A i \in 1 .. n : announced'[i] = announced[i]
        /\ announced'[n + 1] = x
    BY <1>1, Appended
  <1> HIDE DEF n
  <1>3. /\ DOMAIN Reports = 1 .. n /\ DOMAIN Reports' = 1 .. n + 1
        /\ \A i \in 1 .. n : Reports[i] = announced[i][1][1]
        /\ \A i \in 1 .. n + 1 : Reports'[i] = announced'[i][1][1]
    BY <1>2 DEF Reports
  <1>4. (\A i \in 1 .. n : i \in 1 .. n + 1) /\ n + 1 \in 1 .. n + 1
    BY <1>2
  <1>5. \A i \in 1 .. n + 1 : i \in 1 .. n \/ i = n + 1
    BY <1>2
  <1>6. (\A i \in 1 .. n : Reports'[i] = Reports[i]) /\ Reports'[n + 1] = y
    BY <1>2, <1>3, <1>4
  <1> HIDE DEF y
  <1> DEFINE r == Reports
             s == Reports'
  <1>7. /\ DOMAIN r = 1 .. n /\ DOMAIN s = 1 .. n + 1
        /\ (\A i \in 1 .. n : s[i] = r[i]) /\ s[n + 1] = y
    BY <1>3, <1>6
  <1> HIDE DEF r, s
  <1>8. Range(s) = Range(r) \cup {y}
    BY <1>4, <1>5, <1>7 DEF Range
  <1>9. ASSUME IsInjective(r), y \notin Range(r)
        PROVE  IsInjective(s)
    <2>1. \A i \in 1 .. n : r[i] # y
      BY <1>7, <1>9 DEF Range
    <2>2. \A i, j \in 1 .. n : r[i] = r[j] => i = j
      BY <1>7, <1>9 DEF IsInjective
    <2>3. \A i, j \in 1 .. n + 1 : s[i] = s[j] => i = j
      BY <1>5, <1>7, <2>1, <2>2
    <2>4. QED
      BY <1>7, <2>3 DEF IsInjective
  <1>10. QED
    BY <1>2, <1>8, <1>9 DEF n, y, r, s

(* A split hands the closed file on, to the queue or to the callbacks. *)
LEMMA SplitCloses ==
    ASSUME TypeOK, FilesAreListed, OneMode, ClosedFiles, Split, FileThreadsStay,
           Len(content') = Len(content) + 1, caller # "closed", caller' # "closed"
    PROVE  /\ ClosedFiles'
           /\ compressor_file_queue' \in Seq(Nat) /\ announced' \in Seq(Name \X Name)
           /\ ~ByFile => compressor_file_queue' = compressor_file_queue
           /\ ByFile => UNCHANGED announced
           /\ ~ByFile => announced' = Append(announced, <<Plain(Len(content)), Plain(Len(content) + 1)>>)
  <1> DEFINE n == Len(content)
             split == <<Plain(n), Plain(n + 1)>>
  <1>1. n \in Nat \ {0} /\ Current = n
    BY ListOfFiles
  <1>2. Closed = 1 .. n - 1 /\ Closed' = 1 .. n
    BY <1>1 DEF Closed
  <1>3. /\ ByFile => compressor_file_queue' = Append(compressor_file_queue, n) /\ announced' = announced
        /\ ~ByFile => announced' = Append(announced, split) /\ compressor_file_queue' = compressor_file_queue
    BY <1>1 DEF Split
  <1>4. /\ FileThreads' = FileThreads
        /\ \A t \in FileThreads : thread'[t].item = thread[t].item
    BY FileThreadsMean DEF FileThreads
  <1>5. split \in Name \X Name /\ split[1][1] = n
    <2>1. n + 1 \in Nat /\ n \in Nat
      BY <1>1
    <2> HIDE DEF n
    <2>2. QED
      BY <2>1 DEF Plain, Name
  <1>6. compressor_file_queue \in Seq(Nat) /\ announced \in Seq(Name \X Name)
    BY DEF TypeOK
  <1>7. n \notin Closed /\ Closed' = Closed \cup {n}
    BY <1>1, <1>2
  <1> DEFINE queued == Range(compressor_file_queue)
             done == Range(Reports)
  <1>8. /\ EachOnce(Closed, queued, done, FileThreads, thread')
        /\ IsInjective(compressor_file_queue) /\ IsInjective(Reports)
    BY <1>4, OnceKept DEF ClosedFiles
  <1>9. n \notin queued /\ n \notin done
    BY <1>7, <1>8 DEF EachOnce
  <1>10. /\ EachOnce(Closed \cup {n}, queued \cup {n}, done, FileThreads, thread')
         /\ EachOnce(Closed \cup {n}, queued, done \cup {n}, FileThreads, thread')
    BY <1>7, <1>8, OnceQueued, OnceDone
  <1> HIDE DEF split, n
  <1>11. CASE ByFile
    <2>1. compressor_file_queue' = Append(compressor_file_queue, n) /\ n \in Nat
      BY <1>1, <1>3, <1>11
    <2>2. Range(compressor_file_queue') = queued \cup {n} /\ IsInjective(compressor_file_queue')
      BY <1>6, <1>8, <1>9, <2>1, QueueAppend
    <2>3. compressor_file_queue' \in Seq(Nat)
      BY <1>6, <2>1, Appended
    <2>4. announced' = announced /\ Reports' = Reports
      BY <1>3, <1>11 DEF Reports
    <2>5. ClosedFiles'
      BY <1>4, <1>7, <1>8, <1>10, <2>2, <2>4 DEF ClosedFiles
    <2>6. QED
      BY <1>6, <1>11, <2>3, <2>4, <2>5
  <1>12. CASE ~ByFile
    <2>1. announced' = Append(announced, split) /\ compressor_file_queue' = compressor_file_queue
      BY <1>3, <1>12
    <2>2. /\ announced' \in Seq(Name \X Name) /\ Range(Reports') = done \cup {n}
          /\ IsInjective(Reports')
      BY <1>5, <1>8, <1>9, <2>1, ReportsAppend
    <2>3. ClosedFiles'
      BY <1>4, <1>7, <1>8, <1>10, <2>1, <2>2 DEF ClosedFiles
    <2>4. QED
      BY <1>6, <1>12, <2>1, <2>2, <2>3 DEF n, split
  <1>13. QED
    BY <1>11, <1>12

(* A name is a number and whether the file is compressed. *)
LEMMA NamesMean ==
    /\ \A n \in Nat : Plain(n) \in Name /\ Zstd(n) \in Name
    /\ \A n : Plain(n)[1] = n /\ Zstd(n)[1] = n /\ Zstd(n)[2] = TRUE
    /\ \A n, m : Plain(n) # Zstd(m)
    /\ \A n, m : Plain(n) = Plain(m) => n = m
    /\ \A n, m : Zstd(n) = Zstd(m) => n = m
  BY DEF Plain, Zstd, Name

(* A file that is compressed was closed. *)
LEMMA CompressedIsClosed ==
    /\ ClosedFiles => Compressed \subseteq Closed
    /\ ClosedFiles' => Compressed' \subseteq Closed'
  <1>1. ASSUME ClosedFiles
        PROVE  Compressed \subseteq Closed
    BY <1>1 DEF ClosedFiles, EachOnce, Compressed, FileThreads, HasFile
  <1>2. ASSUME ClosedFiles'
        PROVE  Compressed' \subseteq Closed'
    BY <1>2 DEF ClosedFiles, EachOnce, Compressed, FileThreads, HasFile
  <1>3. QED
    BY <1>1, <1>2

(* The names after a split: the oldest files are gone, of the list and of the  *)
(* directory, where only plain ones are deleted.                              *)
LEMMA SplitNames ==
    ASSUME TypeOK, FilesAreListed, OneMode, ClosedFiles, Names, ClosedFiles', FileThreadsStay,
           NEW d \in 0 .. Len(files), SplitDrops(d),
           Len(content') = Len(content) + 1,
           caller \notin {"base", "closed"}, caller' \notin {"base", "closed"},
           ByFile => UNCHANGED announced,
           ~ByFile => announced' = Append(announced, <<Plain(Len(content)), Plain(Len(content) + 1)>>)
    PROVE  Names'
  <1> DEFINE n == Len(content)
             k == Len(files)
  <1>1. /\ n \in Nat \ {0} /\ k \in 1 .. n /\ d \in 0 .. k /\ DOMAIN paths = 1 .. k
        /\ \A i \in 1 .. k : /\ files[i] = n - k + i /\ paths[i] \in Name /\ paths[i][1] = files[i]
    BY ListOfFiles
  <1>2. /\ options.max_bag_files = 0 => d = 0
        /\ Len(paths') = k + 1 - d /\ DOMAIN paths' = 1 .. k + 1 - d
        /\ \A i \in 1 .. k - d : paths'[i] = paths[i + d]
        /\ paths'[k + 1 - d] = Plain(n + 1)
        /\ disk' = (disk \cup {Plain(n + 1)}) \ {Plain(files[i]) : i \in 1 .. d}
    BY DEF SplitDrops
  <1>3. Closed = 1 .. n - 1 /\ Closed' = 1 .. n
    BY <1>1 DEF Closed
  <1>4. /\ Threads' = Threads /\ FileThreads' = FileThreads /\ options' = options
        /\ \A t \in Threads : /\ HasFile(t) => thread'[t].item = thread[t].item
                              /\ thread'[t].at = "rename" <=> thread[t].at = "rename"
                              /\ thread'[t].at = "remove" <=> thread[t].at = "remove"
                              /\ thread'[t].at = "announce" <=> thread[t].at = "announce"
    BY FileThreadsMean DEF FileThreadsStay
  <1>5. ByFile' = ByFile /\ NamesAreExact' = NamesAreExact
        /\ (ByFile => Reports' = Reports)
    BY <1>4 DEF ByFile, NamesAreExact, Reports
  <1>6. Compressed' = Compressed
    <2>1. ByFile => Range(Reports') = Range(Reports)
      BY <1>5
    <2>2. QED
      BY <1>4, <1>5, <2>1 DEF Compressed, HasFile
  <1>7. n + 1 \notin Compressed
    <2>1. n + 1 \notin Closed'
      BY <1>1, <1>3
    <2>2. QED
      BY <1>6, <2>1, CompressedIsClosed
  <1>8. HeldBack' = HeldBack
    BY <1>4 DEF HeldBack, HasFile
  <1> HIDE DEF n, k
  <1>9. /\ \A i \in 1 .. k + 1 - d : i \in 1 .. k - d \/ i = k + 1 - d
        /\ k + 1 - d \in 1 .. k + 1 - d
        /\ \A i \in 1 .. k - d : i \in 1 .. k + 1 - d /\ i + d \in 1 .. k
        /\ \A i \in 1 .. k - d : \A j \in 1 .. d : files[i + d] # files[j]
        /\ \A j \in 1 .. d : j \in 1 .. k /\ files[j] # n + 1
        /\ \A i \in 1 .. k : i \in 1 .. d \/ (i - d \in 1 .. k - d /\ (i - d) + d = i)
    BY <1>1
  <1>10. /\ ListedIsThere /\ CompressedAhead /\ NoOtherFiles /\ ListedByName /\ AnnouncedByName
    BY DEF Names
  <1>11. \A i \in 1 .. k : paths[i] \in disk
    BY <1>1, <1>10 DEF ListedIsThere, Range
  <1>12. ListedIsThere'
    <2>1. ASSUME NEW i \in 1 .. k - d
          PROVE  paths'[i] \in disk'
      <3>1. paths'[i] = paths[i + d] /\ paths[i + d] \in disk /\ paths[i + d][1] = files[i + d]
        BY <1>1, <1>2, <1>9, <1>11
      <3>2. \A j \in 1 .. d : paths[i + d] # Plain(files[j])
        BY <1>9, <3>1, NamesMean
      <3>3. QED
        BY <1>2, <3>1, <3>2
    <2>2. Plain(n + 1) \in disk'
      BY <1>2, <1>9, NamesMean
    <2>3. \A i \in 1 .. k + 1 - d : paths'[i] \in disk'
      BY <1>2, <1>9, <2>1, <2>2
    <2>4. QED
      BY <1>2, <2>3 DEF ListedIsThere, Range
  <1>13. CompressedAhead'
    <2>1. ASSUME NEW t \in Threads, thread[t].at = "rename"
          PROVE  Zstd(thread'[t].item) \in disk'
      <3>1. thread'[t].item = thread[t].item
        BY <1>4, <2>1 DEF HasFile
      <3>2. Zstd(thread[t].item) \in disk
        BY <1>10, <2>1 DEF CompressedAhead
      <3>3. QED
        BY <1>2, <3>1, <3>2, NamesMean
    <2>2. QED
      BY <1>4, <2>1 DEF CompressedAhead
  <1>14. ListedByName'
    <2>1. ASSUME NEW i \in 1 .. k + 1 - d
          PROVE  paths'[i] = IF paths'[i][1] \in Compressed THEN Zstd(paths'[i][1]) ELSE Plain(paths'[i][1])
      <3>1. CASE i \in 1 .. k - d
        <4>1. paths'[i] = paths[i + d] /\ i + d \in DOMAIN paths
          BY <1>1, <1>2, <1>9, <3>1
        <4>2. paths[i + d] = NameOf(paths[i + d][1])
          BY <1>10, <4>1 DEF ListedByName
        <4>3. QED
          BY <4>1, <4>2 DEF NameOf
      <3>2. CASE i = k + 1 - d
        <4>1. paths'[i] = Plain(n + 1)
          BY <1>2, <3>2
        <4>2. paths'[i][1] = n + 1
          BY <4>1, NamesMean
        <4>3. QED
          BY <1>7, <4>1, <4>2
      <3>3. QED
        BY <1>9, <3>1, <3>2
    <2>2. QED
      BY <1>2, <1>6, <2>1 DEF ListedByName, NameOf
  <1>15. NoOtherFiles'
    <2>1. CASE options.max_bag_files = 0
      <3>1. d = 0
        BY <1>2, <2>1
      <3>2. 1 .. d = {} /\ k + 1 - d = k + 1 /\ k - d = k
        BY <1>1, <3>1
      <3>3. disk' = disk \cup {Plain(n + 1)}
        BY <1>2, <3>2
      <3>4. Range(paths') = Range(paths) \cup {Plain(n + 1)}
        <4>1. ASSUME NEW i \in 1 .. k
              PROVE  paths'[i] = paths[i]
          <5>1. i + d = i
            BY <1>1, <3>1
          <5>2. QED
            BY <1>2, <3>2, <5>1
        <4>2. paths'[k + 1] = Plain(n + 1) /\ DOMAIN paths' = 1 .. k + 1
          BY <1>2, <3>2
        <4>3. \A i \in 1 .. k + 1 : i \in 1 .. k \/ i = k + 1
          BY <1>1
        <4>4. (\A i \in 1 .. k : i \in 1 .. k + 1) /\ k + 1 \in 1 .. k + 1
          BY <1>1
        <4>5. DOMAIN paths = 1 .. k
          BY <1>1
        <4>6. QED
          BY <4>1, <4>2, <4>3, <4>4, <4>5 DEF Range
      <3>5. QED
        BY <1>5, <1>8, <1>10, <3>3, <3>4 DEF NoOtherFiles
    <2>2. CASE ~ByFile
      <3>1. HeldBack = {} /\ disk = Range(paths)
        <4>1. \A t \in Threads : thread[t].at # "rename" /\ thread[t].at # "remove"
          BY <2>2 DEF OneMode, HasFile
        <4>2. HeldBack = {}
          BY <4>1 DEF HeldBack
        <4>3. QED
          BY <2>2, <4>2, <1>10 DEF NoOtherFiles, NamesAreExact
      <3>2. \A i \in 1 .. k : paths[i] = Plain(files[i])
        <4>1. Compressed = {}
          BY <2>2 DEF Compressed, OneMode, HasFile
        <4>2. \A i \in 1 .. k : paths[i] = Plain(paths[i][1])
          BY <1>1, <1>10, <4>1 DEF ListedByName, NameOf
        <4>3. QED
          BY <1>1, <4>2
      <3>3. ASSUME NEW y \in disk'
            PROVE  y \in Range(paths')
        <4>1. CASE y = Plain(n + 1)
          BY <1>2, <1>9, <4>1 DEF Range
        <4>2. CASE y \in disk
          <5>1. PICK i \in 1 .. k : y = paths[i]
            BY <1>1, <3>1, <4>2 DEF Range
          <5>2. i \notin 1 .. d
            BY <1>2, <3>2, <3>3, <5>1
          <5>3. i - d \in 1 .. k - d /\ (i - d) + d = i
            BY <1>9, <5>2
          <5>4. i - d \in DOMAIN paths' /\ paths'[i - d] = y
            BY <1>2, <1>9, <5>1, <5>3
          <5>5. QED
            BY <5>4 DEF Range
        <4>3. QED
          BY <1>2, <4>1, <4>2
      <3>4. QED
        BY <1>8, <1>12, <3>1, <3>3 DEF NoOtherFiles, ListedIsThere
    <2>3. CASE ~NamesAreExact
      BY <1>5, <2>3 DEF NoOtherFiles
    <2>4. QED
      BY <2>1, <2>2, <2>3 DEF NamesAreExact
  <1>16. AnnouncedByName'
    <2>1. CASE ByFile
      BY <1>5, <1>10, <2>1 DEF AnnouncedByName
    <2>2. CASE ~ByFile
      <3> DEFINE split == <<Plain(n), Plain(n + 1)>>
      <3>1. split \in Name \X Name /\ split[1] = Plain(split[1][1])
        <4>1. n \in Nat /\ n + 1 \in Nat
          BY <1>1
        <4>2. Plain(n) \in Name /\ Plain(n + 1) \in Name /\ Plain(n)[1] = n
          BY <4>1, NamesMean
        <4>3. QED
          BY <4>2
      <3>2. announced' = Append(announced, split)
        BY <2>2 DEF n
      <3>3. \A i \in DOMAIN announced : announced[i][1] = Plain(announced[i][1][1])
        BY <1>10, <2>2 DEF AnnouncedByName
      <3> HIDE DEF split
      <3>4. /\ DOMAIN announced = 1 .. Len(announced) /\ DOMAIN announced' = 1 .. Len(announced) + 1
            /\ Len(announced) \in Nat
            /\ \A i \in 1 .. Len(announced) : announced'[i] = announced[i]
            /\ announced'[Len(announced) + 1] = split
        BY <3>1, <3>2, ReportsAppend
      <3>5. \A i \in 1 .. Len(announced) + 1 : i \in 1 .. Len(announced) \/ i = Len(announced) + 1
        BY <3>4
      <3>6. \A i \in DOMAIN announced' : announced'[i][1] = Plain(announced'[i][1][1])
        BY <3>1, <3>3, <3>4, <3>5
      <3>7. QED
        BY <1>5, <2>2, <3>6 DEF AnnouncedByName
    <2>3. QED
      BY <2>1, <2>2
  <1>17. QED
    BY <1>12, <1>13, <1>14, <1>15, <1>16 DEF Names

(* The parts of the invariant about files, with their types. *)
FileTypes ==
    /\ files \in Seq(Nat) /\ paths \in Seq(Name) /\ disk \in SUBSET Name
    /\ compressor_file_queue \in Seq(Nat) /\ announced \in Seq(Name \X Name)
FilesInv == FileTypes /\ FilesAreListed /\ ClosedFiles /\ Names /\ NextIsNamed

(* They hold while nothing of the files changes. *)
LEMMA FilesStay ==
    ASSUME FilesInv, FileThreadsStay,
           UNCHANGED <<files, paths, disk, compressor_file_queue, announced>>, Len(content') = Len(content),
           caller = "closed" <=> caller' = "closed",
           caller \in {"base", "closed"} => caller' \in {"base", "closed"}
    PROVE  FilesInv'
  <1>1. /\ Threads' = Threads /\ FileThreads' = FileThreads /\ options' = options
        /\ \A t \in Threads : /\ HasFile(t) => thread'[t].item = thread[t].item
                              /\ thread'[t].at = "rename" <=> thread[t].at = "rename"
                              /\ thread'[t].at = "remove" <=> thread[t].at = "remove"
                              /\ thread'[t].at = "announce" <=> thread[t].at = "announce"
    BY FileThreadsMean DEF FileThreadsStay
  <1>2. ByFile' = ByFile /\ NamesAreExact' = NamesAreExact /\ Reports' = Reports /\ Closed' = Closed
    BY <1>1 DEF ByFile, NamesAreExact, Reports, Closed
  <1>3. FileTypes' /\ FilesAreListed' /\ NextIsNamed'
    BY <1>1 DEF FilesInv, FileTypes, FilesAreListed, NextIsNamed
  <1>4. ClosedFiles'
    <2>1. EachOnce(Closed, Range(compressor_file_queue), Range(Reports), FileThreads, thread')
      BY <1>1, OnceKept DEF FilesInv, ClosedFiles, FileThreads
    <2>2. QED
      BY <1>1, <1>2, <2>1 DEF FilesInv, ClosedFiles
  <1>5. HeldBack' = HeldBack /\ Compressed' = Compressed
    BY <1>1, <1>2 DEF HeldBack, Compressed, HasFile
  <1>6. ListedIsThere' /\ NoOtherFiles'
    BY <1>2, <1>5 DEF FilesInv, Names, ListedIsThere, NoOtherFiles
  <1>7. CompressedAhead'
    BY <1>1 DEF FilesInv, Names, CompressedAhead, HasFile
  <1>8. ListedByName' /\ AnnouncedByName'
    BY <1>2, <1>5 DEF FilesInv, Names, ListedByName, AnnouncedByName, NameOf
  <1>9. QED
    BY <1>3, <1>4, <1>6, <1>7, <1>8 DEF FilesInv, Names

(* The next file is named in the callbacks of a split. *)
LEMMA SplitIsNamed ==
    ASSUME TypeOK, NextIsNamed, NEW n \in Nat, announced' = Append(announced, <<Plain(n), Plain(n + 1)>>)
    PROVE  NextIsNamed'
  <1> DEFINE split == <<Plain(n), Plain(n + 1)>>
  <1>1. split \in Name \X Name /\ split[2][1] = split[1][1] + 1
    <2>1. Plain(n) \in Name /\ Plain(n + 1) \in Name /\ Plain(n)[1] = n /\ Plain(n + 1)[1] = n + 1
      BY NamesMean
    <2>2. QED
      BY <2>1
  <1> HIDE DEF split
  <1>2. announced' = Append(announced, split)
    BY DEF split
  <1>3. /\ DOMAIN announced = 1 .. Len(announced) /\ DOMAIN announced' = 1 .. Len(announced) + 1
        /\ Len(announced) \in Nat
        /\ \A i \in 1 .. Len(announced) : announced'[i] = announced[i]
        /\ announced'[Len(announced) + 1] = split
    BY <1>1, <1>2, ReportsAppend
  <1>4. \A i \in 1 .. Len(announced) + 1 : i \in 1 .. Len(announced) \/ i = Len(announced) + 1
    BY <1>3
  <1>5. QED
    BY <1>1, <1>3, <1>4 DEF NextIsNamed

(* The base class writes a message: at most a split happens to the files. *)
LEMMA BaseWriteKeepsFiles ==
    ASSUME TypeOK, OneMode, FilesInv, NEW m \in Nat, BaseWrite(m), FileThreadsStay,
           caller \notin {"base", "closed"}, caller' \notin {"base", "closed"}
    PROVE  /\ FilesInv' /\ content' \in Seq(SUBSET Nat)
           /\ ~ByFile => compressor_file_queue' = compressor_file_queue
  <1>1. FilesAreListed /\ ClosedFiles /\ Names /\ NextIsNamed
    BY DEF FilesInv
  <1>2. InLast(m) \/ InNext(m)
    BY <1>1, BaseWriteMeans
  <1>3. CASE InLast(m)
    <2>1. /\ content' \in Seq(SUBSET Nat) /\ Len(content') = Len(content)
          /\ UNCHANGED <<files, paths, disk, compressor_file_queue, announced>>
      BY <1>3 DEF InLast
    <2>2. FilesInv'
      BY <2>1, FilesStay
    <2>3. QED
      BY <2>1, <2>2
  <1>4. CASE InNext(m)
    <2>1. content' \in Seq(SUBSET Nat) /\ Len(content') = Len(content) + 1 /\ Split
      BY <1>4 DEF InNext
    <2>2. PICK d \in 0 .. Len(files) : SplitDrops(d)
      BY <1>1, <2>1, SplitMeans
    <2>3. /\ ClosedFiles'
          /\ compressor_file_queue' \in Seq(Nat) /\ announced' \in Seq(Name \X Name)
          /\ ~ByFile => compressor_file_queue' = compressor_file_queue
          /\ ByFile => UNCHANGED announced
          /\ ~ByFile => announced' = Append(announced, <<Plain(Len(content)), Plain(Len(content) + 1)>>)
      BY <1>1, <2>1, SplitCloses
    <2>4. FilesAreListed'
      BY <1>1, <2>1, <2>2, SplitLists DEF FileThreadsStay
    <2>5. Names'
      BY <1>1, <2>1, <2>2, <2>3, SplitNames
    <2>6. NextIsNamed'
      <3>1. CASE ByFile
        BY <1>1, <2>3, <3>1 DEF NextIsNamed
      <3>2. CASE ~ByFile
        BY <1>1, <2>3, <3>2, SplitIsNamed, ListOfFiles
      <3>3. QED
        BY <3>1, <3>2
    <2>7. FileTypes'
      <3>1. Plain(Len(content) + 1) \in Name
        <4>1. Len(content) + 1 \in Nat
          BY <1>1, ListOfFiles
        <4>2. QED
          BY <4>1, NamesMean
      <3>2. files' \in Seq(Nat) /\ paths' \in Seq(Name) /\ disk' \in SUBSET Name
        BY <2>2, <3>1 DEF SplitDrops, TypeOK
      <3>3. QED
        BY <2>3, <3>2 DEF FileTypes
    <2>8. QED
      BY <2>1, <2>3, <2>4, <2>5, <2>6, <2>7 DEF FilesInv
  <1>5. QED
    BY <1>2, <1>3, <1>4

(* A thread goes on, the others stay. *)
Places == {"wait", "message", "compress", "open", "rename", "remove", "announce", "ended"}

(* What one step of a thread changes of the function of the threads. *)
LEMMA ThreadGoes ==
    ASSUME TypeOK, UNCHANGED options, NEW t \in Threads, NEW place \in Places, NEW item \in Nat,
           Goes(t, place, item)
    PROVE  /\ Threads' = Threads
           /\ thread' \in [Threads -> [at : Places, item : Nat]]
           /\ thread'[t].at = place /\ thread'[t].item = item
           /\ \A u \in Threads : u # t => thread'[u] = thread[u]
           /\ thread[t].item \in Nat
  <1>1. thread \in [Threads -> [at : Places, item : Nat]]
    BY DEF TypeOK, Places
  <1>2. thread' = [thread EXCEPT ![t] = [at |-> place, item |-> item]]
    BY DEF Goes
  <1>3. Threads' = Threads
    BY DEF Threads
  <1>4. QED
    BY <1>1, <1>2, <1>3

(* What is unchanged with the options. *)
LEMMA SameOptions ==
    ASSUME UNCHANGED options
    PROVE  Threads' = Threads /\ ByFile' = ByFile /\ NamesAreExact' = NamesAreExact
  BY DEF Threads, ByFile, NamesAreExact

(* A thread takes a file from the queue. *)
LEMMA TakeFileKeeps ==
    ASSUME TypeOK, FilesInv, NEW t \in Threads, TakeFile(t)
    PROVE  FilesInv'
  <1> DEFINE n == Head(compressor_file_queue)
             queued == Range(compressor_file_queue)
  <1>1. /\ thread[t].at = "wait" /\ compressor_file_queue # << >>
        /\ Goes(t, "compress", n)
        /\ compressor_file_queue' = Tail(compressor_file_queue)
        /\ UNCHANGED <<options, files, paths, disk, content, announced, caller>>
    BY DEF TakeFile, Waiting, store
  <1>2. n \in Nat /\ compressor_file_queue' \in Seq(Nat)
    BY <1>1, HeadAndTail DEF TypeOK
  <1>3. ClosedFiles /\ Names
    BY DEF FilesInv
  <1>4. n \in queued /\ Range(compressor_file_queue') = queued \ {n} /\ IsInjective(compressor_file_queue')
    BY <1>1, <1>3, QueueTail DEF TypeOK, ClosedFiles
  <1> HIDE DEF n
  <1>5. /\ Threads' = Threads
        /\ thread'[t].at = "compress" /\ thread'[t].item = n
        /\ \A u \in Threads : u # t => thread'[u] = thread[u]
    BY <1>1, <1>2, ThreadGoes DEF Places
  <1>6. ByFile' = ByFile /\ NamesAreExact' = NamesAreExact /\ Closed' = Closed /\ Reports' = Reports
    BY <1>1, SameOptions DEF Closed, Reports
  <1>7. /\ t \notin FileThreads /\ FileThreads' = FileThreads \cup {t}
        /\ \A u \in FileThreads : thread'[u].item = thread[u].item
    BY <1>1, <1>5 DEF FileThreads, HasFile
  <1>8. EachOnce(Closed, queued \ {n}, Range(Reports), FileThreads \cup {t}, thread')
    BY <1>3, <1>4, <1>5, <1>7, OnceTaken DEF ClosedFiles
  <1>9. ClosedFiles'
    BY <1>3, <1>4, <1>6, <1>7, <1>8 DEF ClosedFiles
  <1>10. Compressed' = Compressed /\ HeldBack' = HeldBack
    BY <1>1, <1>5, <1>6 DEF Compressed, HeldBack
  <1>11. ListedIsThere' /\ NoOtherFiles' /\ CompressedAhead'
    BY <1>1, <1>3, <1>5, <1>6, <1>10 DEF Names, ListedIsThere, NoOtherFiles, CompressedAhead
  <1>12. ListedByName' /\ AnnouncedByName'
    BY <1>1, <1>3, <1>6, <1>10 DEF Names, ListedByName, AnnouncedByName, NameOf
  <1>13. FileTypes' /\ FilesAreListed' /\ NextIsNamed'
    BY <1>1, <1>2 DEF FilesInv, FileTypes, FilesAreListed, NextIsNamed
  <1>14. QED
    BY <1>9, <1>11, <1>12, <1>13 DEF FilesInv, Names

(* A file with a thread, before it has been renamed. *)
LEMMA NotYetCompressed ==
    ASSUME ClosedFiles, NEW t \in Threads, thread[t].at \in {"compress", "open", "rename"}
    PROVE  thread[t].item \notin Compressed
  <1>1. t \in FileThreads
    BY DEF FileThreads, HasFile
  <1>2. thread[t].item \notin Range(Reports)
    BY <1>1 DEF ClosedFiles, EachOnce
  <1>3. ASSUME NEW u \in Threads, thread[u].at \in {"remove", "announce"}
        PROVE  thread[u].item # thread[t].item
    <2>1. u \in FileThreads /\ u # t
      BY <1>3 DEF FileThreads, HasFile
    <2>2. QED
      BY <1>1, <2>1 DEF ClosedFiles, EachOnce
  <1>4. QED
    BY <1>2, <1>3 DEF Compressed

(* A step of compress_file(): the thread goes on with its file. *)
LEMMA FileGoesOn ==
    ASSUME TypeOK, FilesInv, NEW t \in Threads, HasFile(t), NEW place \in {"open", "rename", "remove", "announce"},
           Goes(t, place, thread[t].item),
           UNCHANGED <<options, compressor_file_queue, content, announced, caller>>
    PROVE  /\ ClosedFiles' /\ NextIsNamed'
           /\ Threads' = Threads /\ Reports' = Reports
           /\ ByFile' = ByFile /\ NamesAreExact' = NamesAreExact
           /\ thread'[t].at = place /\ thread'[t].item = thread[t].item
           /\ \A u \in Threads : u # t => thread'[u] = thread[u]
           /\ \A u \in Threads : u # t /\ HasFile(u) => thread[u].item # thread[t].item
  <1>1. thread[t].item \in Nat
    BY DEF TypeOK
  <1>2. /\ Threads' = Threads
        /\ thread'[t].at = place /\ thread'[t].item = thread[t].item
        /\ \A u \in Threads : u # t => thread'[u] = thread[u]
    BY <1>1, ThreadGoes DEF Places
  <1>3. ByFile' = ByFile /\ NamesAreExact' = NamesAreExact /\ Closed' = Closed /\ Reports' = Reports
    BY SameOptions DEF Closed, Reports
  <1>4. FileThreads' = FileThreads /\ \A u \in FileThreads : thread'[u].item = thread[u].item
    BY <1>2 DEF FileThreads, HasFile
  <1>5. EachOnce(Closed, Range(compressor_file_queue), Range(Reports), FileThreads, thread')
    BY <1>4, OnceKept DEF FilesInv, ClosedFiles
  <1>6. ClosedFiles'
    BY <1>3, <1>4, <1>5 DEF FilesInv, ClosedFiles
  <1>7. NextIsNamed'
    BY DEF FilesInv, NextIsNamed
  <1>8. \A u \in Threads : u # t /\ HasFile(u) => thread[u].item # thread[t].item
    BY DEF FilesInv, ClosedFiles, EachOnce, FileThreads
  <1>9. QED
    BY <1>2, <1>3, <1>6, <1>7, <1>8

(* A thread that has a file has not ended, and its file was closed. *)
LEMMA FileThreadMeans ==
    ASSUME TypeOK, Joins, OneMode, ClosedFiles, NEW t \in Threads, HasFile(t)
    PROVE  ByFile /\ caller \notin {"compress", "base", "closed"} /\ thread[t].item \in Closed
  <1>1. ByFile
    BY DEF OneMode
  <1>2. caller \notin {"compress", "base", "closed"}
    BY DEF Joins, HasFile
  <1>3. thread[t].item \in Closed
    BY DEF ClosedFiles, EachOnce, FileThreads
  <1>4. QED
    BY <1>1, <1>2, <1>3

(* compress_file() begins: the file is there, or it is gone. *)
LEMMA CompressFileKeeps ==
    ASSUME TypeOK, Joins, OneMode, FilesInv, NEW t \in Threads, CompressFile(t)
    PROVE  FilesInv'
  <1> DEFINE n == thread[t].item
  <1>1. /\ thread[t].at = "compress" /\ HasFile(t)
        /\ UNCHANGED <<options, compressor_file_queue, content, announced, caller, files, paths, disk>>
    BY DEF CompressFile, HasFile, queues, store
  <1>2. ClosedFiles /\ Names /\ n \in Nat
    BY DEF FilesInv, TypeOK
  <1>3. n \notin Compressed
    BY <1>1, <1>2, NotYetCompressed
  <1>4. caller \notin {"base", "closed"} /\ ByFile
    BY <1>1, <1>2, FileThreadMeans
  <1>5. /\ ListedIsThere /\ CompressedAhead /\ NoOtherFiles /\ ListedByName /\ AnnouncedByName
    BY <1>2 DEF Names
  <1>6. CASE Plain(n) \in disk
    <2>1. Goes(t, "open", n)
      BY <1>6 DEF CompressFile
    <2>2. /\ Threads' = Threads /\ thread'[t].at = "open" /\ thread'[t].item = n
          /\ \A u \in Threads : u # t => thread'[u] = thread[u]
      BY <1>1, <2>1, FileGoesOn
    <2>3. FileThreadsStay
      BY <1>1, <2>2 DEF FileThreadsStay, HasFile
    <2>4. QED
      BY <1>1, <2>3, FilesStay
  <1>7. CASE Plain(n) \notin disk
    <2>1. disk' = disk /\ Goes(t, "announce", n)
      BY <1>7 DEF CompressFile, store
    <2>2. /\ ClosedFiles' /\ NextIsNamed'
          /\ Threads' = Threads /\ Reports' = Reports
          /\ ByFile' = ByFile /\ NamesAreExact' = NamesAreExact
          /\ thread'[t].at = "announce" /\ thread'[t].item = n
          /\ \A u \in Threads : u # t => thread'[u] = thread[u]
      BY <1>1, <2>1, FileGoesOn
    <2>3. Compressed' = Compressed \cup {n}
      BY <1>1, <2>2 DEF Compressed
    <2>4. HeldBack' = HeldBack
      BY <1>1, <2>2 DEF HeldBack
    <2>5. ListedIsThere' /\ NoOtherFiles' /\ CompressedAhead' /\ AnnouncedByName'
      BY <1>1, <1>5, <2>1, <2>2, <2>4 DEF ListedIsThere, NoOtherFiles, CompressedAhead, AnnouncedByName
    <2>6. \A i \in DOMAIN paths : paths[i] = NameOf(paths[i][1]) /\ paths[i] # Plain(n)
      BY <1>4, <1>5, <1>7 DEF ListedByName, ListedIsThere, Range
    <2>7. \A i \in DOMAIN paths : paths[i][1] # n
      BY <1>3, <2>6 DEF NameOf
    <2>8. ListedByName'
      BY <1>1, <2>3, <2>6, <2>7 DEF ListedByName, NameOf
    <2>9. FileTypes' /\ FilesAreListed'
      BY <1>1, <2>1 DEF FilesInv, FileTypes, FilesAreListed
    <2>10. QED
      BY <2>2, <2>5, <2>8, <2>9 DEF FilesInv, Names
  <1>8. QED
    BY <1>6, <1>7

(* The file is compressed into another. *)
LEMMA CompressUriKeeps ==
    ASSUME TypeOK, Joins, OneMode, FilesInv, NEW t \in Threads, CompressUri(t)
    PROVE  FilesInv'
  <1> DEFINE n == thread[t].item
  <1>1. /\ thread[t].at = "open" /\ HasFile(t)
        /\ UNCHANGED <<options, compressor_file_queue, content, announced, caller, files, paths>>
    BY DEF CompressUri, HasFile, queues
  <1>2. ClosedFiles /\ Names /\ n \in Nat
    BY DEF FilesInv, TypeOK
  <1>3. n \notin Compressed
    BY <1>1, <1>2, NotYetCompressed
  <1>4. caller \notin {"base", "closed"} /\ ByFile
    BY <1>1, <1>2, FileThreadMeans
  <1>5. /\ ListedIsThere /\ CompressedAhead /\ NoOtherFiles /\ ListedByName /\ AnnouncedByName
    BY <1>2 DEF Names
  <1>6. disk' = disk \cup {Zstd(n)} /\ Goes(t, "rename", n)
    BY DEF CompressUri
  <1>7. /\ ClosedFiles' /\ NextIsNamed'
        /\ Threads' = Threads /\ Reports' = Reports
        /\ ByFile' = ByFile /\ NamesAreExact' = NamesAreExact
        /\ thread'[t].at = "rename" /\ thread'[t].item = n
        /\ \A u \in Threads : u # t => thread'[u] = thread[u]
    BY <1>1, <1>6, FileGoesOn
  <1>8. Compressed' = Compressed
    BY <1>1, <1>7 DEF Compressed
  <1>9. HeldBack' = HeldBack \cup {Zstd(n)}
    BY <1>1, <1>7 DEF HeldBack
  <1>10. ListedIsThere' /\ NoOtherFiles' /\ CompressedAhead'
    BY <1>1, <1>5, <1>6, <1>7, <1>9 DEF ListedIsThere, NoOtherFiles, CompressedAhead
  <1>11. ListedByName' /\ AnnouncedByName'
    BY <1>1, <1>5, <1>7, <1>8 DEF ListedByName, AnnouncedByName, NameOf
  <1>12. FileTypes' /\ FilesAreListed'
    BY <1>1, <1>2, <1>6, NamesMean DEF FilesInv, FileTypes, FilesAreListed
  <1>13. QED
    BY <1>7, <1>10, <1>11, <1>12 DEF FilesInv, Names

(* The name of a compressed file takes the place of the name it had. *)
LEMMA RenamedMeans ==
    ASSUME paths \in Seq(Name), NEW n \in Nat
    PROVE  /\ Renamed(n) \in Seq(Name) /\ Len(Renamed(n)) = Len(paths)
           /\ DOMAIN Renamed(n) = DOMAIN paths /\ DOMAIN paths = 1 .. Len(paths)
           /\ \A i \in DOMAIN paths : /\ Renamed(n)[i] = IF paths[i] = Plain(n) THEN Zstd(n) ELSE paths[i]
                                      /\ Renamed(n)[i][1] = paths[i][1]
  <1> DEFINE k == Len(paths)
             name == Renamed(n)
  <1>1. k \in Nat /\ DOMAIN paths = 1 .. k /\ \A i \in 1 .. k : paths[i] \in Name
    BY LenProperties, ElementOfSeq
  <1>2. DOMAIN name = 1 .. k /\ \A i \in 1 .. k : name[i] = IF paths[i] = Plain(n) THEN Zstd(n) ELSE paths[i]
    BY <1>1 DEF Renamed
  <1>3. Zstd(n) \in Name
    BY NamesMean
  <1>4. name \in [1 .. k -> Name]
    BY <1>1, <1>3 DEF Renamed
  <1>5. name \in Seq(Name)
    BY <1>1, <1>4, IsASeq
  <1>6. Len(name) = k
    BY <1>1, <1>2, <1>5, LenProperties
  <1>7. \A i \in 1 .. k : name[i][1] = paths[i][1]
    BY <1>2, NamesMean
  <1>8. QED
    BY <1>1, <1>2, <1>5, <1>6, <1>7

(* With exact names, every file is listed. *)
LEMMA AllAreListed ==
    ASSUME TypeOK, FilesAreListed, ByFile, NamesAreExact, NEW n \in 1 .. Len(content)
    PROVE  n \in DOMAIN paths /\ paths[n][1] = n
  <1>1. Len(files) = Len(content)
    BY DEF NamesAreExact, FilesAreListed
  <1>2. /\ Len(content) \in Nat \ {0} /\ DOMAIN paths = 1 .. Len(files)
        /\ \A i \in 1 .. Len(files) : files[i] = Len(content) - Len(files) + i /\ paths[i][1] = files[i]
    BY ListOfFiles
  <1>3. Len(content) - Len(content) + n = n
    BY <1>2
  <1>4. QED
    BY <1>1, <1>2, <1>3

(* The list gets the name of the compressed file. *)
LEMMA RenameFileKeeps ==
    ASSUME TypeOK, Joins, OneMode, FilesInv, NEW t \in Threads, RenameFile(t)
    PROVE  FilesInv'
  <1> DEFINE n == thread[t].item
  <1>1. /\ thread[t].at = "rename" /\ HasFile(t) /\ Goes(t, "remove", n) /\ paths' = Renamed(n)
        /\ UNCHANGED <<options, compressor_file_queue, content, announced, caller, files, disk>>
    BY DEF RenameFile, HasFile, queues
  <1>2. ClosedFiles /\ Names /\ FilesAreListed /\ n \in Nat /\ paths \in Seq(Name)
    BY DEF FilesInv, TypeOK
  <1>3. n \notin Compressed
    BY <1>1, <1>2, NotYetCompressed
  <1>4. caller \notin {"base", "closed"} /\ ByFile /\ n \in Closed
    BY <1>1, <1>2, FileThreadMeans
  <1>5. /\ ListedIsThere /\ CompressedAhead /\ NoOtherFiles /\ ListedByName /\ AnnouncedByName
    BY <1>2 DEF Names
  <1>6. /\ ClosedFiles' /\ NextIsNamed'
        /\ Threads' = Threads /\ Reports' = Reports
        /\ ByFile' = ByFile /\ NamesAreExact' = NamesAreExact
        /\ thread'[t].at = "remove" /\ thread'[t].item = n
        /\ \A u \in Threads : u # t => thread'[u] = thread[u]
        /\ \A u \in Threads : u # t /\ HasFile(u) => thread[u].item # n
    BY <1>1, FileGoesOn
  <1>7. /\ paths' \in Seq(Name) /\ Len(paths') = Len(paths) /\ DOMAIN paths' = DOMAIN paths
        /\ \A i \in DOMAIN paths : /\ paths'[i] = IF paths[i] = Plain(n) THEN Zstd(n) ELSE paths[i]
                                   /\ paths'[i][1] = paths[i][1]
    BY <1>1, <1>2, RenamedMeans
  <1>8. Compressed' = Compressed \cup {n}
    BY <1>1, <1>6 DEF Compressed
  <1>9. HeldBack' = (HeldBack \ {Zstd(n)}) \cup {Plain(n)}
    <2>1. ASSUME NEW u \in Threads, u # t, thread[u].at \in {"rename", "remove"}
          PROVE  Zstd(thread[u].item) # Zstd(n) /\ Plain(thread[u].item) # Zstd(n)
      BY <1>6, <2>1, NamesMean DEF HasFile
    <2>2. QED
      BY <1>1, <1>6, <2>1, NamesMean DEF HeldBack
  <1>10. Zstd(n) \in disk
    BY <1>1, <1>5 DEF CompressedAhead
  <1>11. ListedIsThere'
    BY <1>1, <1>5, <1>7, <1>10 DEF ListedIsThere, Range
  <1>12. CompressedAhead' /\ AnnouncedByName'
    BY <1>1, <1>4, <1>5, <1>6 DEF CompressedAhead, AnnouncedByName
  <1>13. ListedByName'
    <2>1. ASSUME NEW i \in DOMAIN paths
          PROVE  paths'[i] = IF paths'[i][1] \in Compressed' THEN Zstd(paths'[i][1]) ELSE Plain(paths'[i][1])
      <3>1. paths[i] = NameOf(paths[i][1])
        BY <1>4, <1>5 DEF ListedByName
      <3>2. CASE paths[i] = Plain(n)
        BY <1>7, <1>8, <3>2, NamesMean DEF NameOf
      <3>3. CASE paths[i] # Plain(n)
        <4>1. paths[i][1] # n
          BY <1>3, <3>1, <3>3 DEF NameOf
        <4>2. QED
          BY <1>7, <1>8, <3>1, <3>3, <4>1 DEF NameOf
      <3>4. QED
        BY <3>2, <3>3
    <2>2. QED
      BY <1>7, <2>1 DEF ListedByName, NameOf
  <1>14. ASSUME NamesAreExact
         PROVE  disk = Range(paths') \cup HeldBack'
    <2>1. n \in 1 .. Len(content)
      <3>1. Len(content) \in Nat \ {0}
        BY <1>2, ListOfFiles
      <3>2. QED
        BY <1>4, <3>1 DEF Closed
    <2>2. n \in DOMAIN paths /\ paths[n][1] = n
      BY <1>2, <1>4, <1>14, <2>1, AllAreListed
    <2>3. paths[n] = Plain(n) /\ paths'[n] = Zstd(n)
      BY <1>3, <1>4, <1>5, <1>7, <2>2 DEF ListedByName, NameOf
    <2>4. disk = Range(paths) \cup HeldBack
      BY <1>5, <1>14 DEF NoOtherFiles
    <2>5. ASSUME NEW y \in disk
          PROVE  y \in Range(paths') \cup HeldBack'
      <3>1. Zstd(n) \in Range(paths')
        BY <1>7, <2>2, <2>3 DEF Range
      <3>2. CASE y \in Range(paths)
        BY <1>7, <1>9, <3>1, <3>2 DEF Range
      <3>3. CASE y \in HeldBack
        BY <1>9, <3>1, <3>3
      <3>4. QED
        BY <2>4, <3>2, <3>3
    <2>6. Plain(n) \in disk
      BY <2>2, <2>3, <2>4 DEF Range
    <2>7. HeldBack' \subseteq disk
      BY <1>9, <2>4, <2>6
    <2>8. QED
      BY <1>1, <1>11, <2>5, <2>7 DEF ListedIsThere
  <1>15. NoOtherFiles'
    BY <1>1, <1>6, <1>14 DEF NoOtherFiles
  <1>16. FileTypes' /\ FilesAreListed'
    <2>1. DOMAIN files = DOMAIN paths
      BY <1>2, ListOfFiles
    <2>2. QED
      BY <1>1, <1>2, <1>7, <2>1 DEF FilesInv, FileTypes, FilesAreListed
  <1>17. QED
    BY <1>6, <1>11, <1>12, <1>13, <1>15, <1>16 DEF FilesInv, Names

(* The file that was compressed is removed. *)
LEMMA RemoveFileKeeps ==
    ASSUME TypeOK, Joins, OneMode, FilesInv, NEW t \in Threads, RemoveFile(t)
    PROVE  FilesInv'
  <1> DEFINE n == thread[t].item
  <1>1. /\ thread[t].at = "remove" /\ HasFile(t) /\ Goes(t, "announce", n) /\ disk' = disk \ {Plain(n)}
        /\ UNCHANGED <<options, compressor_file_queue, content, announced, caller, files, paths>>
    BY DEF RemoveFile, HasFile, queues
  <1>2. ClosedFiles /\ Names /\ n \in Nat
    BY DEF FilesInv, TypeOK
  <1>3. n \in Compressed
    BY <1>1 DEF Compressed
  <1>4. caller \notin {"base", "closed"}
    BY <1>1, <1>2, FileThreadMeans
  <1>5. /\ ListedIsThere /\ CompressedAhead /\ NoOtherFiles /\ ListedByName /\ AnnouncedByName
    BY <1>2 DEF Names
  <1>6. /\ ClosedFiles' /\ NextIsNamed'
        /\ Threads' = Threads /\ Reports' = Reports
        /\ ByFile' = ByFile /\ NamesAreExact' = NamesAreExact
        /\ thread'[t].at = "announce" /\ thread'[t].item = n
        /\ \A u \in Threads : u # t => thread'[u] = thread[u]
        /\ \A u \in Threads : u # t /\ HasFile(u) => thread[u].item # n
    BY <1>1, FileGoesOn
  <1>7. Compressed' = Compressed
    BY <1>1, <1>6 DEF Compressed
  <1>8. HeldBack' = HeldBack \ {Plain(n)}
    <2>1. ASSUME NEW u \in Threads, u # t, thread[u].at \in {"rename", "remove"}
          PROVE  Plain(thread[u].item) # Plain(n)
      BY <1>6, <2>1, NamesMean DEF HasFile
    <2>2. QED
      BY <1>1, <1>6, <2>1, NamesMean DEF HeldBack
  <1>9. \A i \in DOMAIN paths : paths[i] # Plain(n)
    <2>1. \A i \in DOMAIN paths : paths[i] = NameOf(paths[i][1])
      BY <1>4, <1>5 DEF ListedByName
    <2>2. QED
      BY <1>3, <2>1, NamesMean DEF NameOf
  <1>10. Plain(n) \notin Range(paths)
    BY <1>9 DEF Range
  <1>11. ListedIsThere' /\ NoOtherFiles'
    BY <1>1, <1>5, <1>6, <1>8, <1>10 DEF ListedIsThere, NoOtherFiles
  <1>12. CompressedAhead' /\ AnnouncedByName'
    BY <1>1, <1>4, <1>5, <1>6, NamesMean DEF CompressedAhead, AnnouncedByName
  <1>13. ListedByName'
    BY <1>1, <1>5, <1>7 DEF ListedByName, NameOf
  <1>14. FileTypes' /\ FilesAreListed'
    BY <1>1 DEF FilesInv, FileTypes, FilesAreListed
  <1>15. QED
    BY <1>6, <1>11, <1>12, <1>13, <1>14 DEF FilesInv, Names

(* The name after that of a file in the list is the name of the next file. *)
NextInList(n) ==
    LET at == {i \in DOMAIN paths : paths[i] = Zstd(n) /\ i < Len(paths)}
    IN IF at = {} THEN NoFile ELSE paths[Min(at) + 1]

(* It is a name, and that of the next index if there is one. *)
LEMMA NextInListMeans ==
    ASSUME TypeOK, FilesAreListed, NEW n \in Nat
    PROVE  /\ NextInList(n) \in Name
           /\ NextInList(n) # NoFile => NextInList(n)[1] = n + 1
  <1> DEFINE k == Len(files)
             at == {i \in DOMAIN paths : paths[i] = Zstd(n) /\ i < Len(paths)}
             next == NextInList(n)
  <1>1. /\ Len(content) \in Nat /\ k \in 1 .. Len(content) /\ Len(paths) = k /\ DOMAIN paths = 1 .. k
        /\ \A i \in 1 .. k : files[i] = Len(content) - k + i /\ paths[i] \in Name /\ paths[i][1] = files[i]
    BY ListOfFiles
  <1>2. next = IF at = {} THEN NoFile ELSE paths[Min(at) + 1]
    BY DEF NextInList
  <1> HIDE DEF k, next
  <1>3. CASE at = {}
    <2>1. NoFile \in Name
      BY DEF NoFile, Name
    <2>2. QED
      BY <1>2, <1>3, <2>1 DEF next
  <1>4. CASE at # {}
    <2>1. PICK i \in 1 .. k : paths[i] = Zstd(n) /\ i < k
      BY <1>1, <1>4
    <2>2. \A j \in at : j = i
      <3>1. ASSUME NEW j \in 1 .. k, paths[j] = Zstd(n)
            PROVE  j = i
        <4>1. files[j] = n /\ files[i] = n
          BY <1>1, <2>1, <3>1, NamesMean
        <4>2. Len(content) - k + j = Len(content) - k + i
          BY <1>1, <4>1
        <4>3. QED
          BY <1>1, <4>2
      <3>2. QED
        BY <1>1, <3>1
    <2>3. at = {i}
      BY <1>4, <2>2
    <2> HIDE DEF at
    <2>4. Min(at) = i
      BY <1>1, <2>3 DEF Min
    <2>5. next = paths[i + 1]
      BY <1>2, <1>4, <2>4
    <2>6. i + 1 \in 1 .. k
      BY <1>1, <2>1
    <2>7. next \in Name /\ next[1] = Len(content) - k + (i + 1)
      BY <1>1, <2>5, <2>6
    <2>8. n = Len(content) - k + i
      <3>1. paths[i][1] = n
        BY <2>1, NamesMean
      <3>2. QED
        BY <1>1, <3>1
    <2>9. Len(content) - k + (i + 1) = n + 1
      BY <1>1, <2>8
    <2>10. QED
      BY <2>7, <2>9 DEF next
  <1>5. QED
    BY <1>3, <1>4

(* A thread makes the callbacks of its file. *)
LEMMA AnnounceSplitKeeps ==
    ASSUME TypeOK, Joins, OneMode, FilesInv, NEW t \in Threads, AnnounceSplit(t)
    PROVE  FilesInv'
  <1> DEFINE n == thread[t].item
             split == <<Zstd(n), NextInList(n)>>
  <1>1. /\ thread[t].at = "announce" /\ HasFile(t) /\ Goes(t, "wait", 0)
        /\ announced' = Append(announced, split)
        /\ UNCHANGED <<options, compressor_file_queue, content, caller, files, paths, disk>>
    BY DEF AnnounceSplit, HasFile, queues, store, NextInList
  <1>2. ClosedFiles /\ Names /\ NextIsNamed /\ FilesAreListed /\ n \in Nat
    BY DEF FilesInv, TypeOK
  <1>3. caller \notin {"base", "closed"} /\ ByFile
    BY <1>1, <1>2, FileThreadMeans
  <1>4. /\ ListedIsThere /\ CompressedAhead /\ NoOtherFiles /\ ListedByName /\ AnnouncedByName
    BY <1>2 DEF Names
  <1>5. /\ Threads' = Threads /\ thread'[t].at = "wait"
        /\ \A u \in Threads : u # t => thread'[u] = thread[u]
    BY <1>1, ThreadGoes DEF Places
  <1>6. split \in Name \X Name /\ split[1] = Zstd(n) /\ split[1][1] = n
        /\ (split[2] # NoFile => split[2][1] = n + 1)
    BY <1>2, NextInListMeans, NamesMean
  <1> HIDE DEF split
  <1>7. t \in FileThreads /\ n \notin Range(Reports)
    BY <1>1, <1>2 DEF FileThreads, ClosedFiles, EachOnce
  <1>8. /\ announced' \in Seq(Name \X Name)
        /\ DOMAIN announced = 1 .. Len(announced) /\ DOMAIN announced' = 1 .. Len(announced) + 1
        /\ Len(announced) \in Nat
        /\ \A i \in 1 .. Len(announced) : announced'[i] = announced[i]
        /\ announced'[Len(announced) + 1] = split
        /\ Range(Reports') = Range(Reports) \cup {n}
        /\ IsInjective(Reports')
    BY <1>1, <1>2, <1>6, <1>7, ReportsAppend DEF ClosedFiles
  <1>9. \A i \in 1 .. Len(announced) + 1 : i \in 1 .. Len(announced) \/ i = Len(announced) + 1
    BY <1>8
  <1>10. ByFile' = ByFile /\ NamesAreExact' = NamesAreExact /\ Closed' = Closed
    BY <1>1, SameOptions DEF Closed
  <1>11. ClosedFiles'
    <2>1. /\ FileThreads' = FileThreads \ {t}
          /\ \A u \in FileThreads \ {t} : thread'[u].item = thread[u].item
      BY <1>5 DEF FileThreads, HasFile
    <2>2. EachOnce(Closed, Range(compressor_file_queue), Range(Reports) \cup {n}, FileThreads \ {t}, thread')
      BY <1>2, <1>7, <2>1, OnceGiven DEF ClosedFiles
    <2>3. QED
      BY <1>1, <1>2, <1>8, <1>10, <2>1, <2>2 DEF ClosedFiles
  <1>12. Compressed' = Compressed
    BY <1>1, <1>3, <1>5, <1>8, <1>10 DEF Compressed
  <1>13. HeldBack' = HeldBack
    BY <1>1, <1>5 DEF HeldBack
  <1>14. ListedIsThere' /\ NoOtherFiles' /\ CompressedAhead'
    BY <1>1, <1>4, <1>5, <1>10, <1>13 DEF ListedIsThere, NoOtherFiles, CompressedAhead
  <1>15. ListedByName'
    BY <1>1, <1>4, <1>12 DEF ListedByName, NameOf
  <1>16. AnnouncedByName'
    <2>1. \A i \in 1 .. Len(announced) : announced[i][1] = Zstd(announced[i][1][1])
      BY <1>3, <1>4, <1>8 DEF AnnouncedByName
    <2>2. \A i \in DOMAIN announced' : announced'[i][1] = Zstd(announced'[i][1][1])
      BY <1>6, <1>8, <1>9, <2>1
    <2>3. QED
      BY <1>1, <1>3, <1>10, <2>2 DEF AnnouncedByName
  <1>17. NextIsNamed'
    BY <1>2, <1>6, <1>8, <1>9 DEF NextIsNamed
  <1>18. FileTypes' /\ FilesAreListed'
    BY <1>1, <1>8 DEF FilesInv, FileTypes, FilesAreListed
  <1>19. QED
    BY <1>11, <1>14, <1>15, <1>16, <1>17, <1>18 DEF FilesInv, Names

(* After the threads have ended, only the last file is left. *)
LEMMA LastFileIsLeft ==
    ASSUME TypeOK, Joins, FilesAreListed, ClosedFiles, caller \in {"compress", "base"}
    PROVE  /\ \A t \in Threads : thread[t].at = "ended"
           /\ FileThreads = {} /\ HeldBack = {}
           /\ Len(content) \in Nat \ {0} /\ Current = Len(content) /\ Len(content) \notin Closed
           /\ Range(Reports) \subseteq Closed /\ Len(content) \notin Compressed
           /\ Len(files) \in Nat \ {0} /\ DOMAIN paths = 1 .. Len(files) /\ Len(paths) = Len(files)
           /\ Last(paths) = paths[Len(files)] /\ paths[Len(files)] \in Name
           /\ paths[Len(files)][1] = Len(content)
           /\ \A i \in 1 .. Len(files) : i # Len(files) => paths[i][1] # Len(content)
  <1> DEFINE n == Len(content)
             k == Len(files)
  <1>1. /\ n \in Nat \ {0} /\ k \in 1 .. n /\ Current = n
        /\ DOMAIN paths = 1 .. k /\ Len(paths) = k /\ Last(paths) = paths[k]
        /\ \A i \in 1 .. k : files[i] = n - k + i /\ paths[i] \in Name /\ paths[i][1] = files[i]
    BY ListOfFiles
  <1>2. \A t \in Threads : thread[t].at = "ended"
    BY DEF Joins
  <1>3. FileThreads = {} /\ HeldBack = {}
    BY <1>2 DEF FileThreads, HeldBack, HasFile
  <1>4. n \notin Closed
    BY <1>1 DEF Closed
  <1>5. Range(Reports) \subseteq Closed /\ n \notin Compressed
    BY <1>4, CompressedIsClosed DEF ClosedFiles, EachOnce
  <1> HIDE DEF n, k
  <1>6. k \in 1 .. k /\ k \in Nat \ {0}
    BY <1>1
  <1>7. paths[k][1] = n /\ paths[k] \in Name
    BY <1>1, <1>6
  <1>8. ASSUME NEW i \in 1 .. k, i # k
        PROVE  paths[i][1] # n
    <2>1. n - k + i # n
      BY <1>1, <1>8
    <2>2. QED
      BY <1>1, <2>1
  <1>9. QED
    BY <1>1, <1>2, <1>3, <1>4, <1>5, <1>6, <1>7, <1>8 DEF n, k

(* close() compresses the last file, or fails to. *)
LEMMA CompressLastKeeps ==
    ASSUME TypeOK, Joins, OneMode, FilesInv, CompressLast
    PROVE  FilesInv'
  <1> DEFINE n == Len(content)
             k == Len(files)
  <1>1. /\ caller = "compress" /\ caller' = "base"
        /\ UNCHANGED <<options, thread, compressor_file_queue, content, announced, files>>
    BY DEF CompressLast, queues
  <1>2. ClosedFiles /\ Names /\ FilesAreListed /\ NextIsNamed
    BY DEF FilesInv
  <1>3. /\ \A t \in Threads : thread[t].at = "ended"
        /\ HeldBack = {}
        /\ n \in Nat \ {0} /\ Current = n /\ n \notin Compressed
        /\ k \in Nat \ {0} /\ DOMAIN paths = 1 .. k /\ Len(paths) = k
        /\ paths[k][1] = n
        /\ \A i \in 1 .. k : i # k => paths[i][1] # n
    BY <1>1, <1>2, LastFileIsLeft
  <1>4. /\ ListedIsThere /\ NoOtherFiles /\ ListedByName /\ AnnouncedByName
    BY <1>2 DEF Names
  <1>5. CASE disk' = (disk \cup {Zstd(Current)}) \ {Plain(Current)} /\ paths' = Renamed(Current)
    <2>1. disk' = (disk \cup {Zstd(n)}) \ {Plain(n)} /\ paths' = Renamed(n)
      BY <1>3, <1>5
    <2> HIDE DEF n, k
    <2>2. /\ paths' \in Seq(Name) /\ Len(paths') = Len(paths) /\ DOMAIN paths' = DOMAIN paths
          /\ \A i \in DOMAIN paths : /\ paths'[i] = IF paths[i] = Plain(n) THEN Zstd(n) ELSE paths[i]
                                     /\ paths'[i][1] = paths[i][1]
      BY <1>3, <2>1, RenamedMeans DEF TypeOK
    <2>3. paths[k] = Plain(n)
      BY <1>1, <1>3, <1>4 DEF ListedByName, NameOf
    <2>4. paths'[k] = Zstd(n) /\ \A i \in 1 .. k : i # k => paths'[i] = paths[i] /\ paths[i] # Plain(n)
      BY <1>3, <2>2, <2>3, NamesMean
    <2>5. ListedIsThere'
      BY <1>3, <1>4, <2>1, <2>2, <2>4, NamesMean DEF ListedIsThere, Range
    <2>6. HeldBack' = HeldBack /\ Compressed' = Compressed /\ NamesAreExact' = NamesAreExact
          /\ Threads' = Threads /\ ByFile' = ByFile /\ Reports' = Reports
      BY <1>1, SameOptions DEF HeldBack, Compressed, Reports
    <2>7. NoOtherFiles'
      <3>1. ASSUME NamesAreExact, NEW y \in disk'
            PROVE  y \in Range(paths')
        <4>1. CASE y = Zstd(n)
          BY <1>3, <2>2, <2>4, <4>1 DEF Range
        <4>2. CASE y \in Range(paths) /\ y # Plain(n)
          BY <2>2, <4>2 DEF Range
        <4>3. QED
          BY <1>3, <1>4, <2>1, <3>1, <4>1, <4>2 DEF NoOtherFiles
      <3>2. QED
        BY <1>3, <2>5, <2>6, <3>1 DEF NoOtherFiles, ListedIsThere
    <2>8. CompressedAhead'
      BY <1>1, <1>3, <2>6 DEF CompressedAhead
    <2>9. ListedByName'
      <3>1. \A i \in 1 .. k : i < k => i # k
        BY <1>3
      <3>2. QED
        BY <1>1, <1>3, <1>4, <2>2, <2>4, <2>6, <3>1 DEF ListedByName, NameOf
    <2>10. AnnouncedByName'
      BY <1>1, <1>4, <2>6 DEF AnnouncedByName
    <2>11. ClosedFiles'
      BY <1>1, <1>2, <2>6 DEF ClosedFiles, Closed, FileThreads, HasFile
    <2>12. FileTypes' /\ FilesAreListed' /\ NextIsNamed'
      <3>1. DOMAIN files = DOMAIN paths
        BY <1>2, ListOfFiles
      <3>2. FilesAreListed'
        BY <1>1, <1>2, <2>2, <3>1 DEF FilesAreListed
      <3>3. disk' \in SUBSET Name
        BY <1>3, <2>1, NamesMean DEF TypeOK
      <3>4. QED
        BY <1>1, <1>2, <2>2, <3>2, <3>3 DEF FilesInv, FileTypes, NextIsNamed
    <2>13. QED
      BY <2>5, <2>7, <2>8, <2>9, <2>10, <2>11, <2>12 DEF FilesInv, Names
  <1>6. CASE UNCHANGED <<disk, paths>>
    BY <1>1, <1>6, FilesStay DEF FileThreadsStay, HasFile
  <1>7. QED
    BY <1>5, <1>6 DEF CompressLast

(* The base class closes: the last file is announced. *)
LEMMA BaseCloseKeeps ==
    ASSUME TypeOK, Joins, OneMode, FilesInv, BaseClose
    PROVE  FilesInv'
  <1> DEFINE n == Len(content)
             k == Len(files)
             last == <<Last(paths), NoFile>>
  <1>1. /\ caller = "base" /\ caller' = "closed" /\ announced' = Append(announced, last)
        /\ UNCHANGED <<options, thread, compressor_file_queue, content, files, paths, disk>>
    BY DEF BaseClose, queues, store
  <1>2. ClosedFiles /\ Names /\ FilesAreListed /\ NextIsNamed
    BY DEF FilesInv
  <1>3. /\ \A t \in Threads : thread[t].at = "ended"
        /\ FileThreads = {}
        /\ n \in Nat \ {0} /\ n \notin Closed /\ n \notin Compressed
        /\ Range(Reports) \subseteq Closed
        /\ k \in Nat \ {0} /\ DOMAIN paths = 1 .. k /\ Len(paths) = k
        /\ Last(paths) = paths[k] /\ Last(paths) \in Name /\ Last(paths)[1] = n
        /\ \A i \in 1 .. k : i # k => paths[i][1] # n
    BY <1>1, <1>2, LastFileIsLeft
  <1>4. /\ ListedIsThere /\ NoOtherFiles /\ ListedByName /\ AnnouncedByName
    BY <1>2 DEF Names
  <1>5. last \in Name \X Name /\ last[1] = Last(paths) /\ last[1][1] = n /\ last[2] = NoFile
    <2>1. NoFile \in Name
      BY DEF NoFile, Name
    <2>2. QED
      BY <1>3, <2>1
  <1>6. Closed' = Closed \cup {n}
    <2>1. Closed = 1 .. n - 1 /\ Closed' = 1 .. n
      BY <1>1 DEF Closed
    <2> HIDE DEF n
    <2>2. n \in Nat \ {0}
      BY <1>3
    <2>3. 1 .. n = (1 .. n - 1) \cup {n}
      BY <2>2
    <2>4. QED
      BY <2>1, <2>3
  <1> HIDE DEF last, n, k
  <1>7. /\ announced' \in Seq(Name \X Name)
        /\ DOMAIN announced = 1 .. Len(announced) /\ DOMAIN announced' = 1 .. Len(announced) + 1
        /\ Len(announced) \in Nat
        /\ \A i \in 1 .. Len(announced) : announced'[i] = announced[i]
        /\ announced'[Len(announced) + 1] = last
        /\ Range(Reports') = Range(Reports) \cup {n}
        /\ IsInjective(Reports')
    BY <1>1, <1>2, <1>3, <1>5, ReportsAppend DEF ClosedFiles
  <1>8. \A i \in 1 .. Len(announced) + 1 : i \in 1 .. Len(announced) \/ i = Len(announced) + 1
    BY <1>7
  <1>9. Threads' = Threads /\ ByFile' = ByFile /\ NamesAreExact' = NamesAreExact
    BY <1>1, SameOptions
  <1>10. ClosedFiles'
    <2>1. FileThreads' = FileThreads
      BY <1>1, <1>9 DEF FileThreads, HasFile
    <2>2. EachOnce(Closed \cup {n}, Range(compressor_file_queue), Range(Reports) \cup {n}, FileThreads, thread)
      BY <1>2, <1>3, OnceDone DEF ClosedFiles
    <2>3. QED
      BY <1>1, <1>2, <1>6, <1>7, <2>1, <2>2 DEF ClosedFiles
  <1>11. HeldBack' = HeldBack
    BY <1>1, <1>9 DEF HeldBack
  <1>12. \A x : x # n => (x \in Compressed' <=> x \in Compressed)
    BY <1>1, <1>3, <1>7, <1>9 DEF Compressed
  <1>13. ListedIsThere' /\ NoOtherFiles' /\ CompressedAhead'
    BY <1>1, <1>3, <1>4, <1>9, <1>11 DEF ListedIsThere, NoOtherFiles, CompressedAhead
  <1>14. ListedByName'
    <2>1. \A i \in 1 .. k : i < k => i # k
      BY <1>3
    <2>2. QED
      BY <1>1, <1>3, <1>4, <1>12, <2>1 DEF ListedByName, NameOf
  <1>15. AnnouncedByName'
    <2>1. ASSUME NEW i \in 1 .. Len(announced)
          PROVE  /\ announced[i][1][1] # n
                 /\ announced[i][1] = IF ByFile THEN Zstd(announced[i][1][1]) ELSE Plain(announced[i][1][1])
      <3>1. announced[i][1][1] \in Range(Reports)
        BY <1>7, <2>1 DEF Range, Reports
      <3>2. announced[i][1][1] # n
        BY <1>3, <3>1
      <3>3. QED
        BY <1>1, <1>4, <1>7, <3>2 DEF AnnouncedByName
    <2>2. n' = n
      BY <1>1 DEF n
    <2>3. QED
      BY <1>1, <1>5, <1>7, <1>8, <1>9, <2>1, <2>2 DEF AnnouncedByName, n
  <1>16. NextIsNamed'
    BY <1>2, <1>5, <1>7, <1>8 DEF NextIsNamed
  <1>17. FileTypes' /\ FilesAreListed'
    BY <1>1, <1>7 DEF FilesInv, FileTypes, FilesAreListed
  <1>18. QED
    BY <1>10, <1>13, <1>14, <1>15, <1>16, <1>17 DEF FilesInv, Names

-----------------------------------------------------------------------------
(* What the steps do to messages.                                          *)

(* The messages of the files, when one more is stored. *)
LEMMA StoresMeans ==
    ASSUME NEW m, Stores(m), m \notin UNION Range(content),
           \A k, l \in DOMAIN content : k # l => content[k] \cap content[l] = {}
    PROVE  /\ UNION Range(content') = (UNION Range(content)) \cup {m}
           /\ \A k, l \in DOMAIN content' : k # l => content'[k] \cap content'[l] = {}
  <1>1. PICK p \in DOMAIN content' :
            /\ m \in content'[p]
            /\ \A k \in DOMAIN content : k \in DOMAIN content' /\ content[k] \subseteq content'[k]
            /\ \A k \in DOMAIN content' : \A x \in content'[k] :
                  (x = m /\ k = p) \/ (k \in DOMAIN content /\ x \in content[k])
    BY DEF Stores
  <1>2. \A k \in DOMAIN content : m \notin content[k]
    BY DEF Range
  <1>3. UNION Range(content') = (UNION Range(content)) \cup {m}
    <2>1. ASSUME NEW x \in UNION Range(content')
          PROVE  x \in (UNION Range(content)) \cup {m}
      <3>1. PICK k \in DOMAIN content' : x \in content'[k]
        BY DEF Range
      <3>2. x = m \/ (k \in DOMAIN content /\ x \in content[k])
        BY <1>1, <3>1
      <3>3. QED
        BY <3>2 DEF Range
    <2>2. ASSUME NEW x \in UNION Range(content)
          PROVE  x \in UNION Range(content')
      <3>1. PICK k \in DOMAIN content : x \in content[k]
        BY DEF Range
      <3>2. k \in DOMAIN content' /\ x \in content'[k]
        BY <1>1, <3>1
      <3>3. QED
        BY <3>2 DEF Range
    <2>3. m \in UNION Range(content')
      BY <1>1 DEF Range
    <2>4. QED
      BY <2>1, <2>2, <2>3
  <1>4. ASSUME NEW k \in DOMAIN content', NEW l \in DOMAIN content', k # l,
               NEW x \in content'[k], x \in content'[l]
        PROVE  FALSE
    <2>1. CASE x = m
      <3>1. k = p /\ l = p
        BY <1>1, <1>2, <1>4, <2>1
      <3>2. QED
        BY <1>4, <3>1
    <2>2. CASE x # m
      <3>1. k \in DOMAIN content /\ x \in content[k] /\ l \in DOMAIN content /\ x \in content[l]
        BY <1>1, <1>4, <2>2
      <3>2. QED
        BY <1>4, <3>1
    <2>3. QED
      BY <2>1, <2>2
  <1>5. QED
    BY <1>3, <1>4

(* The threads that have a message keep it. *)
MessageThreadsStay ==
    /\ UNCHANGED options
    /\ \A t \in Threads : /\ HasMessage(t)' <=> HasMessage(t)
                          /\ HasMessage(t) => thread'[t].item = thread[t].item

(* Messages stay where they are. *)
LEMMA MessagesStay ==
    ASSUME MessagesOnce, MessageThreadsStay, UNCHANGED <<compressor_message_queue, content, written>>,
           WithCall' = WithCall
    PROVE  MessagesOnce'
  <1>1. /\ MessageThreads' = MessageThreads
        /\ \A t \in MessageThreads : thread'[t].item = thread[t].item
    BY SameOptions DEF MessageThreadsStay, MessageThreads
  <1>2. EachOnce(1 .. written, Range(compressor_message_queue) \cup WithCall, UNION Range(content),
                 MessageThreads, thread')
    BY <1>1, OnceKept DEF MessagesOnce
  <1>3. QED
    BY <1>1, <1>2 DEF MessagesOnce

(* The numbers of the messages. *)
LEMMA NextNumber ==
    ASSUME NEW n \in Nat
    PROVE  1 .. n + 1 = (1 .. n) \cup {n + 1} /\ n + 1 \notin 1 .. n /\ n + 1 \in Nat
  OBVIOUS

(* A message of the caller is stored at once. *)
LEMMA WriteToFileKeepsMessages ==
    ASSUME TypeOK, MessagesOnce, Stores(written + 1), written' = written + 1,
           UNCHANGED <<options, thread, compressor_message_queue, caller, message>>
    PROVE  MessagesOnce'
  <1> DEFINE m == written + 1
             queued == Range(compressor_message_queue) \cup WithCall
             stored == UNION Range(content)
  <1>1. written \in Nat
    BY DEF TypeOK
  <1>2. 1 .. written' = (1 .. written) \cup {m} /\ m \notin 1 .. written
    BY <1>1, NextNumber
  <1> HIDE DEF m
  <1>3. /\ EachOnce(1 .. written, queued, stored, MessageThreads, thread)
        /\ \A k, l \in DOMAIN content : k # l => content[k] \cap content[l] = {}
    BY DEF MessagesOnce
  <1>4. m \notin stored
    BY <1>2, <1>3 DEF EachOnce
  <1>5. Stores(m)
    BY DEF m
  <1>6. /\ UNION Range(content') = stored \cup {m}
        /\ \A k, l \in DOMAIN content' : k # l => content'[k] \cap content'[l] = {}
    BY <1>3, <1>4, <1>5, StoresMeans
  <1>7. EachOnce((1 .. written) \cup {m}, queued, stored \cup {m}, MessageThreads, thread)
    BY <1>2, <1>3, OnceDone
  <1>8. MessageThreads' = MessageThreads /\ WithCall' = WithCall
    BY SameOptions DEF MessageThreads, HasMessage, WithCall
  <1>9. QED
    BY <1>2, <1>6, <1>7, <1>8 DEF MessagesOnce

(* A thread stores its message. *)
LEMMA WriteCompressedKeepsMessages ==
    ASSUME TypeOK, MessagesOnce, NEW t \in Threads, HasMessage(t), Stores(thread[t].item), Goes(t, "wait", 0),
           UNCHANGED <<options, compressor_message_queue, caller, message, written>>
    PROVE  MessagesOnce'
  <1> DEFINE m == thread[t].item
             queued == Range(compressor_message_queue) \cup WithCall
             stored == UNION Range(content)
  <1>1. /\ EachOnce(1 .. written, queued, stored, MessageThreads, thread)
        /\ \A k, l \in DOMAIN content : k # l => content[k] \cap content[l] = {}
    BY DEF MessagesOnce
  <1>2. t \in MessageThreads
    BY DEF MessageThreads
  <1>3. m \notin stored
    BY <1>1, <1>2 DEF EachOnce
  <1>4. /\ UNION Range(content') = stored \cup {m}
        /\ \A k, l \in DOMAIN content' : k # l => content'[k] \cap content'[l] = {}
    BY <1>1, <1>3, StoresMeans
  <1>5. /\ Threads' = Threads /\ thread'[t].at = "wait"
        /\ \A u \in Threads : u # t => thread'[u] = thread[u]
    BY ThreadGoes DEF Places
  <1>6. /\ MessageThreads' = MessageThreads \ {t}
        /\ \A u \in MessageThreads \ {t} : thread'[u].item = thread[u].item
    BY <1>5 DEF MessageThreads, HasMessage
  <1>7. EachOnce(1 .. written, queued, stored \cup {m}, MessageThreads \ {t}, thread')
    BY <1>1, <1>2, <1>6, OnceGiven
  <1>8. WithCall' = WithCall
    BY DEF WithCall
  <1>9. QED
    BY <1>4, <1>6, <1>7, <1>8 DEF MessagesOnce

(* A message of the caller waits, or is queued. *)
LEMMA WriteToQueueKeepsMessages ==
    ASSUME TypeOK, MessagesOnce, options.queue_size = 0, WriteToQueue
    PROVE  MessagesOnce'
  <1> DEFINE m == written + 1
             queue == compressor_message_queue
             stored == UNION Range(content)
  <1>1. /\ caller = "idle" /\ written' = m
        /\ UNCHANGED <<options, thread, content>>
        /\ IF MustWait THEN caller' = "waiting" /\ message' = m /\ queue' = queue
           ELSE queue' = Append(SubSeq(queue, 1, Len(queue)), m) /\ UNCHANGED <<caller, message>>
    BY DEF WriteToQueue, Full, store
  <1>2. written \in Nat /\ queue \in Seq(Nat)
    BY DEF TypeOK
  <1>3. 1 .. written' = (1 .. written) \cup {m} /\ m \notin 1 .. written /\ m \in Nat
    BY <1>1, <1>2, NextNumber
  <1>4. SubSeq(queue, 1, Len(queue)) = queue
    BY <1>2, SubSeqFull
  <1>5. WithCall = {}
    BY <1>1 DEF WithCall
  <1>6. /\ EachOnce(1 .. written, Range(queue), stored, MessageThreads, thread)
        /\ IsInjective(queue)
        /\ \A k, l \in DOMAIN content : k # l => content[k] \cap content[l] = {}
    BY <1>5 DEF MessagesOnce
  <1> HIDE DEF m
  <1>7. m \notin Range(queue)
    BY <1>3, <1>6 DEF EachOnce
  <1>8. EachOnce(1 .. written', Range(queue) \cup {m}, stored, MessageThreads, thread)
    <2>1. EachOnce((1 .. written) \cup {m}, Range(queue) \cup {m}, stored, MessageThreads, thread)
      BY <1>3, <1>6, OnceQueued
    <2>2. QED
      BY <1>3, <2>1
  <1>9. MessageThreads' = MessageThreads
    BY <1>1, SameOptions DEF MessageThreads, HasMessage
  <1>10. CASE MustWait
    <2>1. WithCall' = {m} /\ queue' = queue
      BY <1>1, <1>10 DEF WithCall
    <2>2. QED
      BY <1>1, <1>6, <1>7, <1>8, <1>9, <2>1 DEF MessagesOnce
  <1>11. CASE ~MustWait
    <2>1. queue' = Append(queue, m) /\ WithCall' = {}
      BY <1>1, <1>4, <1>11 DEF WithCall
    <2>2. Range(queue') = Range(queue) \cup {m} /\ IsInjective(queue')
      BY <1>2, <1>3, <1>6, <1>7, <2>1, QueueAppend
    <2>3. QED
      BY <1>1, <1>6, <1>8, <1>9, <2>1, <2>2 DEF MessagesOnce
  <1>12. QED
    BY <1>10, <1>11

(* The call that waited queues its message. *)
LEMMA WriteGoesOnKeepsMessages ==
    ASSUME TypeOK, MessagesOnce, WriteGoesOn
    PROVE  MessagesOnce'
  <1> DEFINE queue == compressor_message_queue
  <1>1. /\ caller = "waiting" /\ caller' = "idle" /\ queue' = Append(queue, message)
        /\ UNCHANGED <<options, thread, content, written>>
    BY DEF WriteGoesOn, store
  <1>2. message \in Nat /\ queue \in Seq(Nat)
    BY DEF TypeOK
  <1>3. WithCall = {message} /\ WithCall' = {}
    BY <1>1 DEF WithCall
  <1>4. message \notin Range(queue) /\ IsInjective(queue)
    BY <1>3 DEF MessagesOnce
  <1>5. Range(queue') = Range(queue) \cup {message} /\ IsInjective(queue')
    BY <1>1, <1>2, <1>4, QueueAppend
  <1>6. MessageThreads' = MessageThreads
    BY <1>1, SameOptions DEF MessageThreads, HasMessage
  <1>7. QED
    BY <1>1, <1>3, <1>5, <1>6 DEF MessagesOnce

(* A thread takes a message from the queue. *)
LEMMA TakeMessageKeepsMessages ==
    ASSUME TypeOK, MessagesOnce, NEW t \in Threads, TakeMessage(t)
    PROVE  MessagesOnce'
  <1> DEFINE queue == compressor_message_queue
             m == Head(queue)
             queued == Range(queue) \cup WithCall
             stored == UNION Range(content)
  <1>1. /\ thread[t].at = "wait" /\ queue # << >> /\ Goes(t, "message", m) /\ queue' = Tail(queue)
        /\ UNCHANGED <<options, content, caller, message, written>>
    BY DEF TakeMessage, Waiting, store
  <1>2. queue \in Seq(Nat)
    BY DEF TypeOK
  <1>3. m \in Nat
    BY <1>1, <1>2, HeadAndTail
  <1>4. /\ EachOnce(1 .. written, queued, stored, MessageThreads, thread)
        /\ IsInjective(queue) /\ Range(queue) \cap WithCall = {}
    BY DEF MessagesOnce
  <1>5. m \in Range(queue) /\ Range(queue') = Range(queue) \ {m} /\ IsInjective(queue')
    BY <1>1, <1>2, <1>4, QueueTail
  <1> HIDE DEF m
  <1>6. /\ Threads' = Threads /\ thread'[t].at = "message" /\ thread'[t].item = m
        /\ \A u \in Threads : u # t => thread'[u] = thread[u]
    BY <1>1, <1>3, ThreadGoes DEF Places
  <1>7. /\ t \notin MessageThreads /\ MessageThreads' = MessageThreads \cup {t}
        /\ \A u \in MessageThreads : thread'[u].item = thread[u].item
    BY <1>1, <1>6 DEF MessageThreads, HasMessage
  <1>8. EachOnce(1 .. written, queued \ {m}, stored, MessageThreads \cup {t}, thread')
    BY <1>4, <1>5, <1>6, <1>7, OnceTaken
  <1>9. WithCall' = WithCall
    BY <1>1 DEF WithCall
  <1>10. queued \ {m} = Range(queue') \cup WithCall' /\ Range(queue') \cap WithCall' = {}
    BY <1>4, <1>5, <1>9
  <1>11. QED
    BY <1>1, <1>5, <1>7, <1>8, <1>10 DEF MessagesOnce

-----------------------------------------------------------------------------
(* The steps.                                                              *)

(* The initial states. *)
LEMMA InitInv ==
    ASSUME Init
    PROVE  IInv
  <1> USE DEF Init
  <1>1. \A t \in Threads : thread[t].at = "wait"
    BY DEF Threads, Waiting
  <1>2. Plain(1) \in Name /\ Zstd(1) \in Name /\ Plain(1)[1] = 1
    BY NamesMean
  <1>3. options \in Options /\ options.threads \in Nat /\ options.mode \in {"file", "message"}
    BY CompressionAssumption
  <1>4. <<>> \in Seq(Nat)
    OBVIOUS
  <1>5. <<>> \in Seq(Name \X Name)
    OBVIOUS
  <1>6. <<1>> \in Seq(Nat) /\ Len(<<1>>) = 1 /\ DOMAIN <<1>> = {1}
    OBVIOUS
  <1>7. paths \in Seq(Name) /\ Len(paths) = 1 /\ DOMAIN paths = {1} /\ paths[1] = Plain(1)
    BY <1>2
  <1>8. content \in Seq(SUBSET Nat) /\ Len(content) = 1 /\ DOMAIN content = {1} /\ content[1] = {}
    <2>1. {} \in SUBSET Nat
      OBVIOUS
    <2>2. QED
      BY <2>1
  <1>9. TypeOK
    <2>1. thread \in [Threads -> [at : Places, item : Nat]]
      BY DEF Threads, Waiting, Places
    <2>2. QED
      BY <1>2, <1>3, <1>4, <1>5, <1>6, <1>7, <1>8, <2>1 DEF TypeOK, Places
  <1>10. FilesAreListed
    BY <1>2, <1>6, <1>7, <1>8 DEF FilesAreListed
  <1>11. Joins /\ OneMode
    BY <1>1 DEF Joins, OneMode, HasMessage, HasFile
  <1>12. FileThreads = {} /\ MessageThreads = {} /\ HeldBack = {}
    BY <1>1 DEF FileThreads, MessageThreads, HeldBack, HasFile, HasMessage
  <1>13. DOMAIN announced = {} /\ DOMAIN compressor_file_queue = {} /\ DOMAIN compressor_message_queue = {}
    OBVIOUS
  <1>14. Range(Reports) = {} /\ IsInjective(Reports)
    BY <1>13 DEF Reports, Range, IsInjective
  <1>15. ClosedFiles
    <2>1. Closed = {}
      BY <1>8 DEF Closed
    <2>2. Range(compressor_file_queue) = {} /\ IsInjective(compressor_file_queue)
      BY <1>13 DEF Range, IsInjective
    <2>3. QED
      BY <1>12, <1>14, <2>1, <2>2 DEF ClosedFiles, EachOnce
  <1>16. Names
    <2>1. Compressed = {}
      BY <1>1, <1>14 DEF Compressed
    <2>2. Range(paths) = {Plain(1)}
      BY <1>7 DEF Range
    <2>3. ListedIsThere /\ NoOtherFiles
      BY <1>12, <2>2 DEF ListedIsThere, NoOtherFiles
    <2>4. CompressedAhead /\ AnnouncedByName
      BY <1>1, <1>13 DEF CompressedAhead, AnnouncedByName
    <2>5. ListedByName
      BY <1>2, <1>7, <2>1 DEF ListedByName, NameOf
    <2>6. QED
      BY <2>3, <2>4, <2>5 DEF Names
  <1>17. NextIsNamed
    BY <1>13 DEF NextIsNamed
  <1>18. MessagesOnce
    <2>1. UNION Range(content) = {} /\ \A k, l \in DOMAIN content : k # l => content[k] \cap content[l] = {}
      BY <1>8 DEF Range
    <2>2. 1 .. written = {} /\ WithCall = {}
      BY DEF WithCall
    <2>3. Range(compressor_message_queue) = {} /\ IsInjective(compressor_message_queue)
      BY <1>13 DEF Range, IsInjective
    <2>4. QED
      BY <1>12, <2>1, <2>2, <2>3 DEF MessagesOnce, EachOnce
  <1>19. QED
    BY <1>9, <1>10, <1>11, <1>15, <1>16, <1>17, <1>18 DEF IInv

(* The parts that the steps are looked at by. *)
LEMMA Parts ==
    /\ IInv => FilesInv
    /\ TypeOK' /\ Joins' /\ OneMode' /\ FilesInv' /\ (options'.queue_size = 0 => MessagesOnce') => IInv'
  BY DEF IInv, FilesInv, FileTypes, TypeOK

(* The types of what is not about files. *)
LEMMA OtherTypes ==
    ASSUME TypeOK, FilesInv', UNCHANGED options,
           content' \in Seq(SUBSET Nat), thread' \in [Threads -> [at : Places, item : Nat]],
           compressor_message_queue' \in Seq(Nat), compression_is_running' \in BOOLEAN,
           caller' \in {"idle", "waiting", "joining", "compress", "base", "closed"},
           message' \in Nat, written' \in Nat, lost' \in SUBSET Nat
    PROVE  TypeOK'
  BY SameOptions DEF TypeOK, FilesInv, FileTypes, Places

(* A thread that has not ended goes on. *)
LEMMA ThreadKeepsCalls ==
    ASSUME TypeOK, Joins, OneMode, NEW t \in Threads, NEW place \in Places \ {"ended"}, NEW item \in Nat,
           Goes(t, place, item), thread[t].at # "ended",
           UNCHANGED <<options, caller, compression_is_running>>, Empty => Empty',
           ByFile => compressor_message_queue' = << >> /\ place # "message",
           ~ByFile => compressor_file_queue' = << >> /\ place \in {"wait", "message"}
    PROVE  Joins' /\ OneMode' /\ thread' \in [Threads -> [at : Places, item : Nat]]
  <1>1. /\ Threads' = Threads
        /\ thread' \in [Threads -> [at : Places, item : Nat]]
        /\ thread'[t].at = place
        /\ \A u \in Threads : u # t => thread'[u] = thread[u]
    BY ThreadGoes
  <1>2. ByFile' = ByFile
    BY SameOptions
  <1>3. \A u \in Threads : thread'[u].at = "ended" <=> thread[u].at = "ended"
    BY <1>1
  <1>4. Joins'
    BY <1>1, <1>2, <1>3 DEF Joins
  <1>5. OneMode'
    <2>1. ASSUME ByFile
          PROVE  \A u \in Threads : ~HasMessage(u)'
      BY <1>1, <2>1 DEF OneMode, HasMessage
    <2>2. ASSUME ~ByFile
          PROVE  \A u \in Threads : ~HasFile(u)'
      BY <1>1, <2>2 DEF OneMode, HasFile
    <2>3. QED
      BY <1>1, <1>2, <2>1, <2>2 DEF OneMode
  <1>6. QED
    BY <1>1, <1>4, <1>5

(* write() with compression of files. *)
LEMMA WriteToFileInv ==
    ASSUME IInv, WriteToFile
    PROVE  IInv'
  <1>1. TypeOK /\ FilesAreListed /\ Joins /\ OneMode /\ FilesInv
    BY Parts DEF IInv
  <1>2. /\ caller = "idle" /\ ByFile /\ written' = written + 1 /\ BaseWrite(written + 1)
        /\ UNCHANGED <<options, compressor_message_queue, compression_is_running, thread, caller, message, lost>>
    BY DEF WriteToFile
  <1>3. written \in Nat /\ written + 1 \in Nat
    BY <1>1 DEF TypeOK
  <1>4. FileThreadsStay
    BY <1>2 DEF FileThreadsStay, HasFile
  <1>5. FilesInv' /\ content' \in Seq(SUBSET Nat)
    BY <1>1, <1>2, <1>3, <1>4, BaseWriteKeepsFiles
  <1>6. Stores(written + 1)
    BY <1>1, <1>2, <1>3, BaseWriteMeans, BaseWriteStores
  <1>7. TypeOK'
    <2>1. thread' \in [Threads -> [at : Places, item : Nat]]
      BY <1>1, <1>2 DEF TypeOK, Places
    <2>2. QED
      BY <1>1, <1>2, <1>3, <1>5, <2>1, OtherTypes DEF TypeOK
  <1>8. \A t \in Threads : thread[t].at # "ended"
    BY <1>1, <1>2 DEF Joins
  <1>9. Joins' /\ OneMode'
    BY <1>1, <1>2, <1>8, SameOptions DEF Joins, OneMode, HasMessage, HasFile
  <1>10. options'.queue_size = 0 => MessagesOnce'
    BY <1>1, <1>2, <1>6, WriteToFileKeepsMessages DEF IInv
  <1>11. QED
    BY <1>5, <1>7, <1>9, <1>10, Parts

(* write() with compression of messages. *)
LEMMA WriteToQueueInv ==
    ASSUME IInv, WriteToQueue
    PROVE  IInv'
  <1> DEFINE queue == compressor_message_queue
             drops == IF Full(queue) THEN Len(queue) - options.queue_size ELSE 0
             m     == IF drops > 0 THEN queue[drops] ELSE written + 1
             kept  == SubSeq(queue, drops + 1, Len(queue))
  <1>1. TypeOK /\ Joins /\ OneMode /\ FilesInv
    BY Parts DEF IInv
  <1>2. /\ caller = "idle" /\ ~ByFile /\ written' = written + 1
        /\ lost' = lost \cup {queue[i] : i \in 1 .. drops}
        /\ IF MustWait THEN caller' = "waiting" /\ message' = m /\ queue' = queue
           ELSE queue' = Append(kept, m) /\ UNCHANGED <<caller, message>>
        /\ UNCHANGED <<options, compressor_file_queue, compression_is_running, thread, files, paths, disk,
                       content, announced>>
    BY DEF WriteToQueue, store
  <1>3. drops \in 0 .. Len(queue) /\ Len(queue) \in Nat
    <2>1. Len(queue) \in Nat /\ options.queue_size \in Nat
      BY <1>1, LenProperties, CompressionAssumption DEF TypeOK
    <2>2. QED
      BY <2>1 DEF Full
  <1>4. \A i \in 1 .. Len(queue) : queue[i] \in Nat
    BY <1>1, ElementOfSeq DEF TypeOK
  <1> HIDE DEF drops
  <1>5. m \in Nat
    BY <1>1, <1>3, <1>4 DEF TypeOK
  <1>6. kept \in Seq(Nat)
    <2>1. drops + 1 \in Int /\ \A i \in drops + 1 .. Len(queue) : queue[i] \in Nat
      BY <1>3, <1>4
    <2>2. QED
      BY <1>3, <2>1, SubSeqProperties
  <1> HIDE DEF m, kept
  <1>7. queue' \in Seq(Nat) /\ message' \in Nat
    <2>1. Append(kept, m) \in Seq(Nat)
      BY <1>5, <1>6, Appended
    <2>2. queue \in Seq(Nat) /\ message \in Nat
      BY <1>1 DEF TypeOK
    <2>3. QED
      BY <1>2, <1>5, <2>1, <2>2
  <1>8. FilesInv'
    BY <1>1, <1>2, FilesStay DEF FileThreadsStay, HasFile
  <1>9. TypeOK'
    <2>1. thread' \in [Threads -> [at : Places, item : Nat]]
      BY <1>1, <1>2 DEF TypeOK, Places
    <2>2. {queue[i] : i \in 1 .. drops} \in SUBSET Nat
      BY <1>3, <1>4
    <2>3. lost' \in SUBSET Nat
      BY <1>1, <1>2, <2>2 DEF TypeOK
    <2>4. caller' \in {"idle", "waiting"} /\ written' \in Nat
      BY <1>1, <1>2 DEF TypeOK
    <2>5. content' \in Seq(SUBSET Nat) /\ compression_is_running' \in BOOLEAN
      BY <1>1, <1>2 DEF TypeOK
    <2>6. QED
      BY <1>1, <1>2, <1>7, <1>8, <2>1, <2>3, <2>4, <2>5, OtherTypes
  <1>10. \A t \in Threads : thread[t].at # "ended"
    BY <1>1, <1>2 DEF Joins
  <1>11. Joins' /\ OneMode'
    BY <1>1, <1>2, <1>10, SameOptions DEF Joins, OneMode, HasMessage, HasFile
  <1>12. options'.queue_size = 0 => MessagesOnce'
    BY <1>1, <1>2, WriteToQueueKeepsMessages DEF IInv
  <1>13. QED
    BY <1>8, <1>9, <1>11, <1>12, Parts

(* The call that waited goes on. *)
LEMMA WriteGoesOnInv ==
    ASSUME IInv, WriteGoesOn
    PROVE  IInv'
  <1>1. TypeOK /\ Joins /\ OneMode /\ FilesInv
    BY Parts DEF IInv
  <1>2. /\ caller = "waiting" /\ caller' = "idle" /\ message' = 0
        /\ compressor_message_queue' = Append(compressor_message_queue, message)
        /\ UNCHANGED <<options, compressor_file_queue, compression_is_running, thread, written, files, paths,
                       disk, content, lost, announced>>
    BY DEF WriteGoesOn, store
  <1>3. ~ByFile /\ \A t \in Threads : thread[t].at # "ended"
    BY <1>1, <1>2 DEF OneMode, Joins
  <1>4. FilesInv'
    BY <1>1, <1>2, FilesStay DEF FileThreadsStay, HasFile
  <1>5. TypeOK'
    <2>1. thread' \in [Threads -> [at : Places, item : Nat]]
      BY <1>1, <1>2 DEF TypeOK, Places
    <2>2. compressor_message_queue' \in Seq(Nat)
      BY <1>1, <1>2, Appended DEF TypeOK
    <2>3. QED
      BY <1>1, <1>2, <1>4, <2>1, <2>2, OtherTypes DEF TypeOK
  <1>6. Joins' /\ OneMode'
    BY <1>1, <1>2, <1>3, SameOptions DEF Joins, OneMode, HasMessage, HasFile
  <1>7. options'.queue_size = 0 => MessagesOnce'
    BY <1>1, <1>2, WriteGoesOnKeepsMessages DEF IInv
  <1>8. QED
    BY <1>4, <1>5, <1>6, <1>7, Parts

(* A thread takes a message. *)
LEMMA TakeMessageInv ==
    ASSUME IInv, NEW t \in Threads, TakeMessage(t)
    PROVE  IInv'
  <1> DEFINE m == Head(compressor_message_queue)
  <1>1. TypeOK /\ Joins /\ OneMode /\ FilesInv
    BY Parts DEF IInv
  <1>2. /\ thread[t].at = "wait" /\ compressor_message_queue # << >> /\ Goes(t, "message", m)
        /\ compressor_message_queue' = Tail(compressor_message_queue)
        /\ UNCHANGED <<options, compressor_file_queue, compression_is_running, caller, message, written,
                       files, paths, disk, content, lost, announced>>
    BY DEF TakeMessage, Waiting, store
  <1>3. m \in Nat /\ compressor_message_queue' \in Seq(Nat)
    BY <1>1, <1>2, HeadAndTail DEF TypeOK
  <1> HIDE DEF m
  <1>4. ~ByFile /\ compressor_file_queue = << >>
    BY <1>1, <1>2 DEF OneMode
  <1>5. Joins' /\ OneMode' /\ thread' \in [Threads -> [at : Places, item : Nat]]
    BY <1>1, <1>2, <1>3, <1>4, ThreadKeepsCalls DEF Places, Empty
  <1>6. FilesInv'
    <2>1. Threads' = Threads /\ thread'[t].at = "message" /\ \A u \in Threads : u # t => thread'[u] = thread[u]
      BY <1>1, <1>2, <1>3, ThreadGoes DEF Places
    <2>2. FileThreadsStay
      BY <1>2, <2>1 DEF FileThreadsStay, HasFile
    <2>3. QED
      BY <1>1, <1>2, <2>2, FilesStay
  <1>7. TypeOK'
    BY <1>1, <1>2, <1>3, <1>5, <1>6, OtherTypes DEF TypeOK
  <1>8. options'.queue_size = 0 => MessagesOnce'
    BY <1>1, <1>2, TakeMessageKeepsMessages DEF IInv
  <1>9. QED
    BY <1>5, <1>6, <1>7, <1>8, Parts

(* A thread stores its message. *)
LEMMA WriteCompressedInv ==
    ASSUME IInv, NEW t \in Threads, WriteCompressed(t)
    PROVE  IInv'
  <1> DEFINE m == thread[t].item
  <1>1. TypeOK /\ FilesAreListed /\ Joins /\ OneMode /\ FilesInv
    BY Parts DEF IInv
  <1>2. /\ thread[t].at = "message" /\ HasMessage(t) /\ Goes(t, "wait", 0) /\ BaseWrite(m)
        /\ UNCHANGED <<options, compressor_message_queue, compression_is_running, caller, message, written,
                       lost>>
    BY DEF WriteCompressed, HasMessage
  <1>3. ~ByFile /\ caller \notin {"base", "closed"} /\ m \in Nat
    BY <1>1, <1>2 DEF OneMode, Joins, HasMessage, TypeOK
  <1>4. Threads' = Threads /\ thread'[t].at = "wait" /\ \A u \in Threads : u # t => thread'[u] = thread[u]
    BY <1>1, <1>2, ThreadGoes DEF Places
  <1>5. FileThreadsStay
    BY <1>2, <1>4 DEF FileThreadsStay, HasFile
  <1>6. FilesInv' /\ content' \in Seq(SUBSET Nat) /\ compressor_file_queue' = compressor_file_queue
    BY <1>1, <1>2, <1>3, <1>5, BaseWriteKeepsFiles
  <1>7. Joins' /\ OneMode' /\ thread' \in [Threads -> [at : Places, item : Nat]]
    <2>1. compressor_file_queue = << >>
      BY <1>1, <1>3 DEF OneMode
    <2>2. QED
      BY <1>1, <1>2, <1>3, <1>6, <2>1, ThreadKeepsCalls DEF Places, Empty
  <1>8. TypeOK'
    BY <1>1, <1>2, <1>6, <1>7, OtherTypes DEF TypeOK
  <1>9. Stores(m)
    BY <1>1, <1>2, <1>3, BaseWriteMeans, BaseWriteStores
  <1>10. options'.queue_size = 0 => MessagesOnce'
    BY <1>1, <1>2, <1>9, WriteCompressedKeepsMessages DEF IInv
  <1>11. QED
    BY <1>6, <1>7, <1>8, <1>10, Parts

(* The steps of a thread with a file: the rest of the invariant is not about them. *)
LEMMA FileStepInv ==
    ASSUME IInv, NEW t \in Threads, HasFile(t) \/ (thread[t].at = "wait" /\ compressor_file_queue # << >>),
           NEW place \in {"compress", "open", "rename", "remove", "announce", "wait"}, NEW item \in Nat,
           Goes(t, place, item), FilesInv', Empty => Empty',
           UNCHANGED <<options, compressor_message_queue, compression_is_running, caller, message, written,
                       content, lost>>
    PROVE  IInv'
  <1>1. TypeOK /\ Joins /\ OneMode /\ FilesInv
    BY Parts DEF IInv
  <1>2. ByFile /\ compressor_message_queue = << >>
    BY <1>1 DEF OneMode
  <1>3. thread[t].at # "ended" /\ thread[t].at # "message"
    BY DEF HasFile
  <1>4. Joins' /\ OneMode' /\ thread' \in [Threads -> [at : Places, item : Nat]]
    BY <1>1, <1>2, <1>3, ThreadKeepsCalls DEF Places
  <1>5. TypeOK'
    BY <1>1, <1>4, OtherTypes DEF TypeOK
  <1>6. Threads' = Threads /\ thread'[t].at = place /\ \A u \in Threads : u # t => thread'[u] = thread[u]
    BY <1>1, ThreadGoes DEF Places
  <1>7. MessageThreadsStay /\ WithCall' = WithCall
    BY <1>3, <1>6 DEF MessageThreadsStay, HasMessage, WithCall
  <1>8. options'.queue_size = 0 => MessagesOnce'
    BY <1>7, MessagesStay DEF IInv
  <1>9. QED
    BY <1>4, <1>5, <1>8, Parts

(* A thread takes a file, compresses, lists, removes and announces it. *)
LEMMA FilesInvIsKept ==
    ASSUME IInv, NEW t \in Threads,
           TakeFile(t) \/ CompressFile(t) \/ CompressUri(t) \/ RenameFile(t) \/ RemoveFile(t)
             \/ AnnounceSplit(t)
    PROVE  IInv'
  <1>1. TypeOK /\ Joins /\ OneMode /\ FilesInv
    BY Parts DEF IInv
  <1>2. thread[t].item \in Nat
    BY <1>1 DEF TypeOK
  <1>3. CASE TakeFile(t)
    <2> DEFINE n == Head(compressor_file_queue)
    <2>1. /\ thread[t].at = "wait" /\ compressor_file_queue # << >> /\ Goes(t, "compress", n)
          /\ UNCHANGED <<options, compressor_message_queue, compression_is_running, caller, message, written,
                         content, lost>>
      BY <1>3 DEF TakeFile, Waiting, store
    <2>2. n \in Nat
      BY <1>1, <2>1, HeadAndTail DEF TypeOK
    <2> HIDE DEF n
    <2>3. FilesInv'
      BY <1>1, <1>3, TakeFileKeeps
    <2>4. Empty => Empty'
      BY <2>1 DEF Empty
    <2>5. QED
      BY <2>1, <2>2, <2>3, <2>4, FileStepInv
  <1>4. CASE CompressFile(t)
    <2>1. /\ HasFile(t)
          /\ UNCHANGED <<options, compressor_message_queue, compressor_file_queue, compression_is_running, caller,
                         message, written, content, lost>>
          /\ Goes(t, "open", thread[t].item) \/ Goes(t, "announce", thread[t].item)
      BY <1>4 DEF CompressFile, HasFile, store, queues
    <2>2. FilesInv'
      BY <1>1, <1>4, CompressFileKeeps
    <2>3. Empty => Empty'
      BY <2>1 DEF Empty
    <2>4. CASE Goes(t, "open", thread[t].item)
      BY <1>2, <2>1, <2>2, <2>3, <2>4, FileStepInv
    <2>5. CASE Goes(t, "announce", thread[t].item)
      BY <1>2, <2>1, <2>2, <2>3, <2>5, FileStepInv
    <2>6. QED
      BY <2>1, <2>4, <2>5
  <1>9. CASE CompressUri(t)
    <2>1. /\ HasFile(t) /\ Goes(t, "rename", thread[t].item)
          /\ UNCHANGED <<options, compressor_message_queue, compressor_file_queue, compression_is_running, caller,
                         message, written, content, lost>>
      BY <1>9 DEF CompressUri, HasFile, queues
    <2>2. FilesInv'
      BY <1>1, <1>9, CompressUriKeeps
    <2>3. Empty => Empty'
      BY <2>1 DEF Empty
    <2>4. QED
      BY <1>2, <2>1, <2>2, <2>3, FileStepInv
  <1>5. CASE RenameFile(t)
    <2>1. /\ HasFile(t) /\ Goes(t, "remove", thread[t].item)
          /\ UNCHANGED <<options, compressor_message_queue, compressor_file_queue, compression_is_running, caller,
                         message, written, content, lost>>
      BY <1>5 DEF RenameFile, HasFile, queues
    <2>2. FilesInv'
      BY <1>1, <1>5, RenameFileKeeps
    <2>3. Empty => Empty'
      BY <2>1 DEF Empty
    <2>4. QED
      BY <1>2, <2>1, <2>2, <2>3, FileStepInv
  <1>6. CASE RemoveFile(t)
    <2>1. /\ HasFile(t) /\ Goes(t, "announce", thread[t].item)
          /\ UNCHANGED <<options, compressor_message_queue, compressor_file_queue, compression_is_running, caller,
                         message, written, content, lost>>
      BY <1>6 DEF RemoveFile, HasFile, queues
    <2>2. FilesInv'
      BY <1>1, <1>6, RemoveFileKeeps
    <2>3. Empty => Empty'
      BY <2>1 DEF Empty
    <2>4. QED
      BY <1>2, <2>1, <2>2, <2>3, FileStepInv
  <1>7. CASE AnnounceSplit(t)
    <2>1. /\ HasFile(t) /\ Goes(t, "wait", 0)
          /\ UNCHANGED <<options, compressor_message_queue, compressor_file_queue, compression_is_running, caller,
                         message, written, content, lost>>
      BY <1>7 DEF AnnounceSplit, HasFile, queues, store
    <2>2. FilesInv'
      BY <1>1, <1>7, AnnounceSplitKeeps
    <2>3. Empty => Empty'
      BY <2>1 DEF Empty
    <2>4. QED
      BY <2>1, <2>2, <2>3, FileStepInv
  <1>8. QED
    BY <1>3, <1>4, <1>5, <1>6, <1>7, <1>9

(* A thread ends. *)
LEMMA ThreadEndsInv ==
    ASSUME IInv, NEW t \in Threads, ThreadEnds(t)
    PROVE  IInv'
  <1>1. TypeOK /\ Joins /\ OneMode /\ FilesInv
    BY Parts DEF IInv
  <1>2. /\ thread[t].at = "wait" /\ Empty /\ ~compression_is_running /\ Goes(t, "ended", 0)
        /\ UNCHANGED <<options, compressor_message_queue, compressor_file_queue, compression_is_running, caller,
                       message, written, files, paths, disk, content, lost, announced>>
    BY DEF ThreadEnds, Waiting, queues, store
  <1>3. /\ Threads' = Threads /\ thread' \in [Threads -> [at : Places, item : Nat]]
        /\ thread'[t].at = "ended" /\ \A u \in Threads : u # t => thread'[u] = thread[u]
    BY <1>1, <1>2, ThreadGoes DEF Places
  <1>4. FilesInv'
    <2>1. FileThreadsStay
      BY <1>2, <1>3 DEF FileThreadsStay, HasFile
    <2>2. QED
      BY <1>1, <1>2, <2>1, FilesStay
  <1>5. TypeOK'
    BY <1>1, <1>2, <1>3, <1>4, OtherTypes DEF TypeOK
  <1>6. Joins'
    <2>1. Empty' /\ ByFile' = ByFile
      BY <1>2, SameOptions DEF Empty
    <2>2. QED
      BY <1>1, <1>2, <1>3, <2>1 DEF Joins
  <1>7. OneMode'
    <2>1. ByFile' = ByFile
      BY <1>2, SameOptions
    <2>2. \A u \in Threads : (HasMessage(u)' => HasMessage(u)) /\ (HasFile(u)' => HasFile(u))
      BY <1>3 DEF HasMessage, HasFile
    <2>3. QED
      BY <1>1, <1>2, <1>3, <2>1, <2>2 DEF OneMode
  <1>8. options'.queue_size = 0 => MessagesOnce'
    <2>1. MessageThreadsStay /\ WithCall' = WithCall
      BY <1>2, <1>3 DEF MessageThreadsStay, HasMessage, WithCall
    <2>2. QED
      BY <1>2, <2>1, MessagesStay DEF IInv
  <1>9. QED
    BY <1>4, <1>5, <1>6, <1>7, <1>8, Parts

(* The steps of close(). *)
LEMMA CloseInv ==
    ASSUME IInv, CloseBegins \/ Joined \/ CompressLast \/ BaseClose
    PROVE  IInv'
  <1>1. TypeOK /\ Joins /\ OneMode /\ FilesInv
    BY Parts DEF IInv
  <1>2. /\ UNCHANGED <<options, compressor_message_queue, compressor_file_queue, thread, message, written,
                       content, lost>>
        /\ caller \in {"idle", "joining", "compress", "base"}
        /\ caller' \in {"joining", "compress", "base", "closed"}
    BY DEF CloseBegins, Joined, CompressLast, BaseClose, queues, store
  <1>3. FilesInv'
    <2>1. CASE CloseBegins
      <3>1. UNCHANGED <<files, paths, disk, announced>> /\ caller = "idle" /\ caller' = "joining"
        BY <2>1 DEF CloseBegins, store
      <3>2. QED
        BY <1>1, <1>2, <3>1, FilesStay DEF FileThreadsStay, HasFile
    <2>2. CASE Joined
      <3>1. UNCHANGED <<files, paths, disk, announced>> /\ caller = "joining" /\ caller' \in {"compress", "base"}
        BY <2>2 DEF Joined, store
      <3>2. QED
        BY <1>1, <1>2, <3>1, FilesStay DEF FileThreadsStay, HasFile
    <2>3. CASE CompressLast
      BY <1>1, <2>3, CompressLastKeeps
    <2>4. CASE BaseClose
      BY <1>1, <2>4, BaseCloseKeeps
    <2>5. QED
      BY <2>1, <2>2, <2>3, <2>4
  <1>4. compression_is_running' = FALSE
    BY <1>1 DEF CloseBegins, Joined, CompressLast, BaseClose, Joins, TypeOK, queues
  <1>5. TypeOK'
    <2>1. thread' \in [Threads -> [at : Places, item : Nat]]
      BY <1>1, <1>2 DEF TypeOK, Places
    <2>2. QED
      BY <1>1, <1>2, <1>3, <1>4, <2>1, OtherTypes DEF TypeOK
  <1>6. Threads' = Threads /\ ByFile' = ByFile /\ Empty' = Empty
    BY <1>2, SameOptions DEF Empty
  <1>7. Joins'
    <2>1. CASE CloseBegins
      <3>1. caller = "idle" /\ caller' = "joining"
        BY <2>1 DEF CloseBegins
      <3>2. QED
        BY <1>1, <1>2, <1>4, <1>6, <3>1 DEF Joins
    <2>2. CASE Joined
      <3>1. caller' = IF ByFile THEN "compress" ELSE "base"
        BY <2>2 DEF Joined
      <3>2. \A t \in Threads : thread[t].at = "ended"
        BY <2>2 DEF Joined
      <3>3. QED
        BY <1>1, <1>2, <1>4, <1>6, <3>1, <3>2 DEF Joins
    <2>3. CASE CompressLast
      <3>1. caller = "compress" /\ caller' = "base"
        BY <2>3 DEF CompressLast
      <3>2. QED
        BY <1>1, <1>2, <1>4, <1>6, <3>1 DEF Joins
    <2>4. CASE BaseClose
      <3>1. caller = "base" /\ caller' = "closed"
        BY <2>4 DEF BaseClose
      <3>2. QED
        BY <1>1, <1>2, <1>4, <1>6, <3>1 DEF Joins
    <2>5. QED
      BY <2>1, <2>2, <2>3, <2>4
  <1>8. OneMode'
    BY <1>1, <1>2, <1>6 DEF OneMode, HasMessage, HasFile
  <1>9. options'.queue_size = 0 => MessagesOnce'
    <2>1. MessageThreadsStay /\ WithCall' = WithCall
      BY <1>2 DEF MessageThreadsStay, HasMessage, WithCall
    <2>2. QED
      BY <1>2, <2>1, MessagesStay DEF IInv
  <1>10. QED
    BY <1>3, <1>5, <1>7, <1>8, <1>9, Parts

(* A step that leaves all of it alone, as that of a thread that throws. *)
LEMMA IInvStays ==
    ASSUME IInv, UNCHANGED <<options, queues, thread, caller, message, written, store, lost, announced>>
    PROVE  IInv'
  <1>1. TypeOK /\ Joins /\ OneMode /\ FilesInv
    BY Parts DEF IInv
  <1>2. UNCHANGED <<options, compressor_message_queue, compressor_file_queue, compression_is_running,
                    thread, caller, message, written, files, paths, disk, content, lost, announced>>
    BY DEF queues, store
  <1>3. FilesInv'
    BY <1>1, <1>2, FilesStay DEF FileThreadsStay, HasFile
  <1>4. Threads' = Threads /\ ByFile' = ByFile /\ Empty' = Empty
    BY <1>2, SameOptions DEF Empty
  <1>5. Joins' /\ OneMode'
    BY <1>1, <1>2, <1>4 DEF Joins, OneMode, HasMessage, HasFile
  <1>6. TypeOK'
    BY <1>1, <1>2, <1>4 DEF TypeOK
  <1>7. options'.queue_size = 0 => MessagesOnce'
    BY <1>2, MessagesStay DEF IInv, MessageThreadsStay, HasMessage, WithCall
  <1>8. QED
    BY <1>3, <1>5, <1>6, <1>7, Parts

(* Every step keeps the invariant. *)
LEMMA NextInv ==
    ASSUME IInv, [Next]_vars
    PROVE  IInv'
  <1>1. CASE Call
    BY <1>1, WriteToFileInv, WriteToQueueInv, CloseInv DEF Call
  <1>2. CASE Work
    <2>1. ASSUME NEW t \in Threads,
                 TakeMessage(t) \/ TakeFile(t) \/ ThreadEnds(t) \/ WriteCompressed(t)
                   \/ CompressFile(t) \/ CompressUri(t) \/ RenameFile(t) \/ RemoveFile(t) \/ AnnounceSplit(t)
          PROVE  IInv'
      BY <2>1, TakeMessageInv, ThreadEndsInv, WriteCompressedInv, FilesInvIsKept
    <2>2. CASE WriteGoesOn
      BY <2>2, WriteGoesOnInv
    <2>3. CASE Joined \/ CompressLast \/ BaseClose
      BY <2>3, CloseInv
    <2>4. ASSUME NEW t \in Threads, CompressorThrows(t)
          PROVE  IInv'
      BY <2>4, IInvStays DEF CompressorThrows
    <2>5. QED
      BY <1>2, <2>1, <2>2, <2>3, <2>4 DEF Work, GoesOn
  <1>3. CASE UNCHANGED vars
    BY <1>3, IInvStays DEF vars
  <1>4. QED
    BY <1>1, <1>2, <1>3 DEF Next

(* A file that is still to be compressed is there unless the bag keeps only so many: it
   is in the list under the name it was written with. *)
LEMMA FileIsThere ==
    ASSUME IInv, options.max_bag_files = 0, NEW t \in Threads, thread[t].at = "open"
    PROVE  Plain(thread[t].item) \in disk
  <1> DEFINE n == thread[t].item
  <1>1. TypeOK /\ Joins /\ OneMode /\ FilesAreListed /\ ClosedFiles /\ Names
    BY DEF IInv
  <1>2. ByFile /\ caller \notin {"compress", "base", "closed"} /\ n \in Closed
    BY <1>1, FileThreadMeans DEF HasFile
  <1>3. Len(content) \in Nat \ {0}
    BY <1>1, ListOfFiles
  <1>4. n \in 1 .. Len(content)
    <2>1. Closed = 1 .. Len(content) - 1
      BY <1>2 DEF Closed
    <2> HIDE DEF n
    <2>2. QED
      BY <1>2, <1>3, <2>1
  <1>5. n \in DOMAIN paths /\ paths[n][1] = n
    BY <1>1, <1>2, <1>4, AllAreListed DEF NamesAreExact
  <1>6. n \notin Compressed
    BY <1>1, NotYetCompressed
  <1>7. paths[n] = Plain(n)
    BY <1>1, <1>2, <1>5, <1>6 DEF Names, ListedByName, NameOf
  <1>8. QED
    BY <1>1, <1>5, <1>7 DEF Names, ListedIsThere, Range

(* No step ends the process but one of a thread whose file was deleted. *)
LEMMA EndedByDeletionKept ==
    ASSUME IInv, EndedByDeletion, [Next]_vars
    PROVE  EndedByDeletion'
  <1>1. CASE UNCHANGED <<options, crashed>>
    BY <1>1 DEF EndedByDeletion, ByFile
  <1>2. ASSUME NEW t \in Threads, CompressorThrows(t)
        PROVE  EndedByDeletion'
    <2>1. /\ thread[t].at = "open" /\ Plain(thread[t].item) \notin disk /\ options' = options
      BY <1>2 DEF CompressorThrows
    <2>2. options.max_bag_files # 0
      BY <2>1, FileIsThere
    <2>3. options.max_bag_files \in Nat
      BY CompressionAssumption DEF IInv, TypeOK
    <2>4. ByFile
      BY <2>1 DEF IInv, OneMode, HasFile
    <2>5. QED
      BY <2>1, <2>2, <2>3, <2>4 DEF EndedByDeletion, ByFile
  <1>3. ASSUME UNCHANGED crashed, Call \/ GoesOn
        PROVE  UNCHANGED options
    BY <1>3 DEF Call, GoesOn, WriteToFile, WriteToQueue, CloseBegins, TakeMessage, TakeFile, ThreadEnds,
       WriteCompressed, CompressFile, CompressUri, RenameFile, RemoveFile, AnnounceSplit, WriteGoesOn,
       Joined, CompressLast, BaseClose
  <1>4. QED
    BY <1>1, <1>2, <1>3 DEF Next, Call, Work, vars

(* The inductive invariant: each closed file and each message is in one place,  *)
(* the list and the directory agree on which files are compressed, the threads  *)
(* that have ended left nothing behind, and only a thread whose file was          *)
(* deleted before it was read has ended the process                              *)
(* (compression_thread_fn() and close(), sequential_compression_writer.cpp:71, 264). *)
THEOREM Invariance == Spec => [](IInv /\ EndedByDeletion)
  <1>1. Init => IInv /\ EndedByDeletion
    BY InitInv DEF Init, EndedByDeletion
  <1>2. IInv /\ EndedByDeletion /\ [Next]_vars => (IInv /\ EndedByDeletion)'
    BY NextInv, EndedByDeletionKept
  <1>3. QED
    BY <1>1, <1>2, PTL DEF Spec

-----------------------------------------------------------------------------
(* What a closed bag holds. *)
LEMMA ClosedBag ==
    ASSUME IInv, caller = "closed", options.queue_size = 0
    PROVE  /\ UNION Range(content) = 1 .. written
           /\ \A i, j \in DOMAIN content : i # j => content[i] \cap content[j] = {}
           /\ Range(paths) \subseteq disk /\ (NamesAreExact => disk = Range(paths))
           /\ ByFile => \A i \in 1 .. Len(paths) - 1 : paths[i][2]
  <1>1. TypeOK /\ Joins /\ OneMode /\ FilesAreListed /\ ClosedFiles /\ Names /\ MessagesOnce
    BY DEF IInv
  <1>2. \A t \in Threads : thread[t].at = "ended"
    BY <1>1 DEF Joins
  <1>3. compressor_message_queue = << >> /\ compressor_file_queue = << >>
    <2>1. options.threads \in Nat \ {0}
      BY <1>1, CompressionAssumption DEF TypeOK
    <2>2. 1 \in Threads
      BY <2>1 DEF Threads
    <2>3. QED
      BY <1>1, <1>2, <2>2 DEF Joins, Empty
  <1>4. UNION Range(content) = 1 .. written
    <2>1. Range(compressor_message_queue) = {} /\ WithCall = {} /\ MessageThreads = {}
      BY <1>2, <1>3 DEF Range, WithCall, MessageThreads, HasMessage
    <2>2. QED
      BY <1>1, <2>1 DEF MessagesOnce, EachOnce
  <1>5. \A i, j \in DOMAIN content : i # j => content[i] \cap content[j] = {}
    BY <1>1 DEF MessagesOnce
  <1>6. HeldBack = {} /\ FileThreads = {}
    BY <1>2 DEF HeldBack, FileThreads, HasFile
  <1>7. Range(paths) \subseteq disk /\ (NamesAreExact => disk = Range(paths))
    BY <1>1, <1>6 DEF Names, ListedIsThere, NoOtherFiles
  <1>8. ASSUME ByFile, NEW i \in 1 .. Len(paths) - 1
        PROVE  paths[i][2]
    <2>1. /\ Len(content) \in Nat \ {0} /\ Len(files) \in 1 .. Len(content) /\ Len(paths) = Len(files)
          /\ DOMAIN paths = 1 .. Len(files)
          /\ \A j \in 1 .. Len(files) : files[j] = Len(content) - Len(files) + j /\ paths[j][1] = files[j]
      BY <1>1, ListOfFiles
    <2>2. i \in 1 .. Len(files) /\ i < Len(paths)
      BY <1>8, <2>1
    <2>3. paths[i][1] \in 1 .. Len(content)
      BY <2>1, <2>2
    <2>4. Range(Reports) = 1 .. Len(content)
      <3>1. Closed = 1 .. Len(content) /\ Range(compressor_file_queue) = {}
        BY <1>3 DEF Closed, Range
      <3>2. QED
        BY <1>1, <1>6, <3>1 DEF ClosedFiles, EachOnce
    <2>5. paths[i] = NameOf(paths[i][1])
      BY <1>1, <2>1, <2>2 DEF Names, ListedByName
    <2>6. paths[i] = Zstd(paths[i][1])
      BY <1>8, <2>3, <2>4, <2>5 DEF NameOf, Compressed
    <2>7. QED
      BY <2>6, NamesMean
  <1>9. QED
    BY <1>4, <1>5, <1>7, <1>8

(* After close(), every message is in one file, the list names the files of the *)
(* directory and all but the last are compressed                               *)
(* (SequentialCompressionWriter::close(), sequential_compression_writer.cpp:264). *)
THEOREM BagSafety == Spec => []ClosedBagIsComplete
  <1>1. IInv => ClosedBagIsComplete
    BY ClosedBag DEF ClosedBagIsComplete
  <1>2. QED
    BY <1>1, Invariance, PTL

(* A file is announced as closed only once, the name of it is that of a file of *)
(* the directory, and the one announced as opened is the next                  *)
(* (the callbacks of compression_thread_fn(), sequential_compression_writer.cpp:71). *)
THEOREM SplitsSafety == Spec => []SplitsAnnouncedOnce
  <1>1. IInv => SplitsAnnouncedOnce
    <2>1. SUFFICES ASSUME IInv
                   PROVE  SplitsAnnouncedOnce
      OBVIOUS
    <2>2. TypeOK /\ FilesAreListed /\ OneMode /\ ClosedFiles /\ Names /\ NextIsNamed
      BY <2>1 DEF IInv
    <2>3. \A i, j \in DOMAIN announced : i # j => announced[i][1][1] # announced[j][1][1]
      BY <2>2 DEF ClosedFiles, IsInjective, Reports
    <2>4. ASSUME options.max_bag_files = 0, NEW i \in DOMAIN announced
          PROVE  announced[i][1] \in disk
      <3> DEFINE name == announced[i][1]
                 n == name[1]
      <3>1. /\ Len(content) \in Nat \ {0} /\ Len(files) = Len(content) /\ DOMAIN paths = 1 .. Len(files)
            /\ Len(paths) = Len(files) /\ Last(paths) = paths[Len(files)]
            /\ \A k \in 1 .. Len(files) : files[k] = Len(content) - Len(files) + k /\ paths[k][1] = files[k]
        BY <2>2, <2>4, ListOfFiles DEF FilesAreListed
      <3>2. n \in Range(Reports) /\ n \in Closed
        BY <2>2 DEF Reports, Range, ClosedFiles, EachOnce
      <3>3. n \in 1 .. Len(content) /\ (caller # "closed" => n # Len(content))
        BY <3>1, <3>2 DEF Closed
      <3>4. name = IF caller = "closed" /\ n = Len(content) THEN Last(paths)
                   ELSE IF ByFile THEN Zstd(n) ELSE Plain(n)
        BY <2>2, <2>4 DEF Names, AnnouncedByName
      <3>5. n \in DOMAIN paths /\ paths[n][1] = n
        <4> HIDE DEF n
        <4>1. Len(content) - Len(content) + n = n
          BY <3>1, <3>3
        <4>2. QED
          BY <3>1, <3>3, <4>1
      <3>6. paths[n] = name
        <4>1. CASE caller = "closed" /\ n = Len(content)
          BY <3>1, <3>4, <4>1
        <4>2. CASE ~(caller = "closed" /\ n = Len(content))
          <5>1. n < Len(paths) \/ caller \notin {"base", "closed"}
            BY <3>1, <3>3, <4>2
          <5>2. paths[n] = NameOf(n)
            BY <2>2, <3>5, <5>1 DEF Names, ListedByName
          <5>3. NameOf(n) = IF ByFile THEN Zstd(n) ELSE Plain(n)
            <6>1. ByFile => n \in Compressed
              BY <3>2 DEF Compressed
            <6>2. ~ByFile => Compressed = {}
              BY <2>2 DEF Compressed, OneMode, HasFile
            <6>3. QED
              BY <6>1, <6>2 DEF NameOf
          <5>4. QED
            BY <3>4, <4>2, <5>2, <5>3
        <4>3. QED
          BY <4>1, <4>2
      <3>7. QED
        BY <2>2, <3>5, <3>6 DEF Names, ListedIsThere, Range
    <2>5. QED
      BY <2>2, <2>3, <2>4 DEF SplitsAnnouncedOnce, NextIsNamed
  <1>2. QED
    BY <1>1, Invariance, PTL
=============================================================================
