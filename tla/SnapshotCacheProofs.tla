------------------------ MODULE SnapshotCacheProofs ------------------------
(***************************************************************************)
(* Proofs about SnapshotCache, for any messages, limits and number of       *)
(* snapshots: the circular buffer is a window on what was accepted, and a   *)
(* snapshot writes that window.                                             *)
(***************************************************************************)
EXTENDS SnapshotCache, SumTheorems

-----------------------------------------------------------------------------
(* Suffixes.                                                               *)

(* s is the end of t. *)
Ends(s, t) ==
    /\ Len(s) <= Len(t)
    /\ \A i \in 1..Len(s) : s[i] = t[(Len(t) - Len(s)) + i]

(* The definition by reversed sequences says so. *)
LEMMA SuffixMeans ==
    ASSUME NEW S, NEW s \in Seq(S), NEW t \in Seq(S), Ends(s, t)
    PROVE  IsSuffix(s, t)
  <1> DEFINE n == Len(s)
             r == Len(t)
             u == Reverse(s)
             v == Reverse(t)
  <1>1. n \in Nat /\ r \in Nat /\ n <= r
    BY DEF Ends
  <1>2. /\ u = [i \in 1..n |-> s[(n - i) + 1]] /\ v = [i \in 1..r |-> t[(r - i) + 1]]
    BY DEF Reverse
  <1>3. \A i \in 1..n : (n - i) + 1 \in 1..n
    BY <1>1
  <1>4. \A i \in 1..r : (r - i) + 1 \in 1..r
    BY <1>1
  <1>5. \A i \in 1..n : s[i] \in S
    BY ElementOfSeq
  <1>6. \A i \in 1..r : t[i] \in S
    BY ElementOfSeq
  <1>7. u \in [1..n -> S] /\ v \in [1..r -> S]
    BY <1>2, <1>3, <1>4, <1>5, <1>6
  <1>8. u \in Seq(S) /\ v \in Seq(S) /\ Len(u) = n /\ Len(v) = r
    BY <1>1, <1>7, FunctionIsSeq
  <1>9. \A i \in 1..n : u[i] = v[i]
    <2> SUFFICES ASSUME NEW i \in 1..n
                 PROVE  s[(n - i) + 1] = t[(r - i) + 1]
      BY <1>1, <1>2
    <2>1. s[(n - i) + 1] = t[(r - n) + ((n - i) + 1)]
      BY <1>3 DEF Ends
    <2>2. (r - n) + ((n - i) + 1) = (r - i) + 1
      BY <1>1
    <2>3. QED
      BY <2>1, <2>2
  <1> HIDE DEF u, v
  <1>10. SubSeq(u, 1, n) = [i \in 1..n |-> u[i]] /\ SubSeq(v, 1, n) = [i \in 1..n |-> v[i]]
    BY <1>1, <1>8
  <1>11. SubSeq(u, 1, n) = SubSeq(v, 1, n)
    BY <1>9, <1>10
  <1>12. QED
    BY <1>1, <1>8, <1>11 DEF IsSuffix, IsPrefix, u, v

(* Without its oldest messages a suffix is one. *)
LEMMA WithoutEnds ==
    ASSUME NEW S, NEW s \in Seq(S), NEW t \in Seq(S), Ends(s, t), NEW k \in 0..Len(s)
    PROVE  /\ Without(s, k) \in Seq(S)
           /\ Len(Without(s, k)) = Len(s) - k
           /\ \A i \in 1..(Len(s) - k) : Without(s, k)[i] = s[k + i]
           /\ Ends(Without(s, k), t)
  <1> DEFINE n == Len(s)
             r == Len(t)
             w == Without(s, k)
  <1>1. n \in Nat /\ r \in Nat /\ k \in Nat /\ k <= n
    OBVIOUS
  <1>2. /\ w \in Seq(S) /\ Len(w) = n - k
        /\ \A i \in 1..(n - k) : w[i] = s[k + i]
    <2>1. \A i \in (k + 1)..n : s[i] \in S
      BY <1>1, ElementOfSeq
    <2>2. /\ SubSeq(s, k + 1, n) \in Seq(S)
          /\ Len(SubSeq(s, k + 1, n)) = IF k + 1 <= n THEN n - (k + 1) + 1 ELSE 0
          /\ \A i \in 1..(n - (k + 1) + 1) : SubSeq(s, k + 1, n)[i] = s[(k + 1) + i - 1]
      BY <1>1, <2>1, SubSeqProperties
    <2>3. n - (k + 1) + 1 = n - k /\ (IF k + 1 <= n THEN n - (k + 1) + 1 ELSE 0) = n - k
      BY <1>1
    <2>4. \A i \in 1..(n - k) : (k + 1) + i - 1 = k + i
      BY <1>1
    <2>5. QED
      BY <2>2, <2>3, <2>4 DEF Without
  <1> HIDE DEF w
  <1>3. ASSUME NEW i \in 1..(n - k)
        PROVE  w[i] = t[(r - (n - k)) + i]
    <2>1. k + i \in 1..n /\ (r - n) + (k + i) = (r - (n - k)) + i
      BY <1>1
    <2>2. s[k + i] = t[(r - n) + (k + i)]
      BY <2>1 DEF Ends
    <2>3. QED
      BY <1>2, <2>1, <2>2
  <1>4. n - k <= r
    BY <1>1 DEF Ends
  <1>5. Ends(w, t)
    BY <1>2, <1>3, <1>4 DEF Ends
  <1>6. QED
    BY <1>2, <1>5 DEF w

(* Both grow by the same message. *)
LEMMA AppendEnds ==
    ASSUME NEW S, NEW s \in Seq(S), NEW t \in Seq(S), NEW x \in S, Ends(s, t)
    PROVE  Ends(Append(s, x), Append(t, x))
  <1> DEFINE n == Len(s)
             r == Len(t)
             a == Append(s, x)
             b == Append(t, x)
  <1>1. /\ n \in Nat /\ r \in Nat /\ Len(a) = n + 1 /\ Len(b) = r + 1
        /\ a[n + 1] = x /\ b[r + 1] = x
        /\ \A i \in 1..n : a[i] = s[i]
        /\ \A i \in 1..r : b[i] = t[i]
    BY AppendProperties
  <1> HIDE DEF a, b
  <1>2. n <= r
    BY DEF Ends
  <1>3. ASSUME NEW i \in 1..(n + 1)
        PROVE  a[i] = b[((r + 1) - (n + 1)) + i]
    <2>1. CASE i = n + 1
      <3>1. ((r + 1) - (n + 1)) + i = r + 1
        BY <1>1, <2>1
      <3>2. QED
        BY <1>1, <2>1, <3>1
    <2>2. CASE i \in 1..n
      <3>1. ((r + 1) - (n + 1)) + i = (r - n) + i /\ (r - n) + i \in 1..r
        BY <1>1, <1>2, <2>2
      <3>2. s[i] = t[(r - n) + i]
        BY <2>2 DEF Ends
      <3>3. QED
        BY <1>1, <2>2, <3>1, <3>2
    <2>3. QED
      BY <1>1, <2>1, <2>2
  <1>4. Ends(a, b)
    <2>1. Len(a) <= Len(b)
      BY <1>1, <1>2
    <2>2. \A i \in 1..Len(a) : a[i] = b[(Len(b) - Len(a)) + i]
      BY <1>1, <1>3
    <2>3. QED
      BY <2>1, <2>2 DEF Ends
  <1>5. QED
    BY <1>4 DEF a, b

-----------------------------------------------------------------------------
(* What push() does to the circular buffer.                                *)

(* The messages of a buffer as records with a size. *)
LEMMA Sized ==
    ASSUME NEW d \in Seq(Message)
    PROVE  /\ Len(d) \in Nat /\ DOMAIN d = 1..Len(d)
           /\ \A i \in 1..Len(d) : d[i]["buffer_length"] \in Nat
           /\ Measured(d, Len(d), "buffer_length")
  <1>1. Len(d) \in Nat /\ DOMAIN d = 1..Len(d)
    BY LenProperties
  <1>2. \A x \in Message : x["buffer_length"] \in Nat
    BY BoundsAssumption DEF Message
  <1>3. \A i \in 1..Len(d) : d[i] \in Message
    BY ElementOfSeq
  <1>4. QED
    BY <1>1, <1>2, <1>3 DEF Measured

(* The bytes of a buffer as a sum over a field of its messages. *)
LEMMA BytesIsSum == \A d : Bytes(d) = SumOver(d, "buffer_length")
  BY DEF Bytes, SumOver

(* They are a number. *)
LEMMA BytesType ==
    ASSUME NEW d \in Seq(Message)
    PROVE  Bytes(d) \in Nat
  <1>1. PICK k \in Nat : k = Len(d)
    BY Sized
  <1>2. DOMAIN d = 1..k /\ \A i \in 1..k : d[i]["buffer_length"] \in Nat
    BY <1>1, Sized
  <1>3. SumOver(d, "buffer_length") \in Nat
    BY <1>2, SumOverNat
  <1>4. QED
    BY <1>3, BytesIsSum

(* An empty buffer has none. *)
LEMMA BytesOfEmpty == Bytes(<<>>) = 0
  <1>1. Measured(<<>>, 0, "buffer_length")
    BY DEF Measured
  <1>2. QED
    BY <1>1, SumOverEmpty, BytesIsSum

(* A message adds its own. *)
LEMMA BytesOfAppend ==
    ASSUME NEW d \in Seq(Message), NEW m \in Message
    PROVE  Bytes(Append(d, m)) = Bytes(d) + m.buffer_length
  <1> DEFINE more == Append(d, m)
             n == Len(d)
             key == "buffer_length"
  <1>1. /\ n \in Nat /\ more \in Seq(Message) /\ Len(more) = n + 1
        /\ more[n + 1] = m /\ \A i \in 1..n : more[i] = d[i]
    BY AppendProperties
  <1>2. m[key] = m.buffer_length
    BY DEF Message
  <1> HIDE DEF more
  <1>3. Measured(d, n, key) /\ Measured(more, n + 1, key)
    BY <1>1, Sized
  <1>4. OneMore(d, n, more)
    BY <1>1 DEF OneMore
  <1> HIDE DEF key, n
  <1>5. SumOver(more, key) = SumOver(d, key) + more[n + 1][key]
    <2>1. n \in Nat
      BY <1>1
    <2>2. QED
      BY <1>3, <1>4, <2>1, SumOverAppend
  <1>6. QED
    BY <1>1, <1>2, <1>5, BytesIsSum DEF more, key

(* Evicting makes a buffer no larger. *)
LEMMA BytesOfWithout ==
    ASSUME NEW d \in Seq(Message), NEW k \in 0..Len(d)
    PROVE  Bytes(Without(d, k)) <= Bytes(d)
  <1> DEFINE n == Len(d)
             old == SubSeq(d, 1, k)
             rest == Without(d, k)
             key == "buffer_length"
  <1>1. n \in Nat /\ k \in Nat /\ k <= n /\ k + (n - k) = n /\ n - k \in Nat
    OBVIOUS
  <1>2. /\ rest \in Seq(Message) /\ Len(rest) = n - k
        /\ \A i \in 1..(n - k) : rest[i] = d[k + i]
    <2>1. Ends(d, d)
      BY <1>1 DEF Ends
    <2>2. QED
      BY <2>1, WithoutEnds
  <1>3. /\ old \in Seq(Message) /\ Len(old) = k
        /\ \A i \in 1..k : old[i] = d[i]
    <2>1. \A i \in 1..k : d[i] \in Message
      BY <1>1, ElementOfSeq
    <2>2. /\ old \in Seq(Message)
          /\ Len(old) = IF 1 <= k THEN k - 1 + 1 ELSE 0
          /\ \A i \in 1..(k - 1 + 1) : old[i] = d[1 + i - 1]
      BY <1>1, <2>1, SubSeqProperties
    <2>3. k - 1 + 1 = k /\ \A i \in 1..k : 1 + i - 1 = i
      BY <1>1
    <2>4. QED
      BY <1>1, <2>2, <2>3
  <1> HIDE DEF old, rest
  <1>4. Measured(old, k, key) /\ Measured(rest, n - k, key) /\ Measured(d, k + (n - k), key)
    <2>1. Measured(old, Len(old), key) /\ Measured(rest, Len(rest), key) /\ Measured(d, n, key)
      BY <1>2, <1>3, Sized
    <2>2. QED
      BY <1>1, <1>2, <1>3, <2>1
  <1>5. Joined(old, k, rest, n - k, d)
    BY <1>2, <1>3 DEF Joined
  <1>6. SumOver(d, key) = SumOver(old, key) + SumOver(rest, key)
    <2>1. PICK j \in Nat : j = n - k
      BY <1>1
    <2>2. MeasuredParts(old, k, rest, j, d, key)
      BY <1>1, <1>4, <1>5, <2>1 DEF MeasuredParts
    <2>3. QED
      BY <2>2, SumOverConcat
  <1>7. SumOver(old, key) \in Nat /\ SumOver(rest, key) \in Nat
    BY <1>2, <1>3, BytesType, BytesIsSum
  <1>8. QED
    BY <1>6, <1>7, BytesIsSum DEF rest

(* A buffer of the newest accepted messages, within the size limit. *)
Window(d, t) == Ends(d, t) /\ (MaxBytes > 0 => Bytes(d) <= MaxBytes)

(* One that is still within it when m is added. *)
Room(d, t, m) == Ends(d, t) /\ (MaxBytes > 0 => Bytes(d) + m.buffer_length <= MaxBytes)

(* Evicting the oldest messages makes no problem. *)
LEMMA WithoutWindow ==
    ASSUME NEW d \in Seq(Message), NEW t \in Seq(Message), NEW k \in 0..Len(d), Window(d, t)
    PROVE  Without(d, k) \in Seq(Message) /\ Window(Without(d, k), t)
  <1>1. Without(d, k) \in Seq(Message) /\ Ends(Without(d, k), t)
    BY WithoutEnds DEF Window
  <1>2. Bytes(Without(d, k)) \in Nat /\ Bytes(d) \in Nat /\ Bytes(Without(d, k)) <= Bytes(d)
    BY <1>1, BytesType, BytesOfWithout
  <1>3. MaxBytes > 0 => Bytes(Without(d, k)) <= MaxBytes
    BY <1>2, BoundsAssumption DEF Window
  <1>4. QED
    BY <1>1, <1>3 DEF Window

(* Nor for the message to come. *)
LEMMA WithoutRoom ==
    ASSUME NEW d \in Seq(Message), NEW t \in Seq(Message), NEW k \in 0..Len(d),
           NEW m \in Message, Room(d, t, m)
    PROVE  Without(d, k) \in Seq(Message) /\ Room(Without(d, k), t, m)
  <1>1. Without(d, k) \in Seq(Message) /\ Ends(Without(d, k), t)
    BY WithoutEnds DEF Room
  <1>2. Bytes(Without(d, k)) \in Nat /\ Bytes(d) \in Nat /\ Bytes(Without(d, k)) <= Bytes(d)
    BY <1>1, BytesType, BytesOfWithout
  <1>3. m.buffer_length \in Nat
    BY BoundsAssumption DEF Message
  <1>4. MaxBytes > 0 => Bytes(Without(d, k)) + m.buffer_length <= MaxBytes
    BY <1>2, <1>3, BoundsAssumption DEF Room
  <1>5. QED
    BY <1>1, <1>4 DEF Room

(* The eviction for size makes room for a message that is not too large. *)
LEMMA SizeMakesRoom ==
    ASSUME NEW d \in Seq(Message), NEW t \in Seq(Message), NEW m \in Message,
           Window(d, t), ~TooLarge(m)
    PROVE  /\ EvictForSize(d, m) \in Seq(Message)
           /\ Window(EvictForSize(d, m), t)
           /\ Room(EvictForSize(d, m), t, m)
  <1>1. CASE MaxBytes = 0
    BY <1>1 DEF EvictForSize, Window, Room
  <1>2. CASE MaxBytes # 0
    <2> DEFINE fits == {n \in 0..Len(d) : Bytes(Without(d, n)) + m.buffer_length <= MaxBytes}
               k == Min(fits)
    <2>1. MaxBytes \in Nat /\ MaxBytes > 0 /\ m.buffer_length \in Nat /\ m.buffer_length <= MaxBytes
      <3>1. m.buffer_length \in Nat
        BY BoundsAssumption DEF Message
      <3>2. MaxBytes \in Nat /\ MaxBytes > 0
        BY <1>2, BoundsAssumption
      <3>3. ~(m.buffer_length > MaxBytes)
        BY <3>2 DEF TooLarge
      <3>4. QED
        BY <3>1, <3>2, <3>3
    <2>2. Len(d) \in fits
      <3>1. Len(d) \in 0..Len(d)
        BY LenProperties
      <3>2. Without(d, Len(d)) = <<>>
        BY <3>1 DEF Without
      <3>3. QED
        BY <2>1, <3>1, <3>2, BytesOfEmpty
    <2>3. fits \in SUBSET Nat
      OBVIOUS
    <2>4. \E x \in fits : \A y \in fits : x <= y
      <3> HIDE DEF fits
      <3>1. QED
        BY <2>2, <2>3, LeastOf
    <2>5. k \in fits
      <3> HIDE DEF fits
      <3>1. QED
        BY <2>4 DEF Min
    <2>6. EvictForSize(d, m) = Without(d, k)
      BY <1>2 DEF EvictForSize
    <2>7. k \in 0..Len(d) /\ Bytes(Without(d, k)) + m.buffer_length <= MaxBytes
      <3> HIDE DEF k
      <3>1. QED
        BY <2>5
    <2> HIDE DEF k, fits
    <2>8. Without(d, k) \in Seq(Message) /\ Window(Without(d, k), t)
      BY <2>7, WithoutWindow
    <2>9. Room(Without(d, k), t, m)
      BY <2>7, <2>8 DEF Room, Window
    <2>10. QED
      BY <2>6, <2>8, <2>9
  <1>3. QED
    BY <1>1, <1>2

(* The eviction for time leaves it. *)
LEMMA TimeLeavesRoom ==
    ASSUME NEW d \in Seq(Message), NEW t \in Seq(Message), NEW m \in Message, Room(d, t, m)
    PROVE  EvictForTime(d, m) \in Seq(Message) /\ Room(EvictForTime(d, m), t, m)
  <1>1. CASE MaxDuration = 0
    BY <1>1 DEF EvictForTime
  <1>2. CASE MaxDuration # 0
    <2> DEFINE near == {n \in 0..Len(d) :
                           n < Len(d) => m.recv_timestamp - d[n + 1].recv_timestamp \in 0..MaxDuration}
               k == Min(near)
    <2>1. Len(d) \in near
      BY LenProperties
    <2>2. near \in SUBSET Nat
      OBVIOUS
    <2>3. \E x \in near : \A y \in near : x <= y
      <3> HIDE DEF near
      <3>1. QED
        BY <2>1, <2>2, LeastOf
    <2>4. k \in near
      <3> HIDE DEF near
      <3>1. QED
        BY <2>3 DEF Min
    <2>5. EvictForTime(d, m) = Without(d, k)
      BY <1>2 DEF EvictForTime
    <2>6. k \in 0..Len(d)
      <3> HIDE DEF k
      <3>1. QED
        BY <2>4
    <2> HIDE DEF k, near
    <2>7. QED
      BY <2>5, <2>6, WithoutRoom
  <1>3. QED
    BY <1>1, <1>2

(* push() keeps the window on what is accepted. *)
LEMMA PushKeepsWindow ==
    ASSUME NEW d \in Seq(Message), NEW t \in Seq(Message), NEW m \in Message, Window(d, t)
    PROVE  /\ CircularPush(d, m) \in Seq(Message)
           /\ CircularAdmits(d, m) => Window(CircularPush(d, m), Append(t, m))
           /\ ~CircularAdmits(d, m) => Window(CircularPush(d, m), t)
  <1>1. CASE TooLarge(m)
    BY <1>1 DEF CircularPush, CircularAdmits
  <1>2. CASE ~TooLarge(m)
    <2> DEFINE s == EvictForSize(d, m)
               r == EvictForTime(s, m)
    <2>1. s \in Seq(Message) /\ Window(s, t) /\ Room(s, t, m)
      BY <1>2, SizeMakesRoom
    <2>2. CASE OutOfOrder(s, m)
      BY <1>2, <2>1, <2>2 DEF CircularPush, CircularAdmits
    <2>3. CASE ~OutOfOrder(s, m)
      <3>1. r \in Seq(Message) /\ Room(r, t, m)
        <4> HIDE DEF s
        <4>1. QED
          BY <2>1, TimeLeavesRoom
      <3>2. CircularPush(d, m) = Append(r, m) /\ CircularAdmits(d, m)
        BY <1>2, <2>3 DEF CircularPush, CircularAdmits
      <3> HIDE DEF s, r
      <3>3. Append(r, m) \in Seq(Message)
        BY <3>1
      <3>4. Ends(Append(r, m), Append(t, m))
        BY <3>1, AppendEnds DEF Room
      <3>5. Bytes(Append(r, m)) = Bytes(r) + m.buffer_length
        BY <3>1, BytesOfAppend
      <3>6. Window(Append(r, m), Append(t, m))
        BY <3>1, <3>4, <3>5 DEF Window, Room
      <3>7. QED
        BY <3>2, <3>3, <3>6
    <2>4. QED
      BY <2>2, <2>3
  <1>3. QED
    BY <1>1, <1>2

-----------------------------------------------------------------------------
(* The inductive invariant.                                                *)

Inv == TypeOK /\ StopHandshake /\ RequestPending /\ WindowIsKept /\ Window(producer_buffer, accepted)

(* Initially there is nothing anywhere. *)
LEMMA Start == Init => Inv
  <1> SUFFICES ASSUME Init
               PROVE  Inv
    OBVIOUS
  <1>1. TypeOK
    <2>1. <<>> \in Seq(Message)
      OBVIOUS
    <2>2. QED
      BY <2>1 DEF Init, TypeOK
  <1>2. StopHandshake /\ RequestPending /\ WindowIsKept
    BY DEF Init, StopHandshake, RequestPending, WindowIsKept
  <1>3. Ends(producer_buffer, accepted) /\ Bytes(producer_buffer) = 0
    BY BytesOfEmpty DEF Init, Ends
  <1>4. Window(producer_buffer, accepted)
    BY <1>3, BoundsAssumption DEF Window
  <1>5. QED
    BY <1>1, <1>2, <1>4 DEF Inv

(* Every variable keeps its type. *)
LEMMA TypeStep ==
    ASSUME TypeOK, Window(producer_buffer, accepted), [Next]_vars
    PROVE  TypeOK'
  <1>1. CASE \E m \in Message : Push(m)
    <2>1. PICK m \in Message : Push(m)
      BY <1>1
    <2>2. CircularPush(producer_buffer, m) \in Seq(Message)
      BY PushKeepsWindow DEF TypeOK
    <2>3. Append(accepted, m) \in Seq(Message) /\ rejections + 1 \in Nat
      BY DEF TypeOK
    <2>4. QED
      BY <2>1, <2>2, <2>3 DEF Push, TypeOK, consumerVars, callerVars
  <1>2. CASE NotifyDataReady
    BY <1>2 DEF NotifyDataReady, TypeOK, bufferVars, consumerVars
  <1>3. CASE Close
    BY <1>3 DEF Close, TypeOK, bufferVars, consumerVars, history
  <1>4. CASE CallerStep
    BY <1>4 DEF CallerStep, WakeReady, BeginFlushing, WakeFlushing, IssueStop, Join, Restart,
                WakeConsumer, TypeOK, bufferVars, consumerVars, history
  <1>5. CASE WaitForData \/ CheckStop \/ SpuriousWakeup
    BY <1>5 DEF WaitForData, CheckStop, SpuriousWakeup, TypeOK, bufferVars, callerVars, history
  <1>6. CASE SwapBuffers
    <2>1. <<>> \in Seq(Message)
      OBVIOUS
    <2>2. QED
      BY <1>6, <2>1 DEF SwapBuffers, TypeOK, bufferVars, callerVars, history
  <1>7. CASE Consume
    <2>1. written \o consumer_buffer \in Seq(Message)
      BY DEF TypeOK
    <2>2. QED
      BY <1>7, <2>1 DEF Consume, TypeOK, callerVars
  <1>8. CASE UNCHANGED vars
    BY <1>8 DEF vars, bufferVars, consumerVars, callerVars, history, TypeOK
  <1>9. QED
    BY <1>1, <1>2, <1>3, <1>4, <1>5, <1>6, <1>7, <1>8 DEF Next, ConsumerStep

(* The caller and the consumer keep agreeing on the stop and on the request. *)
LEMMA HandshakeStep ==
    ASSUME TypeOK, StopHandshake, RequestPending, [Next]_vars
    PROVE  StopHandshake' /\ RequestPending'
  <1> USE DEF TypeOK, StopHandshake, RequestPending
  <1>1. CASE \E m \in Message : Push(m)
    BY <1>1 DEF Push, consumerVars, callerVars
  <1>2. CASE NotifyDataReady
    BY <1>2 DEF NotifyDataReady, consumerVars
  <1>3. CASE Close
    BY <1>3 DEF Close, consumerVars
  <1>4. CASE WakeReady
    BY <1>4 DEF WakeReady, WakeConsumer
  <1>5. CASE BeginFlushing
    BY <1>5 DEF BeginFlushing, consumerVars
  <1>6. CASE WakeFlushing
    BY <1>6 DEF WakeFlushing, WakeConsumer
  <1>7. CASE IssueStop
    BY <1>7 DEF IssueStop
  <1>8. CASE Join
    BY <1>8 DEF Join
  <1>9. CASE Restart
    BY <1>9 DEF Restart
  <1>10. CASE WaitForData
    BY <1>10 DEF WaitForData, callerVars
  <1>11. CASE SpuriousWakeup
    BY <1>11 DEF SpuriousWakeup, callerVars
  <1>12. CASE SwapBuffers
    BY <1>12 DEF SwapBuffers, callerVars
  <1>13. CASE Consume
    BY <1>13 DEF Consume, callerVars
  <1>14. CASE CheckStop
    BY <1>14 DEF CheckStop, callerVars
  <1>15. CASE UNCHANGED vars
    BY <1>15 DEF vars, consumerVars, callerVars
  <1>16. QED
    BY <1>1, <1>2, <1>3, <1>4, <1>5, <1>6, <1>7, <1>8, <1>9, <1>10, <1>11, <1>12, <1>13, <1>14, <1>15
       DEF Next, CallerStep, ConsumerStep

(* The window that was asked for goes from the buffer to the consumer to what is written. *)
LEMMA WindowIsKeptStep ==
    ASSUME TypeOK, StopHandshake, RequestPending, WindowIsKept, [Next]_vars
    PROVE  WindowIsKept'
  <1>1. CASE \E m \in Message : Push(m)
    BY <1>1 DEF Push, WindowIsKept, consumerVars, callerVars
  <1>2. CASE NotifyDataReady
    BY <1>2 DEF NotifyDataReady, WindowIsKept, StopHandshake, bufferVars, consumerVars
  <1>3. CASE Close
    BY <1>3 DEF Close, WindowIsKept, bufferVars, consumerVars, history
  <1>4. CASE CallerStep
    <2>1. /\ UNCHANGED <<producer_buffer, consumer_buffer, data_ready, closing, written, window, mark>>
          /\ caller # "idle"
      BY <1>4 DEF CallerStep, WakeReady, BeginFlushing, WakeFlushing, IssueStop, Join, Restart,
                  bufferVars, consumerVars, history
    <2>2. WakeConsumer \/ consumer' = consumer => (consumer' = "consume" <=> consumer = "consume")
      BY DEF WakeConsumer
    <2>3. Join \/ Restart => consumer' # "consume" /\ consumer # "consume"
      BY DEF Join, Restart, StopHandshake
    <2>4. WakeReady \/ BeginFlushing \/ WakeFlushing \/ IssueStop => WakeConsumer \/ consumer' = consumer
      BY DEF WakeReady, BeginFlushing, WakeFlushing, IssueStop, consumerVars
    <2>5. consumer' = "consume" <=> consumer = "consume"
      BY <1>4, <2>2, <2>3, <2>4 DEF CallerStep
    <2>6. QED
      BY <2>1, <2>5 DEF WindowIsKept
  <1>5. CASE WaitForData \/ CheckStop \/ SpuriousWakeup
    <2>1. /\ UNCHANGED <<producer_buffer, consumer_buffer, data_ready, caller, closing, written, window, mark>>
          /\ consumer' # "consume" /\ consumer # "consume"
      BY <1>5 DEF WaitForData, CheckStop, SpuriousWakeup, bufferVars, callerVars, history
    <2>2. QED
      BY <2>1 DEF WindowIsKept
  <1>6. CASE SwapBuffers
    BY <1>6 DEF SwapBuffers, WindowIsKept, TypeOK, bufferVars, callerVars, history
  <1>7. CASE Consume
    <2>1. /\ consumer_buffer' = <<>> /\ consumer' = "check" /\ written' = written \o consumer_buffer
          /\ UNCHANGED <<producer_buffer, data_ready, caller, closing, window, mark>>
      BY <1>7 DEF Consume, callerVars
    <2>2. ASSUME caller # "idle", ~closing
          PROVE  /\ ~data_ready /\ producer_buffer = <<>>
                 /\ written' = SubSeq(written', 1, mark) \o window
      <3>1. ~data_ready
        BY <1>7 DEF Consume, RequestPending
      <3>2. CASE consumer_buffer = window /\ mark = Len(written) /\ producer_buffer = <<>>
        <4>1. SubSeq(written \o consumer_buffer, 1, Len(written)) = written
          BY FrontOfConcat DEF TypeOK
        <4>2. QED
          BY <2>1, <3>1, <3>2, <4>1
      <3>3. CASE /\ consumer_buffer = <<>> /\ producer_buffer = <<>>
                 /\ written = SubSeq(written, 1, mark) \o window
        <4>1. written \o <<>> = written
          BY DEF TypeOK
        <4>2. QED
          BY <2>1, <3>1, <3>3, <4>1
      <3>4. QED
        BY <2>2, <3>1, <3>2, <3>3 DEF WindowIsKept
    <2>3. QED
      BY <2>1, <2>2 DEF WindowIsKept
  <1>8. CASE UNCHANGED vars
    BY <1>8 DEF vars, bufferVars, consumerVars, callerVars, history, WindowIsKept
  <1>9. QED
    BY <1>1, <1>2, <1>3, <1>4, <1>5, <1>6, <1>7, <1>8 DEF Next, ConsumerStep

(* The buffer stays a window on what was accepted. *)
LEMMA WindowStep ==
    ASSUME TypeOK, Window(producer_buffer, accepted), [Next]_vars
    PROVE  Window(producer_buffer, accepted)'
  <1>1. CASE \E m \in Message : Push(m)
    <2>1. PICK m \in Message : Push(m)
      BY <1>1
    <2>2. /\ producer_buffer' = CircularPush(producer_buffer, m)
          /\ IF CircularAdmits(producer_buffer, m)
             THEN accepted' = Append(accepted, m) ELSE accepted' = accepted
      BY <2>1 DEF Push
    <2>3. Window(producer_buffer', accepted')
      BY <2>2, PushKeepsWindow DEF TypeOK
    <2>4. QED
      BY <2>3
  <1>2. CASE SwapBuffers /\ data_ready
    <2>1. producer_buffer' = <<>> /\ accepted' = accepted
      BY <1>2 DEF SwapBuffers, history
    <2>2. Window(<<>>, accepted)
      <3>1. Len(<<>>) = 0 /\ Len(accepted) \in Nat
        BY DEF TypeOK
      <3>2. Ends(<<>>, accepted)
        BY <3>1 DEF Ends
      <3>3. QED
        BY <3>2, BytesOfEmpty, BoundsAssumption DEF Window
    <2>3. QED
      BY <2>1, <2>2
  <1>3. CASE UNCHANGED <<producer_buffer, accepted>>
    BY <1>3
  <1>4. SwapBuffers /\ ~data_ready => UNCHANGED <<producer_buffer, accepted>>
    BY DEF SwapBuffers, bufferVars, history
  <1>5. NotifyDataReady \/ Close \/ CallerStep => UNCHANGED <<producer_buffer, accepted>>
    BY DEF NotifyDataReady, Close, CallerStep, WakeReady, BeginFlushing, WakeFlushing, IssueStop,
           Join, Restart, bufferVars, history
  <1>6. WaitForData \/ CheckStop \/ Consume \/ SpuriousWakeup => UNCHANGED <<producer_buffer, accepted>>
    BY DEF WaitForData, CheckStop, Consume, SpuriousWakeup, bufferVars, history
  <1>7. UNCHANGED vars => UNCHANGED <<producer_buffer, accepted>>
    BY DEF vars, bufferVars, history
  <1>8. QED
    BY <1>1, <1>2, <1>3, <1>4, <1>5, <1>6, <1>7 DEF Next, ConsumerStep

(* Every variable has its type and the inductive invariant holds, in every  *)
(* state that the calls and the consumer can reach.                         *)
THEOREM Invariance == Spec => []Inv
  <1>1. Inv /\ [Next]_vars => Inv'
    <2> SUFFICES ASSUME Inv, [Next]_vars
                 PROVE  Inv'
      OBVIOUS
    <2>1. TypeOK' /\ StopHandshake' /\ RequestPending' /\ WindowIsKept'
      BY TypeStep, HandshakeStep, WindowIsKeptStep DEF Inv
    <2>2. Window(producer_buffer, accepted)'
      BY WindowStep DEF Inv
    <2>3. QED
      BY <2>1, <2>2 DEF Inv
  <1>2. QED
    BY Start, <1>1, PTL DEF Spec

(* A snapshot is the recent past (circular_message_cache.cpp:60,            *)
(* sequential_writer.cpp:550): whatever the messages, the limits and the    *)
(* order of the two threads, the buffer is an unbroken run of accepted      *)
(* messages up to the newest, and when take_snapshot() has joined the       *)
(* consumer the file has that run as it was asked for, and nothing else.    *)
THEOREM SnapshotSafety == Spec => []SnapshotsAreRecent
  <1>1. Inv => SnapshotsAreRecent
    <2> SUFFICES ASSUME Inv
                 PROVE  SnapshotsAreRecent
      OBVIOUS
    <2>1. RecentWindow
      <3>1. IsSuffix(producer_buffer, accepted)
        BY SuffixMeans DEF Inv, TypeOK, Window
      <3>2. QED
        BY <3>1 DEF Inv, Window, RecentWindow
    <2>2. SnapshotIsTheWindow
      <3> SUFFICES ASSUME caller = "restart"
                   PROVE  written = SubSeq(written, 1, mark) \o window /\ producer_buffer = <<>>
        BY DEF SnapshotIsTheWindow
      <3>1. ~data_ready /\ ~closing /\ consumer = "none"
        BY DEF Inv, TypeOK, RequestPending, StopHandshake
      <3>2. QED
        BY <3>1 DEF Inv, WindowIsKept
    <2>3. QED
      BY <2>1, <2>2 DEF SnapshotsAreRecent
  <1>2. QED
    BY Invariance, <1>1, PTL
=============================================================================
