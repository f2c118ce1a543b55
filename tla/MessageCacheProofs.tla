------------------------- MODULE MessageCacheProofs -------------------------
(***************************************************************************)
(* Proofs about MessageCache, for any number of producers, any messages and *)
(* any limits: its types, the inductive invariant that relates the buffers  *)
(* to what was accepted and written, and that it implements MessagePipe.    *)
(***************************************************************************)
EXTENDS MessageCacheProps, SumTheorems

-----------------------------------------------------------------------------
(* Facts about the buffers.                                                *)

(* What MessageCacheBuffer::push does to its fields. *)
LEMMA PushMessageEffect ==
    ASSUME NEW b \in Buffer, NEW m \in Message
    PROVE  /\ PushMessage(b, m) \in Buffer
           /\ Admits(b, m) => /\ PushMessage(b, m).data = Append(b.data, m)
                              /\ PushMessage(b, m).drop = b.drop
           /\ ~Admits(b, m) => PushMessage(b, m).data = b.data
  <1>1. m.buffer_length \in Nat
    BY BoundsAssumption DEF Message
  <1>2. b.data \in Seq(Message) /\ b.bytes \in Nat /\ b.drop \in BOOLEAN
    BY DEF Buffer
  <1>3. Append(b.data, m) \in Seq(Message)
    BY <1>2
  <1>4. CASE Admits(b, m)
    BY <1>1, <1>2, <1>3, <1>4 DEF PushMessage, Buffer
  <1>5. CASE ~Admits(b, m)
    <2> DEFINE d == b.drop \/ (/\ ProspectedDuration(b.data, m) >= 0
                               /\ OverLimit(b, m))
    <2>1. PushMessage(b, m) = [b EXCEPT !.drop = d]
      BY <1>5 DEF PushMessage
    <2>2. d \in BOOLEAN
      BY <1>2 DEF OverLimit
    <2> HIDE DEF d
    <2>3. QED
      BY <2>1, <2>2, <1>2, <1>5 DEF Buffer
  <1>6. QED
    BY <1>4, <1>5

(* An empty buffer that is not dropping accepts any message. *)
LEMMA EmptyAdmits ==
    ASSUME NEW b \in Buffer, NEW m \in Message, b.data = <<>>, ~b.drop
    PROVE  Admits(b, m)
  BY BoundsAssumption DEF Admits, OverLimit, ProspectedDuration, Buffer, Message

(* A buffer starts to drop only when it holds something. *)
LEMMA DropOnlyWhenFilled ==
    ASSUME NEW b \in Buffer, NEW m \in Message, b.drop => b.data # <<>>
    PROVE  PushMessage(b, m).drop => PushMessage(b, m).data # <<>>
  <1>1. CASE Admits(b, m)
    BY <1>1, PushMessageEffect DEF Admits
  <1>2. CASE ~Admits(b, m)
    BY <1>2, PushMessageEffect, EmptyAdmits
  <1>3. QED
    BY <1>1, <1>2

(* clear() leaves an empty buffer. *)
LEMMA ClearBufferEmpties ==
    ASSUME NEW b \in Buffer
    PROVE  ClearBuffer(b) = EmptyBuffer
  BY DEF ClearBuffer, EmptyBuffer, Buffer

(* An empty buffer has the type of buffers. *)
LEMMA EmptyBufferType == EmptyBuffer \in Buffer
  BY DEF EmptyBuffer, Buffer

-----------------------------------------------------------------------------
(* Types.                                                                  *)

(* Every buffer and counter stays in its domain. *)
THEOREM Typing == Spec => []TypeOK
  <1>1. Init => TypeOK
    <2> SUFFICES ASSUME Init PROVE TypeOK
      OBVIOUS
    <2>1. accepted \in Seq(Message) /\ written \in Seq(Message)
      BY EmptySeq DEF Init
    <2>2. dropped \in [Topics -> Nat] /\ count \in [Producers -> Nat]
      BY DEF Init
    <2>3. starts \in Nat /\ refused \in Nat /\ promised \in Nat
      BY DEF Init
    <2>4. QED
      BY <2>1, <2>2, <2>3, EmptyBufferType
         DEF Init, TypeOK, ConsumerSteps, ProducerSteps, OwnerSteps
  <1>2. TypeOK /\ [Next]_vars => TypeOK'
    <2> SUFFICES ASSUME TypeOK, [Next]_vars
                 PROVE  TypeOK'
      OBVIOUS
    <2> USE DEF ConsumerSteps, ProducerSteps, OwnerSteps, cacheVars, consumerVars,
                producerVars, ownerVars, history
    <2>1. ASSUME NEW p \in Producers, NEW m \in Message, Push(p, m)
          PROVE  TypeOK'
      <3>1. PushMessage(producer_buffer, m) \in Buffer
        BY PushMessageEffect DEF TypeOK
      <3>2. Append(accepted, m) \in Seq(Message)
        BY DEF TypeOK
      <3>3. accepted' \in Seq(Message) /\ refused' \in Nat
        <4>1. CASE Admits(producer_buffer, m)
          BY <2>1, <3>2, <4>1 DEF TypeOK, Push
        <4>2. CASE ~Admits(producer_buffer, m)
          BY <2>1, <4>2 DEF TypeOK, Push
        <4>3. QED
          BY <4>1, <4>2
      <3>4. producer' \in [Producers -> ProducerSteps]
        BY <2>1 DEF TypeOK, Push
      <3>5. QED
        BY <2>1, <3>1, <3>3, <3>4 DEF TypeOK, Push
    <2>2. ASSUME NEW p \in Producers, Notify(p)
          PROVE  TypeOK'
      BY <2>2 DEF TypeOK, Notify, WakeConsumer
    <2>3. ASSUME NEW p \in Producers, ReadCount(p)
          PROVE  TypeOK'
      BY <2>3 DEF TypeOK, ReadCount, Message
    <2>4. ASSUME NEW p \in Producers, StoreCount(p)
          PROVE  TypeOK'
      BY <2>4 DEF TypeOK, StoreCount, Message
    <2>5. CASE WaitForData
      BY <2>5 DEF TypeOK, WaitForData
    <2>6. CASE Recheck
      BY <2>6 DEF TypeOK, Recheck
    <2>7. CASE SpuriousWakeup
      BY <2>7 DEF TypeOK, SpuriousWakeup
    <2>8. CASE SwapBuffers
      BY <2>8 DEF TypeOK, SwapBuffers
    <2>9. CASE Consume
      <3>1. written' \in Seq(Message)
        BY <2>9, ConcatProperties DEF TypeOK, Consume, Buffer
      <3>2. QED
        BY <2>9, <3>1 DEF TypeOK, Consume
    <2>10. CASE ClearConsumed
      BY <2>10, ClearBufferEmpties, EmptyBufferType DEF TypeOK, ClearConsumed
    <2>11. CASE CheckStop
      BY <2>11 DEF TypeOK, CheckStop
    <2>12. CASE BeginFlushing
      BY <2>12, LenProperties DEF TypeOK, BeginFlushing
    <2>13. CASE NotifyFlushing
      BY <2>13 DEF TypeOK, NotifyFlushing, WakeConsumer
    <2>14. CASE IssueStop
      BY <2>14 DEF TypeOK, IssueStop
    <2>15. CASE Join
      BY <2>15 DEF TypeOK, Join
    <2>16. CASE ResetStop
      BY <2>16 DEF TypeOK, ResetStop
    <2>17. CASE StartThread
      <3>1. starts' \in Nat
        BY <2>17 DEF TypeOK, StartThread
      <3>2. QED
        BY <2>17, <3>1 DEF TypeOK, StartThread
    <2>18. CASE UNCHANGED vars
      BY <2>18 DEF TypeOK, vars
    <2>19. QED
      BY <2>1, <2>2, <2>3, <2>4, <2>5, <2>6, <2>7, <2>8, <2>9, <2>10, <2>11, <2>12,
         <2>13, <2>14, <2>15, <2>16, <2>17, <2>18
         DEF Next, FinishPush, ConsumerStep, FinishOwner
  <1>3. QED
    BY <1>1, <1>2, PTL DEF Spec

-----------------------------------------------------------------------------
(* The inductive invariant.                                                *)

(* It holds at first: nothing was pushed and nobody waits. *)
LEMMA InitIInv == Init => IInv
  <1> SUFFICES ASSUME Init PROVE IInv
    OBVIOUS
  <1>1. Conserved /\ PromiseKept
    <2>1. Len(<<>>) = 0 /\ (<<>> \o <<>>) \o <<>> = <<>>
      BY ConcatEmptySeq, EmptySeq
    <2>2. QED
      BY <2>1 DEF Init, Conserved, PromiseKept, InFlight, EmptyBuffer
  <1>2. CleanSwap /\ StopHandshake /\ DataAnnounced /\ NoLostWakeup
    BY DEF Init, CleanSwap, StopHandshake, DataAnnounced, NoLostWakeup, EmptyBuffer
  <1>3. QED
    BY <1>1, <1>2 DEF IInv

(* Appending a message to the end keeps the three parts of the pipe. *)
LEMMA ConservedStep ==
    ASSUME TypeOK, IInv, [Next]_vars
    PROVE  Conserved'
  <1> USE DEF cacheVars, consumerVars, producerVars, ownerVars, history
  <1>1. /\ written \in Seq(Message) /\ accepted \in Seq(Message)
        /\ producer_buffer.data \in Seq(Message) /\ consumer_buffer.data \in Seq(Message)
        /\ InFlight \in Seq(Message) /\ <<>> \in Seq(Message)
    BY EmptySeq DEF TypeOK, Buffer, InFlight
  <1>2. accepted = (written \o InFlight) \o producer_buffer.data
    BY DEF IInv, Conserved
  <1>3. ASSUME NEW p \in Producers, NEW m \in Message, Push(p, m)
        PROVE  Conserved'
    <2>1. InFlight' = InFlight /\ written' = written
      BY <1>3 DEF Push, InFlight
    <2>2. CASE Admits(producer_buffer, m)
      <3>1. producer_buffer'.data = Append(producer_buffer.data, m)
        BY <1>3, <2>2, PushMessageEffect DEF Push, TypeOK
      <3>2. accepted' = Append(accepted, m)
        BY <1>3, <2>2 DEF Push
      <3>3. written \o InFlight \in Seq(Message)
        BY <1>1, ConcatProperties
      <3> DEFINE taken == written \o InFlight
                 pending == producer_buffer.data
      <3>4. taken \in Seq(Message) /\ pending \in Seq(Message)
        BY <1>1, <3>3
      <3>5. accepted = taken \o pending
        BY <1>2
      <3>6. producer_buffer'.data = Append(pending, m)
        BY <3>1
      <3>7. written' \o InFlight' = taken
        BY <2>1
      <3> HIDE DEF taken, pending
      <3>8. Append(taken \o pending, m) = taken \o Append(pending, m)
        BY <3>4, AppendToConcat
      <3>9. QED
        BY <3>2, <3>5, <3>6, <3>7, <3>8 DEF Conserved
    <2>3. CASE ~Admits(producer_buffer, m)
      <3>1. producer_buffer'.data = producer_buffer.data /\ accepted' = accepted
        BY <1>3, <2>3, PushMessageEffect DEF Push, TypeOK
      <3>2. QED
        BY <1>2, <2>1, <3>1 DEF Conserved
    <2>4. QED
      BY <2>2, <2>3
  <1>4. CASE SwapBuffers
    <2>1. consumer_buffer.data = <<>> /\ InFlight = <<>>
      BY <1>4 DEF SwapBuffers, IInv, CleanSwap, EmptyBuffer, InFlight
    <2>2. InFlight' = producer_buffer.data /\ producer_buffer'.data = <<>>
      BY <1>4, <2>1 DEF SwapBuffers, InFlight
    <2>3. written' = written /\ accepted' = accepted
      BY <1>4 DEF SwapBuffers
    <2>4. written \o <<>> = written
      BY <1>1, ConcatEmptySeq
    <2>5. written \o producer_buffer.data \in Seq(Message)
      BY <1>1, ConcatProperties
    <2>6. (written \o producer_buffer.data) \o <<>> = written \o producer_buffer.data
      BY <2>5, ConcatEmptySeq
    <2>7. QED
      BY <1>2, <2>1, <2>2, <2>3, <2>4, <2>6 DEF Conserved
  <1>5. CASE Consume
    <2>1. InFlight = consumer_buffer.data /\ InFlight' = <<>>
      BY <1>5 DEF Consume, InFlight
    <2>2. written' = written \o InFlight /\ accepted' = accepted /\ producer_buffer' = producer_buffer
      BY <1>5, <2>1 DEF Consume
    <2>3. (written \o InFlight) \o <<>> = written \o InFlight
      BY <1>1, ConcatProperties, ConcatEmptySeq
    <2>4. QED
      BY <1>2, <2>1, <2>2, <2>3 DEF Conserved
  <1>6. CASE ClearConsumed
    BY <1>6, <1>2 DEF ClearConsumed, Conserved, InFlight
  <1>7. CASE WaitForData \/ Recheck \/ SpuriousWakeup \/ CheckStop
    <2>1. InFlight' = InFlight
      BY <1>7 DEF WaitForData, Recheck, SpuriousWakeup, CheckStop, InFlight
    <2>2. UNCHANGED <<accepted, written, producer_buffer>>
      BY <1>7 DEF WaitForData, Recheck, SpuriousWakeup, CheckStop
    <2>3. QED
      BY <1>2, <2>1, <2>2 DEF Conserved
  <1>8. CASE BeginFlushing \/ NotifyFlushing \/ IssueStop \/ Join \/ ResetStop \/ StartThread
    <2>1. InFlight' = InFlight
      BY <1>8 DEF BeginFlushing, NotifyFlushing, IssueStop, Join, ResetStop, StartThread,
                  WakeConsumer, InFlight
    <2>2. UNCHANGED <<accepted, written, producer_buffer>>
      BY <1>8 DEF BeginFlushing, NotifyFlushing, IssueStop, Join, ResetStop, StartThread
    <2>3. QED
      BY <1>2, <2>1, <2>2 DEF Conserved
  <1>9. ASSUME NEW p \in Producers, FinishPush(p)
        PROVE  Conserved'
    <2>1. InFlight' = InFlight
      BY <1>9 DEF FinishPush, Notify, ReadCount, StoreCount, WakeConsumer, InFlight
    <2>2. UNCHANGED <<accepted, written, producer_buffer>>
      BY <1>9 DEF FinishPush, Notify, ReadCount, StoreCount
    <2>3. QED
      BY <1>2, <2>1, <2>2 DEF Conserved
  <1>10. CASE UNCHANGED vars
    BY <1>2, <1>10 DEF vars, Conserved, InFlight
  <1>11. QED
    BY <1>3, <1>4, <1>5, <1>6, <1>7, <1>8, <1>9, <1>10 DEF Next, ConsumerStep, FinishOwner

(* The buffer that comes back to the producers is a cleared one. *)
LEMMA CleanSwapStep ==
    ASSUME TypeOK, IInv, [Next]_vars
    PROVE  CleanSwap'
  <1> USE DEF cacheVars, consumerVars, producerVars, ownerVars, history
  <1>1. CleanSwap
    BY DEF IInv
  <1>2. ASSUME NEW p \in Producers, NEW m \in Message, Push(p, m)
        PROVE  CleanSwap'
    <2>1. producer_buffer'.drop => producer_buffer'.data # <<>>
      BY <1>1, <1>2, DropOnlyWhenFilled DEF TypeOK, Push, CleanSwap
    <2>2. QED
      BY <1>1, <1>2, <2>1 DEF Push, CleanSwap
  <1>3. ASSUME NEW p \in Producers, FinishPush(p)
        PROVE  CleanSwap'
    BY <1>1, <1>3 DEF FinishPush, Notify, ReadCount, StoreCount, WakeConsumer, CleanSwap
  <1>4. CASE SwapBuffers
    BY <1>1, <1>4 DEF SwapBuffers, CleanSwap, EmptyBuffer
  <1>5. CASE ClearConsumed
    BY <1>1, <1>5, ClearBufferEmpties DEF TypeOK, ClearConsumed, CleanSwap
  <1>6. CASE WaitForData \/ Recheck \/ SpuriousWakeup \/ Consume \/ CheckStop
    BY <1>1, <1>6 DEF WaitForData, Recheck, SpuriousWakeup, Consume, CheckStop, CleanSwap
  <1>7. CASE BeginFlushing \/ NotifyFlushing \/ IssueStop \/ Join \/ ResetStop \/ StartThread
    BY <1>1, <1>7 DEF BeginFlushing, NotifyFlushing, IssueStop, Join, ResetStop, StartThread,
                      WakeConsumer, CleanSwap
  <1>8. CASE UNCHANGED vars
    BY <1>1, <1>8 DEF vars, CleanSwap
  <1>9. QED
    BY <1>2, <1>3, <1>4, <1>5, <1>6, <1>7, <1>8 DEF Next, ConsumerStep, FinishOwner

(* stop() and the consumer agree on who may leave. *)
LEMMA StopHandshakeStep ==
    ASSUME TypeOK, IInv, [Next]_vars
    PROVE  StopHandshake'
  <1> USE DEF cacheVars, consumerVars, producerVars, ownerVars, history
  <1>1. StopHandshake
    BY DEF IInv
  <1>2. ASSUME NEW p \in Producers, FinishPush(p) \/ \E m \in Message : Push(p, m)
        PROVE  StopHandshake'
    BY <1>1, <1>2 DEF FinishPush, Notify, ReadCount, StoreCount, WakeConsumer, Push, StopHandshake
  <1>3. CASE WaitForData \/ Recheck \/ SpuriousWakeup
    BY <1>1, <1>3 DEF WaitForData, Recheck, SpuriousWakeup, StopHandshake
  <1>4. CASE SwapBuffers \/ Consume \/ ClearConsumed
    BY <1>1, <1>4 DEF SwapBuffers, Consume, ClearConsumed, StopHandshake
  <1>5. CASE CheckStop
    BY <1>1, <1>5 DEF TypeOK, CheckStop, StopHandshake
  <1>6. CASE BeginFlushing \/ NotifyFlushing \/ IssueStop
    BY <1>1, <1>6 DEF TypeOK, BeginFlushing, NotifyFlushing, IssueStop, WakeConsumer, StopHandshake
  <1>7. CASE Join \/ ResetStop \/ StartThread
    BY <1>1, <1>7 DEF TypeOK, Join, ResetStop, StartThread, StopHandshake
  <1>8. CASE UNCHANGED vars
    BY <1>1, <1>8 DEF vars, StopHandshake
  <1>9. QED
    BY <1>2, <1>3, <1>4, <1>5, <1>6, <1>7, <1>8 DEF Next, ConsumerStep, FinishOwner

(* How many messages are accounted for. *)
LEMMA AcceptedLength ==
    ASSUME TypeOK, Conserved
    PROVE  /\ Len(written) \in Nat /\ Len(InFlight) \in Nat /\ Len(producer_buffer.data) \in Nat
           /\ Len(accepted) = Len(written) + Len(InFlight) + Len(producer_buffer.data)
  <1>1. /\ written \in Seq(Message) /\ producer_buffer.data \in Seq(Message)
        /\ InFlight \in Seq(Message)
    BY EmptySeq DEF TypeOK, Buffer, InFlight
  <1>2. written \o InFlight \in Seq(Message) /\ Len(written \o InFlight) = Len(written) + Len(InFlight)
    BY <1>1, ConcatProperties
  <1>3. Len((written \o InFlight) \o producer_buffer.data)
            = Len(written \o InFlight) + Len(producer_buffer.data)
    BY <1>1, <1>2, ConcatProperties
  <1>4. QED
    BY <1>1, <1>2, <1>3, LenProperties DEF Conserved

(* The last run of the loop takes everything accepted before stop(). *)
LEMMA PromiseKeptStep ==
    ASSUME TypeOK, TypeOK', IInv, Conserved', [Next]_vars
    PROVE  PromiseKept'
  <1> USE DEF cacheVars, consumerVars, producerVars, ownerVars, history
  <1>1. PromiseKept /\ StopHandshake /\ CleanSwap /\ Conserved
    BY DEF IInv
  <1>2. /\ Len(written) \in Nat /\ Len(InFlight) \in Nat /\ Len(producer_buffer.data) \in Nat
        /\ Len(accepted) = Len(written) + Len(InFlight) + Len(producer_buffer.data)
    BY <1>1, AcceptedLength
  <1>3. /\ Len(written') \in Nat /\ Len(InFlight') \in Nat /\ Len(producer_buffer'.data) \in Nat
        /\ Len(accepted') = Len(written') + Len(InFlight') + Len(producer_buffer'.data)
    BY AcceptedLength DEF TypeOK, Conserved, InFlight
  <1>4. promised \in Nat /\ promised' \in Nat /\ Len(accepted) \in Nat /\ Len(accepted') \in Nat
    BY LenProperties DEF TypeOK
  <1>5. ASSUME NEW p \in Producers, NEW m \in Message, Push(p, m)
        PROVE  PromiseKept'
    <2>1. InFlight' = InFlight
      BY <1>5 DEF Push, InFlight
    <2>2. Len(accepted') >= Len(accepted)
      BY <1>5, AppendProperties DEF Push, TypeOK
    <2>3. promised <= Len(accepted)
      BY <1>1 DEF PromiseKept
    <2>4. promised <= Len(accepted')
      BY <1>4, <2>2, <2>3
    <2>5. QED
      BY <1>1, <1>5, <2>1, <2>4 DEF Push, PromiseKept
  <1>6. ASSUME NEW p \in Producers, FinishPush(p)
        PROVE  PromiseKept'
    <2>1. InFlight' = InFlight
      BY <1>6 DEF FinishPush, Notify, ReadCount, StoreCount, WakeConsumer, InFlight
    <2>2. QED
      BY <1>1, <1>6, <2>1 DEF FinishPush, Notify, ReadCount, StoreCount, WakeConsumer, PromiseKept
  <1>7. CASE WaitForData \/ Recheck \/ SpuriousWakeup
    BY <1>1, <1>7 DEF WaitForData, Recheck, SpuriousWakeup, PromiseKept
  <1>8. CASE SwapBuffers
    <2>1. Len(producer_buffer'.data) = 0
      BY <1>1, <1>8, EmptySeq DEF SwapBuffers, CleanSwap, EmptyBuffer
    <2>2. UNCHANGED <<accepted, written, promised>> /\ consumer' = "consume"
      BY <1>8 DEF SwapBuffers
    <2>3. promised <= Len(accepted)
      BY <1>1 DEF PromiseKept
    <2>4. Len(accepted) = Len(written') + Len(InFlight')
      BY <1>3, <2>1, <2>2
    <2>5. QED
      BY <2>2, <2>3, <2>4 DEF PromiseKept
  <1>9. CASE Consume
    <2>1. Len(InFlight') = 0 /\ Len(written') = Len(written) + Len(InFlight)
      BY <1>9, EmptySeq, ConcatProperties DEF Consume, InFlight, TypeOK, Buffer
    <2>2. UNCHANGED <<accepted, promised, final_run>> /\ consumer = "consume" /\ consumer' = "clear"
      BY <1>9 DEF Consume
    <2>3. final_run => promised <= Len(written) + Len(InFlight)
      BY <1>1, <2>2 DEF PromiseKept
    <2>4. promised <= Len(written) + Len(InFlight) => promised <= Len(written') + Len(InFlight')
      BY <1>2, <1>3, <1>4, <2>1
    <2>5. QED
      BY <1>1, <2>2, <2>3, <2>4 DEF PromiseKept
  <1>10. CASE ClearConsumed \/ CheckStop
    <2>1. Len(InFlight) = 0 /\ Len(InFlight') = 0
      BY <1>10, EmptySeq DEF ClearConsumed, CheckStop, InFlight
    <2>2. UNCHANGED <<accepted, written, promised>>
      BY <1>10 DEF ClearConsumed, CheckStop
    <2>3. CASE ClearConsumed
      BY <1>1, <1>2, <1>4, <2>1, <2>2, <2>3 DEF ClearConsumed, PromiseKept
    <2>4. CASE CheckStop
      BY <1>1, <1>2, <1>4, <2>1, <2>2, <2>4 DEF CheckStop, PromiseKept
    <2>5. QED
      BY <1>10, <2>3, <2>4
  <1>11. CASE BeginFlushing
    <2>1. UNCHANGED <<accepted, written, consumer, final_run>>
      BY <1>11 DEF BeginFlushing
    <2>2. CASE consumer = "none"
      <3>1. promised' = promised
        BY <1>11, <2>2 DEF BeginFlushing
      <3>2. QED
        BY <1>1, <2>1, <2>2, <3>1 DEF PromiseKept
    <2>3. CASE consumer # "none"
      <3>1. promised' = Len(accepted) /\ ~final_run /\ consumer # "exited"
        BY <1>1, <1>11, <2>3 DEF BeginFlushing, StopHandshake
      <3>2. QED
        <4>1. promised' <= Len(accepted)
          BY <1>2, <3>1
        <4>2. QED
          BY <2>1, <2>3, <3>1, <4>1 DEF PromiseKept
    <2>4. QED
      BY <2>2, <2>3
  <1>12. CASE NotifyFlushing \/ IssueStop \/ Join \/ ResetStop \/ StartThread
    <2>1. InFlight' = InFlight
      BY <1>12 DEF NotifyFlushing, IssueStop, Join, ResetStop, StartThread, WakeConsumer, InFlight
    <2>2. QED
      BY <1>1, <1>12, <2>1 DEF NotifyFlushing, IssueStop, Join, ResetStop, StartThread,
                               WakeConsumer, PromiseKept
  <1>13. CASE UNCHANGED vars
    BY <1>1, <1>13 DEF vars, PromiseKept, InFlight
  <1>14. QED
    BY <1>5, <1>6, <1>7, <1>8, <1>9, <1>10, <1>11, <1>12, <1>13
       DEF Next, ConsumerStep, FinishOwner

(* No data waits behind a flag that is down, no sleep behind a silent thread. *)
LEMMA WakeupStep ==
    ASSUME TypeOK, IInv, [Next]_vars
    PROVE  DataAnnounced' /\ NoLostWakeup'
  <1> USE DEF cacheVars, consumerVars, producerVars, ownerVars, history
  <1>1. DataAnnounced /\ NoLostWakeup /\ CleanSwap
    BY DEF IInv
  <1>2. ASSUME NEW p \in Producers, NEW m \in Message, Push(p, m)
        PROVE  DataAnnounced' /\ NoLostWakeup'
    <2>1. DataAnnounced'
      BY <1>2 DEF Push, DataAnnounced
    <2>2. CASE Admits(producer_buffer, m)
      <3>1. producer'[p] = "notify"
        BY <1>2, <2>2 DEF Push, TypeOK
      <3>2. QED
        BY <2>1, <3>1 DEF NoLostWakeup
    <2>3. CASE ~Admits(producer_buffer, m)
      <3>1. producer_buffer.data # <<>>
        BY <1>1, <2>3, EmptyAdmits DEF CleanSwap, TypeOK
      <3>2. \A q \in Producers : producer[q] = "notify" => producer'[q] = "notify"
        BY <1>2, <2>3 DEF Push, TypeOK
      <3>3. consumer' = consumer /\ owner' = owner /\ flushing' = flushing
        BY <1>2 DEF Push
      <3>4. QED
        BY <1>1, <2>1, <3>1, <3>2, <3>3 DEF NoLostWakeup
    <2>4. QED
      BY <2>2, <2>3
  <1>3. ASSUME NEW p \in Producers, FinishPush(p)
        PROVE  DataAnnounced' /\ NoLostWakeup'
    <2>1. CASE Notify(p)
      BY <1>1, <2>1 DEF Notify, WakeConsumer, DataAnnounced, NoLostWakeup
    <2>2. CASE ReadCount(p) \/ StoreCount(p)
      <3>1. \A q \in Producers : producer[q] = "notify" => producer'[q] = "notify"
        BY <2>2 DEF ReadCount, StoreCount, TypeOK
      <3>2. UNCHANGED <<cacheVars, consumerVars, ownerVars>>
        BY <2>2 DEF ReadCount, StoreCount
      <3>3. QED
        BY <1>1, <3>1, <3>2 DEF DataAnnounced, NoLostWakeup
    <2>3. QED
      BY <1>3, <2>1, <2>2 DEF FinishPush
  <1>4. CASE WaitForData
    BY <1>1, <1>4 DEF WaitForData, DataAnnounced, NoLostWakeup
  <1>5. CASE Recheck
    BY <1>1, <1>5 DEF Recheck, DataAnnounced, NoLostWakeup
  <1>6. CASE SwapBuffers
    BY <1>1, <1>6 DEF SwapBuffers, CleanSwap, EmptyBuffer, DataAnnounced, NoLostWakeup
  <1>7. CASE SpuriousWakeup \/ Consume \/ ClearConsumed \/ CheckStop
    BY <1>1, <1>7 DEF SpuriousWakeup, Consume, ClearConsumed, CheckStop, DataAnnounced, NoLostWakeup
  <1>8. CASE BeginFlushing \/ NotifyFlushing \/ IssueStop \/ Join \/ ResetStop \/ StartThread
    BY <1>1, <1>8 DEF BeginFlushing, NotifyFlushing, IssueStop, Join, ResetStop, StartThread,
                      WakeConsumer, DataAnnounced, NoLostWakeup
  <1>9. CASE UNCHANGED vars
    BY <1>1, <1>9 DEF vars, DataAnnounced, NoLostWakeup
  <1>10. QED
    BY <1>2, <1>3, <1>4, <1>5, <1>6, <1>7, <1>8, <1>9 DEF Next, ConsumerStep, FinishOwner

(* The inductive invariant holds in every behaviour. *)
THEOREM Invariance == Spec => []IInv
  <1>1. TypeOK /\ TypeOK' /\ IInv /\ [Next]_vars => IInv'
    <2> SUFFICES ASSUME TypeOK, TypeOK', IInv, [Next]_vars
                 PROVE  IInv'
      OBVIOUS
    <2>1. QED
      BY ConservedStep, CleanSwapStep, StopHandshakeStep, PromiseKeptStep, WakeupStep DEF IInv
  <1>2. QED
    BY InitIInv, Typing, <1>1, PTL DEF Spec

(* The sleeping consumer always has a notification coming (message_cache.cpp:95). *)
THEOREM WakeupSafety == Spec => []NoLostWakeup
  <1>1. IInv => NoLostWakeup
    BY DEF IInv
  <1>2. QED
    BY Invariance, <1>1, PTL

-----------------------------------------------------------------------------
(* The pipe.                                                               *)

(* Handing a buffer to the storage delivers the next accepted messages. *)
LEMMA ConsumeDelivers ==
    ASSUME TypeOK, IInv, Consume
    PROVE  Pipe!Deliver \/ UNCHANGED Pipe!vars
  <1> DEFINE taken == written \o InFlight
             pending == producer_buffer.data
  <1>1. /\ written \in Seq(Message) /\ InFlight \in Seq(Message) /\ pending \in Seq(Message)
    BY EmptySeq DEF TypeOK, Buffer, InFlight
  <1>2. taken \in Seq(Message) /\ Len(taken) = Len(written) + Len(InFlight)
    BY <1>1, ConcatProperties
  <1>3. accepted = taken \o pending
    BY DEF IInv, Conserved
  <1>4. /\ written' = taken /\ consumer = "consume" /\ consumer' = "clear"
        /\ UNCHANGED <<accepted, refused, promised, owner>>
    BY DEF Consume, InFlight, ownerVars
  <1>5. CASE InFlight = <<>>
    <2>1. written' = written
      BY <1>1, <1>4, <1>5, ConcatEmptySeq
    <2>2. QED
      BY <1>4, <2>1 DEF Pipe!vars
  <1>6. CASE InFlight # <<>>
    <2> HIDE DEF taken, pending
    <2>1. Len(accepted) = Len(taken) + Len(pending) /\ SubSeq(accepted, 1, Len(taken)) = taken
      BY <1>1, <1>2, <1>3, FrontOfConcat
    <2>2. Len(written) \in Nat /\ Len(pending) \in Nat /\ Len(InFlight) \in Nat \ {0}
      BY <1>1, <1>6, EmptySeq, LenProperties
    <2>3. Len(taken) \in Len(written) + 1 .. Len(accepted)
      BY <1>2, <2>1, <2>2
    <2>4. written' = SubSeq(accepted, 1, Len(taken))
      BY <1>4, <2>1
    <2>5. QED
      BY <1>4, <2>3, <2>4 DEF Pipe!Deliver
  <1>7. QED
    BY <1>5, <1>6

(* A push is accepted into the pipe or refused while the pipe is not empty. *)
LEMMA PushEnters ==
    ASSUME TypeOK, IInv, NEW p \in Producers, NEW m \in Message, Push(p, m)
    PROVE  Pipe!Next
  <1>1. UNCHANGED <<written, promised, consumer, owner>>
    BY DEF Push, consumerVars, ownerVars
  <1>2. CASE Admits(producer_buffer, m)
    BY <1>1, <1>2 DEF Push, Pipe!Next, Pipe!Accept
  <1>3. CASE ~Admits(producer_buffer, m)
    <2>1. producer_buffer.data # <<>>
      BY <1>3, EmptyAdmits DEF IInv, CleanSwap, TypeOK
    <2>2. Len(producer_buffer.data) \in Nat \ {0}
      BY <2>1, EmptySeq DEF TypeOK, Buffer
    <2>3. /\ Len(written) \in Nat /\ Len(InFlight) \in Nat
          /\ Len(accepted) = Len(written) + Len(InFlight) + Len(producer_buffer.data)
      BY AcceptedLength DEF IInv
    <2>4. Len(written) < Len(accepted)
      <3> DEFINE w == Len(written)
                 f == Len(InFlight)
                 b == Len(producer_buffer.data)
                 a == Len(accepted)
      <3>1. w \in Nat /\ f \in Nat /\ b \in Nat /\ b # 0 /\ a = w + f + b
        BY <2>2, <2>3
      <3> HIDE DEF w, f, b, a
      <3>2. w < a
        BY <3>1
      <3>3. QED
        BY <3>2 DEF w, a
    <2>5. QED
      BY <1>1, <1>3, <2>4 DEF Push, Pipe!Next, Pipe!Refuse
  <1>4. QED
    BY <1>2, <1>3

(* Every step is a step of the pipe or invisible to it. *)
LEMMA PipeStep ==
    ASSUME TypeOK, IInv, [Next]_vars
    PROVE  [Pipe!Next]_(Pipe!vars)
  <1> USE DEF cacheVars, consumerVars, producerVars, ownerVars, history
  <1>1. ASSUME NEW p \in Producers, NEW m \in Message, Push(p, m)
        PROVE  Pipe!Next
    BY <1>1, PushEnters
  <1>2. ASSUME NEW p \in Producers, FinishPush(p)
        PROVE  UNCHANGED Pipe!vars
    BY <1>2 DEF FinishPush, Notify, ReadCount, StoreCount, WakeConsumer, Pipe!vars
  <1>3. CASE Consume
    BY <1>3, ConsumeDelivers DEF Pipe!Next
  <1>4. CASE WaitForData \/ Recheck \/ SpuriousWakeup \/ SwapBuffers \/ ClearConsumed \/ CheckStop
    BY <1>4 DEF WaitForData, Recheck, SpuriousWakeup, SwapBuffers, ClearConsumed, CheckStop, Pipe!vars
  <1>5. CASE BeginFlushing
    BY <1>5 DEF BeginFlushing, Pipe!Next, Pipe!CallStop
  <1>6. CASE NotifyFlushing \/ IssueStop \/ ResetStop
    BY <1>6 DEF NotifyFlushing, IssueStop, ResetStop, WakeConsumer, Pipe!vars
  <1>7. CASE Join
    <2>1. promised <= Len(written)
      BY <1>7 DEF Join, IInv, PromiseKept
    <2>2. QED
      BY <1>7, <2>1 DEF Join, Pipe!Next, Pipe!ReturnStop
  <1>8. CASE StartThread
    BY <1>8 DEF StartThread, Pipe!Next, Pipe!Start, Pipe!vars
  <1>9. CASE UNCHANGED vars
    BY <1>9 DEF vars, Pipe!vars
  <1>10. QED
    BY <1>1, <1>2, <1>3, <1>4, <1>5, <1>6, <1>7, <1>8, <1>9 DEF Next, ConsumerStep, FinishOwner

(* The threads and buffers of the cache implement the pipe: whatever their  *)
(* interleaving, nothing accepted is lost, doubled or reordered, and stop() *)
(* returns only when what was accepted before it is written.                *)
THEOREM Refinement == Spec => PipeImplemented
  <1>1. Init => Pipe!Init
    BY DEF Init, Pipe!Init
  <1>2. TypeOK /\ IInv /\ [Next]_vars => [Pipe!Next]_(Pipe!vars)
    BY PipeStep
  <1>3. QED
    BY <1>1, <1>2, Typing, Invariance, PTL DEF Spec, Pipe!Spec, PipeImplemented

-----------------------------------------------------------------------------
(* The limits of the buffers.                                              *)

(* The size of an empty buffer, and of one with a message more. *)
LEMMA BytesOfEmpty == BytesOf(<<>>) = 0
  <1>1. Measured(<<>>, 0, "buffer_length")
    BY DEF Measured
  <1>2. SumOver(<<>>, "buffer_length") = 0
    BY <1>1, SumOverEmpty
  <1>3. QED
    BY <1>2 DEF BytesOf, SumOver

(* A message at the end adds its size. *)
LEMMA BytesOfAppend ==
    ASSUME NEW data \in Seq(Message), NEW m \in Message
    PROVE  BytesOf(Append(data, m)) = BytesOf(data) + m.buffer_length
  <1> DEFINE key == "buffer_length"
             more == Append(data, m)
             n == Len(data)
  <1>1. /\ n \in Nat /\ DOMAIN data = 1..n /\ DOMAIN more = 1..(n + 1)
        /\ more[n + 1] = m /\ \A i \in 1..n : more[i] = data[i]
    BY AppendProperties
  <1>2. \A x \in Message : x[key] \in Nat /\ x[key] = x.buffer_length
    BY BoundsAssumption DEF Message
  <1>3. \A i \in 1..n : data[i] \in Message
    BY <1>1
  <1>4. Measured(data, n, key) /\ Measured(more, n + 1, key) /\ OneMore(data, n, more)
    BY <1>1, <1>2, <1>3 DEF Measured, OneMore
  <1> HIDE DEF key, more, n
  <1>5. SumOver(more, key) = SumOver(data, key) + more[n + 1][key]
    <2>1. n \in Nat
      BY <1>1
    <2>2. QED
      BY <1>4, <2>1, SumOverAppend
  <1>6. more[n + 1][key] = m.buffer_length
    BY <1>1, <1>2
  <1>7. QED
    BY <1>5, <1>6 DEF BytesOf, SumOver, more, key

(* push() keeps a buffer in its limits, with its oldest message in front. *)
LEMMA PushKeepsLimits ==
    ASSUME NEW b \in Buffer, NEW m \in Message, BoundedBuffer(b), FrontIsOldest(b)
    PROVE  BoundedBuffer(PushMessage(b, m)) /\ FrontIsOldest(PushMessage(b, m))
  <1> DEFINE c == PushMessage(b, m)
  <1>1. b.data \in Seq(Message) /\ b.bytes \in Nat
    BY DEF Buffer
  <1>2. CASE ~Admits(b, m)
    <2>1. c.data = b.data /\ c.bytes = b.bytes
      <3> DEFINE d == b.drop \/ (/\ ProspectedDuration(b.data, m) >= 0
                                 /\ OverLimit(b, m))
      <3>1. c = [b EXCEPT !.drop = d]
        BY <1>2 DEF PushMessage
      <3> HIDE DEF d, c
      <3>2. QED
        BY <3>1 DEF Buffer
    <2> HIDE DEF c
    <2>2. BoundedBuffer(c) /\ FrontIsOldest(c)
      BY <2>1 DEF BoundedBuffer, FrontIsOldest
    <2>3. QED
      BY <2>2 DEF c
  <1>3. CASE Admits(b, m)
    <2> DEFINE n == Len(b.data)
    <2>1. c.data = Append(b.data, m) /\ c.bytes = b.bytes + m.buffer_length
      BY <1>3 DEF PushMessage
    <2> HIDE DEF c
    <2>2. /\ n \in Nat /\ DOMAIN b.data = 1..n /\ DOMAIN c.data = 1..(n + 1)
          /\ c.data[n + 1] = m /\ \A i \in 1..n : c.data[i] = b.data[i]
          /\ Len(c.data) = n + 1 /\ (n = 0 <=> b.data = <<>>)
      BY <1>1, <2>1, AppendProperties, EmptySeq
    <2>3. m.buffer_length \in Nat /\ m.recv_timestamp \in Nat /\ MaxBytes \in Nat /\ MaxDuration \in Nat
      BY BoundsAssumption DEF Message
    <2>4. c.bytes = BytesOf(c.data)
      BY <1>1, <2>1, BytesOfAppend DEF BoundedBuffer
    <2>5. MaxBytes > 0 => c.bytes <= MaxBytes \/ Len(c.data) = 1
      BY <1>1, <1>3, <2>1, <2>2, <2>3 DEF Admits, OverLimit
    <2>6. ASSUME MaxDuration > 0, NEW i \in 1..(n + 1)
          PROVE  /\ c.data[i].recv_timestamp \in Nat /\ c.data[1].recv_timestamp \in Nat
                 /\ c.data[i].recv_timestamp - c.data[1].recv_timestamp \in 0..MaxDuration
      <3>1. \A j \in 1..n : b.data[j].recv_timestamp \in Nat
        <4>1. \A j \in 1..n : b.data[j] \in Message
          BY <1>1, <2>2
        <4>2. \A x \in Message : x.recv_timestamp \in Nat
          BY BoundsAssumption DEF Message
        <4>3. QED
          BY <4>1, <4>2
      <3>2. CASE n = 0
        <4>1. i = 1 /\ c.data[i] = m
          BY <2>2, <3>2
        <4>2. QED
          BY <2>3, <4>1
      <3>3. CASE n # 0 /\ i = n + 1
        <4>1. c.data[1] = b.data[1] /\ Head(b.data) = b.data[1] /\ c.data[i] = m /\ b.data # <<>>
          BY <1>1, <2>2, <3>3, HeadTailProperties
        <4>2. m.recv_timestamp - b.data[1].recv_timestamp >= 0
          BY <1>3, <2>6, <4>1 DEF Admits, ProspectedDuration
        <4>3. ~(m.recv_timestamp - b.data[1].recv_timestamp > MaxDuration)
          BY <1>3, <2>6, <4>1 DEF Admits, OverLimit, ProspectedDuration
        <4>4. b.data[1].recv_timestamp \in Nat
          BY <2>2, <3>1, <3>3
        <4>5. QED
          BY <2>3, <4>1, <4>2, <4>3, <4>4
      <3>4. CASE n # 0 /\ i \in 1..n
        <4>1. c.data[1] = b.data[1] /\ c.data[i] = b.data[i] /\ 1 \in 1..n
          BY <2>2, <3>4
        <4>2. b.data[i].recv_timestamp - b.data[1].recv_timestamp \in 0..MaxDuration
          BY <2>2, <2>6, <3>4 DEF FrontIsOldest
        <4>3. QED
          BY <3>1, <3>4, <4>1, <4>2
      <3>5. QED
        BY <2>2, <3>2, <3>3, <3>4
    <2>7. FrontIsOldest(c)
      BY <2>2, <2>6 DEF FrontIsOldest
    <2>8. ASSUME MaxDuration > 0, NEW i \in 1..(n + 1), NEW j \in 1..(n + 1)
          PROVE  c.data[j].recv_timestamp - c.data[i].recv_timestamp <= MaxDuration
      <3> DEFINE first == c.data[1].recv_timestamp
                 older == c.data[i].recv_timestamp
                 newer == c.data[j].recv_timestamp
      <3>1. /\ first \in Nat /\ older \in Nat /\ newer \in Nat
            /\ older - first \in 0..MaxDuration /\ newer - first \in 0..MaxDuration
        BY <2>6, <2>8
      <3> HIDE DEF first, older, newer
      <3>2. newer - older <= MaxDuration
        BY <2>3, <3>1
      <3>3. QED
        BY <3>2 DEF newer, older
    <2>9. BoundedBuffer(c)
      BY <2>2, <2>4, <2>5, <2>8 DEF BoundedBuffer
    <2>10. QED
      BY <2>7, <2>9 DEF c
  <1>4. QED
    BY <1>2, <1>3

(* An empty buffer is within the limits. *)
LEMMA EmptyBufferLimits == BoundedBuffer(EmptyBuffer) /\ FrontIsOldest(EmptyBuffer)
  BY BytesOfEmpty, BoundsAssumption DEF EmptyBuffer, BoundedBuffer, FrontIsOldest

(* Swaps and clears move bounded buffers around. *)
LEMMA LimitsStep ==
    ASSUME TypeOK, LimitsInv, [Next]_vars
    PROVE  LimitsInv'
  <1> USE DEF cacheVars, consumerVars, producerVars, ownerVars, history
  <1> DEFINE Fine(b) == BoundedBuffer(b) /\ FrontIsOldest(b)
  <1>1. Fine(producer_buffer) /\ Fine(consumer_buffer)
    BY DEF LimitsInv, BuffersBounded
  <1> SUFFICES Fine(producer_buffer') /\ Fine(consumer_buffer')
    BY DEF LimitsInv, BuffersBounded, BoundedBuffer, FrontIsOldest
  <1>2. ASSUME NEW p \in Producers, NEW m \in Message, Push(p, m)
        PROVE  Fine(producer_buffer') /\ Fine(consumer_buffer')
    BY <1>1, <1>2, PushKeepsLimits DEF TypeOK, Push
  <1>3. CASE ClearConsumed
    BY <1>1, <1>3, EmptyBufferLimits DEF ClearConsumed, ClearBuffer
  <1> HIDE DEF Fine
  <1>4. CASE SwapBuffers
    BY <1>1, <1>4 DEF SwapBuffers
  <1>5. CASE UNCHANGED <<producer_buffer, consumer_buffer>>
    BY <1>1, <1>5
  <1>6. ASSUME NEW p \in Producers, FinishPush(p)
        PROVE  UNCHANGED <<producer_buffer, consumer_buffer>>
    BY <1>6 DEF FinishPush, Notify, ReadCount, StoreCount
  <1>7. CASE WaitForData \/ Recheck \/ SpuriousWakeup \/ Consume \/ CheckStop
    BY <1>5, <1>7 DEF WaitForData, Recheck, SpuriousWakeup, Consume, CheckStop
  <1>8. CASE BeginFlushing \/ NotifyFlushing \/ IssueStop \/ Join \/ ResetStop \/ StartThread
    BY <1>5, <1>8 DEF BeginFlushing, NotifyFlushing, IssueStop, Join, ResetStop, StartThread
  <1>9. CASE UNCHANGED vars
    BY <1>5, <1>9 DEF vars
  <1>10. QED
    BY <1>2, <1>3, <1>4, <1>5, <1>6, <1>7, <1>8, <1>9 DEF Next, ConsumerStep, FinishOwner

-----------------------------------------------------------------------------
(* The count of refused messages.                                          *)

(* The producers whose refused message is not counted yet. *)
Counting == {p \in Producers : producer[p] \in {"read_count", "store_count"}}

(* The counting in terms of totals, in both states of a step. *)
LEMMA DropsCountedMeans ==
    /\ DropsCounted <=> refused = Total(dropped, Topics) + Cardinality(Counting)
    /\ DropsCounted' <=> refused' = Total(dropped', Topics) + Cardinality(Counting')
  <1>1. DropsCounted <=> refused = Total(dropped, Topics) + Cardinality(Counting)
    BY DEF DropsCounted, Total, Counting
  <1>2. DropsCounted' <=> refused' = Total(dropped', Topics) + Cardinality(Counting')
    BY DEF DropsCounted, Total, Counting, MapThenSumSet, MapThenFoldSet
  <1>3. QED
    BY <1>1, <1>2

(* Steps that leave the counts and the producers that count alone. *)
LEMMA LossesUntouched ==
    ASSUME LossesInv, Counting' = Counting, refused' = refused, dropped' = dropped,
           \A q \in Producers : producer'[q] = "store_count" =>
               producer[q] = "store_count" /\ count'[q] = count[q] /\ msg'[q] = msg[q]
    PROVE  LossesInv'
  <1>1. DropsCounted'
    BY DropsCountedMeans DEF LossesInv
  <1>2. CountsAreCurrent'
    BY DEF LossesInv, CountsAreCurrent
  <1>3. QED
    BY <1>1, <1>2 DEF LossesInv

(* A refused message is counted before the next one is pushed. *)
LEMMA LossesStep ==
    ASSUME TypeOK, TypeOK', LossesInv, PushesAreSerialized, PushesAreSerialized', [Next]_vars
    PROVE  LossesInv'
  <1> USE DEF cacheVars, consumerVars, producerVars, ownerVars, history
  <1>1. /\ producer \in [Producers -> ProducerSteps] /\ dropped \in [Topics -> Nat]
        /\ msg \in [Producers -> Message] /\ count \in [Producers -> Nat] /\ refused \in Nat
    BY DEF TypeOK
  <1>2. \A p \in Producers : Cardinality({p}) = 1
    BY FS_Singleton
  <1>3. Cardinality({}) = 0
    BY FS_EmptySet
  <1>4. ASSUME NEW p \in Producers, NEW m \in Message, Push(p, m)
        PROVE  LossesInv'
    <2>1. /\ producer[p] = "idle" /\ dropped' = dropped /\ count' = count
          /\ msg' = [msg EXCEPT ![p] = m]
      BY <1>4 DEF Push
    <2>2. CASE Admits(producer_buffer, m)
      <3>1. producer' = [producer EXCEPT ![p] = "notify"] /\ refused' = refused
        BY <1>4, <2>2 DEF Push
      <3>2. Counting' = Counting
        BY <1>1, <2>1, <3>1 DEF Counting
      <3>3. \A q \in Producers : producer'[q] = "store_count" =>
               producer[q] = "store_count" /\ count'[q] = count[q] /\ msg'[q] = msg[q]
        BY <1>1, <2>1, <3>1
      <3>4. QED
        BY <2>1, <3>1, <3>2, <3>3, LossesUntouched
    <2>3. CASE ~Admits(producer_buffer, m)
      <3>1. producer' = [producer EXCEPT ![p] = "read_count"] /\ refused' = refused + 1
        BY <1>4, <2>3 DEF Push
      <3>2. \A q \in Producers \ {p} : producer[q] = "idle"
        BY <1>1, <3>1 DEF PushesAreSerialized
      <3>3. Counting = {} /\ Counting' = {p}
        BY <1>1, <2>1, <3>1, <3>2 DEF Counting
      <3>4. refused = Total(dropped, Topics) + 0
        BY <1>3, <3>3, DropsCountedMeans DEF LossesInv
      <3>5. DropsCounted'
        <4>1. Total(dropped, Topics) \in Int
          BY <1>1, TopicsAssumption, TotalType
        <4>2. refused' = Total(dropped', Topics) + 1
          BY <1>1, <2>1, <3>1, <3>4, <4>1
        <4>3. Cardinality(Counting') = 1
          BY <1>2, <3>3
        <4>4. QED
          BY <4>2, <4>3, DropsCountedMeans
      <3>6. CountsAreCurrent'
        BY <1>1, <3>1, <3>2 DEF CountsAreCurrent
      <3>7. QED
        BY <3>5, <3>6 DEF LossesInv
    <2>4. QED
      BY <2>2, <2>3
  <1>5. ASSUME NEW p \in Producers, Notify(p)
        PROVE  LossesInv'
    <2>1. /\ producer[p] = "notify" /\ producer' = [producer EXCEPT ![p] = "idle"]
          /\ UNCHANGED <<refused, dropped, count, msg>>
      BY <1>5 DEF Notify
    <2>2. Counting' = Counting
      BY <1>1, <2>1 DEF Counting
    <2>3. QED
      BY <1>1, <2>1, <2>2, LossesUntouched
  <1>6. ASSUME NEW p \in Producers, ReadCount(p)
        PROVE  LossesInv'
    <2>1. /\ producer[p] = "read_count" /\ producer' = [producer EXCEPT ![p] = "store_count"]
          /\ count' = [count EXCEPT ![p] = dropped[msg[p].topic]]
          /\ UNCHANGED <<refused, dropped, msg>>
      BY <1>6 DEF ReadCount
    <2>2. Counting' = Counting
      BY <1>1, <2>1 DEF Counting
    <2>3. DropsCounted'
      BY <2>1, <2>2, DropsCountedMeans DEF LossesInv
    <2>4. CountsAreCurrent'
      BY <1>1, <2>1 DEF LossesInv, CountsAreCurrent
    <2>5. QED
      BY <2>3, <2>4 DEF LossesInv
  <1>7. ASSUME NEW p \in Producers, StoreCount(p)
        PROVE  LossesInv'
    <2> DEFINE t == msg[p].topic
    <2>1. /\ producer[p] = "store_count" /\ producer' = [producer EXCEPT ![p] = "idle"]
          /\ dropped' = [dropped EXCEPT ![t] = count[p] + 1]
          /\ UNCHANGED <<refused, count, msg>>
      BY <1>7 DEF StoreCount
    <2>2. t \in Topics /\ count[p] = dropped[t] /\ count[p] \in Nat
      BY <1>1, <2>1 DEF LossesInv, CountsAreCurrent, Message
    <2>3. \A q \in Producers \ {p} : producer[q] = "idle"
      BY <2>1 DEF PushesAreSerialized
    <2>4. Counting = {p} /\ Counting' = {}
      BY <1>1, <2>1, <2>3 DEF Counting
    <2> HIDE DEF t
    <2>5. DropsCounted'
      <3>1. dropped \in [Topics -> Int] /\ dropped' \in [Topics -> Int]
        BY <1>1 DEF TypeOK
      <3>2. Shifted(dropped, dropped', Topics, t, 1)
        <4>1. ASSUME NEW x \in Topics
              PROVE  dropped'[x] = dropped[x] + (IF x = t THEN 1 ELSE 0)
          BY <1>1, <2>1, <2>2
        <4>2. QED
          BY <4>1 DEF Shifted
      <3>3. Total(dropped', Topics) = Total(dropped, Topics) + 1
        BY <2>2, <3>1, <3>2, TopicsAssumption, TotalAdd
      <3>4. refused = Total(dropped, Topics) + 1
        BY <1>2, <2>4, DropsCountedMeans DEF LossesInv
      <3>5. refused' = Total(dropped', Topics) + 0
        BY <1>1, <2>1, <3>3, <3>4
      <3>6. QED
        BY <1>3, <2>4, <3>5, DropsCountedMeans
    <2>6. CountsAreCurrent'
      BY <1>1, <2>1, <2>3 DEF CountsAreCurrent
    <2>7. QED
      BY <2>5, <2>6 DEF LossesInv
  <1>8. CASE UNCHANGED <<refused, dropped, count, msg, producer>>
    BY <1>8, LossesUntouched DEF Counting
  <1>9. CASE WaitForData \/ Recheck \/ SpuriousWakeup \/ SwapBuffers \/ Consume \/ ClearConsumed \/ CheckStop
    BY <1>8, <1>9 DEF WaitForData, Recheck, SpuriousWakeup, SwapBuffers, Consume, ClearConsumed, CheckStop
  <1>10. CASE BeginFlushing \/ NotifyFlushing \/ IssueStop \/ Join \/ ResetStop \/ StartThread
    BY <1>8, <1>10 DEF BeginFlushing, NotifyFlushing, IssueStop, Join, ResetStop, StartThread
  <1>11. CASE UNCHANGED vars
    BY <1>8, <1>11 DEF vars
  <1>12. QED
    BY <1>4, <1>5, <1>6, <1>7, <1>9, <1>10, <1>11 DEF Next, FinishPush, ConsumerStep, FinishOwner

(* No buffer outgrows its limits, and no refused message goes uncounted when *)
(* the pushes are serialized.                                               *)
THEOREM LimitsSafety == Spec /\ []PushesAreSerialized => []LimitsAndLosses
  <1>1. Init => LimitsInv
    BY EmptyBufferLimits DEF Init, LimitsInv, BuffersBounded
  <1>2. Init => LossesInv
    <2> SUFFICES ASSUME Init PROVE LossesInv
      OBVIOUS
    <2>1. Counting = {} /\ CountsAreCurrent
      BY DEF Init, Counting, CountsAreCurrent
    <2>2. dropped = [x \in Topics |-> 0] /\ refused = 0
      BY DEF Init
    <2>3. Total(dropped, Topics) = 0
      BY <2>2, TopicsAssumption, TotalZero
    <2>4. Cardinality(Counting) = 0
      BY <2>1, FS_EmptySet
    <2>5. DropsCounted
      BY <2>2, <2>3, <2>4, DropsCountedMeans
    <2>6. QED
      BY <2>1, <2>5 DEF LossesInv
  <1>3. TypeOK /\ LimitsInv /\ [Next]_vars => LimitsInv'
    BY LimitsStep
  <1>4. TypeOK /\ TypeOK' /\ LossesInv /\ PushesAreSerialized /\ PushesAreSerialized' /\ [Next]_vars
        => LossesInv'
    BY LossesStep
  <1>5. LimitsInv /\ LossesInv => LimitsAndLosses
    BY DEF LimitsInv, LossesInv, LimitsAndLosses
  <1>6. QED
    BY <1>1, <1>2, <1>3, <1>4, <1>5, Typing, PTL DEF Spec
=============================================================================
