---------------------------- MODULE PlayerProofs ----------------------------
(***************************************************************************)
(* Proofs about Player, for any callers, bag, queue and options; then about  *)
(* its clock, for any rates and times, its action clients, for any recorded    *)
(* messages, the profiles its publishers take, for any offers, and the topics   *)
(* it plays, for any bag.                                                     *)
(***************************************************************************)
EXTENDS PlayerProps, PlayerClock, PlayerClients, QosProfiles, TopicSelection, SequenceTheorems,
        FiniteSetTheorems, TLAPS

(* What taking or releasing a mutex changes. *)
LEMMA LockUpdate ==
  \A l \in LockRecords : \A h \in Holders :
    LET inPlayback == [l EXCEPT !.in_playback = h]
        ready      == [l EXCEPT !.ready = h]
        main       == [l EXCEPT !.main = h]
    IN  /\ {inPlayback, ready, main} \subseteq LockRecords
        /\ inPlayback.in_playback = h /\ inPlayback.ready = l.ready /\ inPlayback.main = l.main
        /\ ready.in_playback = l.in_playback /\ ready.ready = h /\ ready.main = l.main
        /\ main.in_playback = l.in_playback /\ main.ready = l.ready /\ main.main = h
  BY DEF LockRecords

(* What releasing all of them leaves. *)
LEMMA LockRelease ==
  ASSUME lock \in LockRecords, lock' = [x \in DOMAIN lock |-> "free"]
  PROVE  /\ lock' \in LockRecords
         /\ lock'.in_playback = "free" /\ lock'.ready = "free" /\ lock'.main = "free"
  BY DEF LockRecords, Holders

(* What setting a flag changes. *)
LEMMA FlagUpdate ==
  \A f \in FlagRecords : \A b \in BOOLEAN :
    /\ [f EXCEPT !.in_playback = b] \in FlagRecords
    /\ [f EXCEPT !.stop = b] \in FlagRecords
    /\ [f EXCEPT !.ready = b] \in FlagRecords
    /\ [f EXCEPT !.cancel = b] \in FlagRecords
    /\ [f EXCEPT !.skip = b, !.cancel = b] \in FlagRecords
    /\ f.ready \in BOOLEAN /\ f.skip \in BOOLEAN /\ f.stop \in BOOLEAN
    /\ f.loop \in BOOLEAN /\ f.in_playback \in BOOLEAN
  BY DEF FlagRecords

(* The two flags the invariant is about, after one of the flags was set. *)
LEMMA FlagFields ==
  \A f \in FlagRecords : \A b \in BOOLEAN :
    /\ [f EXCEPT !.in_playback = b].in_playback = b /\ [f EXCEPT !.in_playback = b].ready = f.ready
    /\ [f EXCEPT !.ready = b].ready = b /\ [f EXCEPT !.ready = b].in_playback = f.in_playback
    /\ [f EXCEPT !.stop = b].ready = f.ready /\ [f EXCEPT !.stop = b].in_playback = f.in_playback
    /\ [f EXCEPT !.cancel = b].ready = f.ready
    /\ [f EXCEPT !.cancel = b].in_playback = f.in_playback
    /\ [f EXCEPT !.skip = b, !.cancel = b].ready = f.ready
    /\ [f EXCEPT !.skip = b, !.cancel = b].in_playback = f.in_playback
  BY DEF FlagRecords

(* The end of a wait resets at most cancel_wait_for_next_message_. *)
LEMMA WaitKeepsFlags ==
  ASSUME flags \in FlagRecords, WaitPausedEnds \/ WaitTimeEnds
  PROVE  /\ flags' \in FlagRecords
         /\ flags'.ready = flags.ready /\ flags'.in_playback = flags.in_playback
  <1>1. CASE flags' = flags
    BY <1>1
  <1>2. CASE flags' = [flags EXCEPT !.cancel = FALSE]
    BY <1>2, FlagFields, FlagUpdate
  <1>3. QED
    BY <1>1, <1>2 DEF WaitPausedEnds, WaitTimeEnds

(* What setting play_next_ and the answer to it changes. *)
LEMMA NextUpdate ==
  \A n \in NextRecords : \A b \in BOOLEAN :
    /\ [n EXCEPT !.requested = b] \in NextRecords
    /\ [n EXCEPT !.finished = b] \in NextRecords
    /\ [n EXCEPT !.finished = TRUE, !.result = b] \in NextRecords
    /\ [n EXCEPT !.requested = FALSE, !.result = b] \in NextRecords
    /\ [requested |-> FALSE, finished |-> TRUE, result |-> b] \in NextRecords
  BY DEF NextRecords

(* What counting a call or a playback, or moving on by a message, changes. *)
LEMMA CountUpdate ==
  /\ 1 \in 1 .. LastMessage + 1 /\ 0 \in 0 .. LastMessage
  /\ \A n \in 0 .. MaxCall : n < MaxCall => n + 1 \in 0 .. MaxCall
  /\ \A n \in 0 .. MaxPlay : n < MaxPlay =>
        /\ n + 0 \in 0 .. MaxPlay
        /\ n + 1 \in 0 .. MaxPlay
        /\ \A b \in BOOLEAN : n + (IF b THEN 0 ELSE 1) \in 0 .. MaxPlay
  /\ \A n \in 0 .. LastMessage : n + 1 \in 1 .. LastMessage + 1
  /\ \A n \in Positions : n + 1 \in 1 .. LastMessage + 1
  /\ \A n \in Positions \cup {LastMessage + 1} : n \in 1 .. LastMessage + 1
  BY PlayerAssumption DEF Positions

(* What the loading thread leaves. *)
LEMMA LoadTypes ==
  ASSUME Types, LoadMessage
  PROVE  Types'
  <1>1. read \in Positions /\ queue \in Seq(Positions) /\ Len(queue) < QueueSize
    BY DEF Types, LoadMessage
  <1>2. queue' \in Seq(Positions) /\ Len(queue') = Len(queue) + 1
    BY <1>1, AppendProperties DEF LoadMessage
  <1>3. Len(queue') <= QueueSize
    BY <1>1, <1>2, PlayerAssumption, LenProperties
  <1>4. read' \in 1 .. LastMessage + 1
    BY <1>1, CountUpdate DEF LoadMessage
  <1>5. QED
    BY <1>2, <1>3, <1>4 DEF Types, LoadMessage, threadVars, historyVars

(* What take_next_message_from_queue leaves. *)
LEMMA TakeTypes ==
  ASSUME Types, TakeMessage
  PROVE  /\ message' \in 0 .. LastMessage
         /\ queue' \in Seq(Positions) /\ Len(queue') <= QueueSize
         /\ loader' \in {"none", "running", "done"}
  <1>1. CASE queue = <<>>
    BY <1>1, CountUpdate DEF Types, TakeMessage
  <1>2. CASE queue # <<>>
    <2>1. Head(queue) \in Positions /\ Tail(queue) \in Seq(Positions)
          /\ Len(Tail(queue)) = Len(queue) - 1
      BY <1>2, HeadTailProperties DEF Types
    <2>2. message' = Head(queue) /\ queue' = Tail(queue) /\ loader' = loader
      BY <1>2 DEF TakeMessage
    <2>3. Len(queue') <= QueueSize
      BY <2>1, <2>2, PlayerAssumption, LenProperties DEF Types
    <2>4. \A n \in Positions : n \in 0 .. LastMessage
      BY PlayerAssumption DEF Positions
    <2>5. QED
      BY <2>1, <2>2, <2>3, <2>4 DEF Types
  <1>3. QED
    BY <1>1, <1>2

(* What starting to read again leaves. *)
LEMMA ReloadTypes ==
  ASSUME Types, NEW position \in 1 .. LastMessage + 1, Reload(position)
  PROVE  /\ queue' \in Seq(Positions) /\ Len(queue') <= QueueSize
         /\ read' \in 1 .. LastMessage + 1
         /\ load' \in BOOLEAN
         /\ loader' \in {"none", "running", "done"}
  BY PlayerAssumption, EmptySeq DEF Reload

(* At first every variable has its type. *)
LEMMA InitTypes == Init => Types
  <1>1. <<>> \in Seq(Positions) /\ Len(<<>>) = 0
    BY EmptySeq
  <1>3. Init => lock \in LockRecords /\ next \in NextRecords
    BY DEF Init, LockRecords, NextRecords, Holders
  <1>4. Init => flags \in FlagRecords
    BY PlayerAssumption DEF Init, FlagRecords
  <1>5. Init => /\ pc \in [Callers -> CallPlaces]
                /\ target \in [Callers -> 1 .. LastMessage + 1]
    BY CountUpdate DEF Init, CallPlaces
  <1>6. Init => plays \in 0 .. MaxPlay /\ calls \in 0 .. MaxCall
    BY PlayerAssumption DEF Init
  <1>7. Init => Len(queue) <= QueueSize /\ queue \in Seq(Positions)
    BY <1>1, PlayerAssumption DEF Init
  <1>8. QED
    BY <1>3, <1>4, <1>5, <1>6, <1>7, CountUpdate, PlayerAssumption DEF Init, Types

(* Every step leaves every variable in its type. *)
LEMMA TypesStep ==
  ASSUME Types, [Next]_vars
  PROVE  Types'
  <1>0. <<>> \in Seq(Positions) /\ Len(<<>>) <= QueueSize
    BY EmptySeq, PlayerAssumption
  <1> USE PlayerAssumption, LockUpdate, FlagUpdate, NextUpdate, CountUpdate DEF Types,
          threadVars, loadVars, historyVars, At, GoTo, Continue, Call, PassPlaces,
          LoopPlaces, EndPlaces, CallPlaces, Holders
  <1>1. CASE LoadMessage
    BY <1>1, LoadTypes
  <1>2. CASE LoadingEnds
    BY <1>2 DEF LoadingEnds
  <1>3. CASE StartPass
    BY <1>3 DEF StartPass
  <1>4. CASE Rewind
    BY <1>4, ReloadTypes DEF Rewind
  <1>5. CASE QueueFilled
    BY <1>5 DEF QueueFilled
  <1>6. CASE Announce
    BY <1>6 DEF Announce
  <1>7. CASE TakeFirst
    BY <1>7, TakeTypes DEF TakeFirst
  <1>8. CASE LockMain
    BY <1>8 DEF LockMain
  <1>9. CASE Top
    BY <1>9 DEF Top
  <1>10. CASE Wait
    BY <1>10 DEF Wait
  <1>11. CASE WaitPausedEnds
    BY <1>11, WaitKeepsFlags DEF WaitPausedEnds
  <1>12. CASE WasPaused
    BY <1>12 DEF WasPaused
  <1>13. CASE WaitTimeEnds
    BY <1>13, WaitKeepsFlags DEF WaitTimeEnds
  <1>14. CASE Message
    BY <1>14 DEF Message
  <1>15. CASE NoMessage
    BY <1>15 DEF NoMessage
  <1>16. CASE Publish
    BY <1>16 DEF Publish
  <1>17. CASE Published
    BY <1>17 DEF Published
  <1>18. CASE Answer
    BY <1>18 DEF Answer
  <1>19. CASE Take
    BY <1>19, TakeTypes DEF Take
  <1>20. CASE Leave
    BY <1>20 DEF Leave
  <1>21. CASE Again
    BY <1>21 DEF Again
  <1>22. CASE EndPlayback
    BY <1>22 DEF EndPlayback
  <1>23. CASE Purge
    BY <1>23, <1>0 DEF Purge
  <1>24. CASE LastRequest
    BY <1>24 DEF LastRequest
  <1>25. ASSUME NEW c \in Callers, JoinAndCreate(c) PROVE Types'
    BY <1>25 DEF JoinAndCreate
  <1>26. ASSUME NEW c \in Callers, Interrupt(c) PROVE Types'
    BY <1>26 DEF Interrupt
  <1>27. ASSUME NEW c \in Callers, Finished(c) PROVE Types'
    BY <1>27 DEF Finished
  <1>28. ASSUME NEW c \in Callers, Request(c) PROVE Types'
    BY <1>28 DEF Request
  <1>29. ASSUME NEW c \in Callers, Await(c) PROVE Types'
    BY <1>29 DEF Await
  <1>30. ASSUME NEW c \in Callers, Answered(c) PROVE Types'
    BY <1>30 DEF Answered
  <1>31. ASSUME NEW c \in Callers, SeekReady(c) PROVE Types'
    BY <1>31 DEF SeekReady
  <1>32. ASSUME NEW c \in Callers, SeekStop(c) PROVE Types'
    BY <1>32 DEF SeekStop
  <1>33. ASSUME NEW c \in Callers, SeekRestart(c) PROVE Types'
    BY <1>33, LockRelease, ReloadTypes DEF SeekRestart
  <1>34. ASSUME NEW c \in Callers, Started(c) PROVE Types'
    BY <1>34 DEF Started
  <1>35. ASSUME NEW c \in Callers, StartReady(c) PROVE Types'
    BY <1>35 DEF StartReady
  <1>36. ASSUME NEW c \in Callers, Play(c) PROVE Types'
    BY <1>36 DEF Play
  <1>37. ASSUME NEW c \in Callers, Stop(c) PROVE Types'
    BY <1>37 DEF Stop
  <1>38. ASSUME NEW c \in Callers, WaitForPlaybackToFinish(c) PROVE Types'
    BY <1>38 DEF WaitForPlaybackToFinish
  <1>39. ASSUME NEW c \in Callers, PlayNext(c) PROVE Types'
    BY <1>39 DEF PlayNext
  <1>40. ASSUME NEW c \in Callers, WaitForPlaybackToStart(c) PROVE Types'
    BY <1>40 DEF WaitForPlaybackToStart
  <1>41. ASSUME NEW c \in Callers, NEW op \in {"pause", "resume"}, SetPaused(c, op)
        PROVE  Types'
    BY <1>41 DEF SetPaused
  <1>42. ASSUME NEW c \in Callers, NEW position \in Positions \cup {LastMessage + 1},
                Seek(c, position)
        PROVE  Types'
    BY <1>42 DEF Seek
  <1>43. CASE UNCHANGED vars
    BY <1>43 DEF vars
  <1> HIDE LockUpdate, FlagUpdate, NextUpdate, CountUpdate
      DEF Types, Call, Continue, PassPlaces, LoopPlaces, EndPlaces, CallPlaces, Holders
  <1>44. QED
    BY <1>1, <1>2, <1>3, <1>4, <1>5, <1>6, <1>7, <1>8, <1>9, <1>10, <1>11, <1>12, <1>13,
       <1>14, <1>15, <1>16, <1>17, <1>18, <1>19, <1>20, <1>21, <1>22, <1>23, <1>24, <1>25,
       <1>26, <1>27, <1>28, <1>29, <1>30, <1>31, <1>32, <1>33, <1>34, <1>35, <1>36, <1>37,
       <1>38, <1>39, <1>40, <1>41, <1>42, <1>43
       DEF Next, Loader, PlaybackThread, NewCall, CallerStep

(* A mutex is taken and released together with what it protects. *)
LEMMA LocksStep ==
  ASSUME Types, Locks, [Next]_vars
  PROVE  Locks'
  <1> USE PlayerAssumption, LockUpdate DEF Locks, Types, Free, threadVars, loadVars,
          historyVars, At, GoTo, Continue, Call, MainPlaces, Holders
  <1>1. CASE LoadMessage
    BY <1>1 DEF LoadMessage
  <1>2. CASE LoadingEnds
    BY <1>2 DEF LoadingEnds
  <1>3. CASE StartPass
    BY <1>3 DEF StartPass
  <1>4. CASE Rewind
    BY <1>4 DEF Rewind, Reload
  <1>5. CASE QueueFilled
    BY <1>5 DEF QueueFilled
  <1>6. CASE Announce
    BY <1>6 DEF Announce
  <1>7. CASE TakeFirst
    BY <1>7 DEF TakeFirst
  <1>8. CASE LockMain
    BY <1>8 DEF LockMain
  <1>9. CASE Top
    BY <1>9 DEF Top
  <1>10. CASE Wait
    BY <1>10 DEF Wait
  <1>11. CASE WaitPausedEnds
    BY <1>11 DEF WaitPausedEnds
  <1>12. CASE WasPaused
    BY <1>12 DEF WasPaused
  <1>13. CASE WaitTimeEnds
    BY <1>13 DEF WaitTimeEnds
  <1>14. CASE Message
    BY <1>14 DEF Message
  <1>15. CASE NoMessage
    BY <1>15 DEF NoMessage
  <1>16. CASE Publish
    BY <1>16 DEF Publish
  <1>17. CASE Published
    BY <1>17 DEF Published
  <1>18. CASE Answer
    BY <1>18 DEF Answer
  <1>19. CASE Take
    BY <1>19 DEF Take
  <1>20. CASE Leave
    BY <1>20 DEF Leave
  <1>21. CASE Again
    BY <1>21 DEF Again
  <1>22. CASE EndPlayback
    BY <1>22 DEF EndPlayback
  <1>23. CASE Purge
    BY <1>23 DEF Purge
  <1>24. CASE LastRequest
    BY <1>24 DEF LastRequest
  <1>25. ASSUME NEW c \in Callers, JoinAndCreate(c) PROVE Locks'
    BY <1>25 DEF JoinAndCreate
  <1>26. ASSUME NEW c \in Callers, Interrupt(c) PROVE Locks'
    BY <1>26 DEF Interrupt
  <1>27. ASSUME NEW c \in Callers, Finished(c) PROVE Locks'
    BY <1>27 DEF Finished
  <1>28. ASSUME NEW c \in Callers, Request(c) PROVE Locks'
    BY <1>28 DEF Request
  <1>29. ASSUME NEW c \in Callers, Await(c) PROVE Locks'
    BY <1>29 DEF Await
  <1>30. ASSUME NEW c \in Callers, Answered(c) PROVE Locks'
    BY <1>30 DEF Answered
  <1>31. ASSUME NEW c \in Callers, SeekReady(c) PROVE Locks'
    BY <1>31 DEF SeekReady
  <1>32. ASSUME NEW c \in Callers, SeekStop(c) PROVE Locks'
    BY <1>32 DEF SeekStop
  <1>33. ASSUME NEW c \in Callers, SeekRestart(c) PROVE Locks'
    <2>1. lock.in_playback = c /\ lock.ready = c /\ lock.main = c
      BY <1>33 DEF SeekRestart, Locks
    <2>2. \A d \in Callers \ {c} : pc[d] \notin {"join", "interrupt", "seek_ready", "seek_stop",
                                                 "seek_restart", "start_ready"}
      BY <2>1 DEF Locks
    <2>3. playback \notin MainPlaces /\ playback \notin {"take_first", "purge"}
      BY <2>1 DEF Locks
    <2>4. lock'.in_playback = "free" /\ lock'.ready = "free" /\ lock'.main = "free"
      BY <1>33, LockRelease DEF SeekRestart, Types
    <2>5. pc' = [pc EXCEPT ![c] = "idle"] /\ playback' = playback
      BY <1>33 DEF SeekRestart, Continue, threadVars
    <2>6. \A d \in Callers : pc'[d] \notin {"join", "interrupt", "seek_ready", "seek_stop",
                                            "seek_restart", "start_ready"}
      BY <2>2, <2>5 DEF Types
    <2>7. QED
      BY <2>3, <2>4, <2>5, <2>6 DEF Locks
  <1>34. ASSUME NEW c \in Callers, Started(c) PROVE Locks'
    BY <1>34 DEF Started
  <1>35. ASSUME NEW c \in Callers, StartReady(c) PROVE Locks'
    BY <1>35 DEF StartReady
  <1>36. ASSUME NEW c \in Callers, Play(c) PROVE Locks'
    BY <1>36, SMTT(30) DEF Play
  <1>37. ASSUME NEW c \in Callers, Stop(c) PROVE Locks'
    BY <1>37 DEF Stop
  <1>38. ASSUME NEW c \in Callers, WaitForPlaybackToFinish(c) PROVE Locks'
    BY <1>38 DEF WaitForPlaybackToFinish
  <1>39. ASSUME NEW c \in Callers, PlayNext(c) PROVE Locks'
    BY <1>39 DEF PlayNext
  <1>40. ASSUME NEW c \in Callers, WaitForPlaybackToStart(c) PROVE Locks'
    BY <1>40 DEF WaitForPlaybackToStart
  <1>41. ASSUME NEW c \in Callers, NEW op \in {"pause", "resume"}, SetPaused(c, op)
        PROVE  Locks'
    BY <1>41 DEF SetPaused
  <1>42. ASSUME NEW c \in Callers, NEW position \in Positions \cup {LastMessage + 1},
                Seek(c, position)
        PROVE  Locks'
    BY <1>42 DEF Seek
  <1>43. CASE UNCHANGED vars
    BY <1>43 DEF vars
  <1>44. QED
    BY <1>1, <1>2, <1>3, <1>4, <1>5, <1>6, <1>7, <1>8, <1>9, <1>10, <1>11, <1>12, <1>13,
       <1>14, <1>15, <1>16, <1>17, <1>18, <1>19, <1>20, <1>21, <1>22, <1>23, <1>24, <1>25,
       <1>26, <1>27, <1>28, <1>29, <1>30, <1>31, <1>32, <1>33, <1>34, <1>35, <1>36, <1>37,
       <1>38, <1>39, <1>40, <1>41, <1>42, <1>43
       DEF Next, Loader, PlaybackThread, NewCall, CallerStep

-----------------------------------------------------------------------------
(* The other parts of the invariant.                                       *)

(* is_ready_to_play_from_queue_ is set in the loop and reset where it is left. *)
LEMMA ReadyStep ==
  ASSUME IInv, [Next]_vars
  PROVE  ReadyInLoop'
  <1>0. flags \in FlagRecords /\ pc \in [Callers -> CallPlaces]
    BY DEF IInv, TypeOK, Types
  <1> USE PlayerAssumption
      DEF IInv, ReadyInLoop, LoopPlaces, threadVars, loadVars, historyVars, At, GoTo, Continue, Call
  <1>1. CASE LoadMessage \/ LoadingEnds \/ UNCHANGED vars
    BY <1>1, <1>0, FlagFields DEF LoadMessage, LoadingEnds, vars
  <1>2. CASE StartPass \/ QueueFilled \/ Again \/ LastRequest
    BY <1>2, <1>0, FlagFields DEF StartPass, QueueFilled, Again, LastRequest
  <1>3. CASE \/ TakeFirst \/ LockMain \/ Top \/ Wait \/ WasPaused
             \/ NoMessage \/ Publish \/ Published \/ Answer \/ Take
    BY <1>3, <1>0, FlagFields
       DEF TakeFirst, LockMain, Top, Wait, WasPaused, NoMessage, Publish, Published,
           Answer, Take
  <1>4. CASE WaitPausedEnds \/ WaitTimeEnds
    BY <1>4, <1>0, WaitKeepsFlags DEF WaitPausedEnds, WaitTimeEnds
  <1>5. CASE Message
    BY <1>5, <1>0, FlagFields DEF Message
  <1>6. CASE Rewind
    BY <1>6, <1>0, FlagFields DEF Rewind
  <1>7. CASE Announce
    BY <1>7, <1>0, FlagFields DEF Announce
  <1>8. CASE Leave
    BY <1>8, <1>0, FlagFields DEF Leave
  <1>9. CASE EndPlayback
    BY <1>9, <1>0, FlagFields DEF EndPlayback
  <1>10. CASE Purge
    BY <1>10, <1>0, FlagFields DEF Purge
  <1>11. ASSUME NEW c \in Callers,
               \/ Finished(c) \/ Request(c) \/ Await(c) \/ Answered(c) \/ PlayNext(c)
               \/ Started(c) \/ StartReady(c) \/ WaitForPlaybackToFinish(c)
               \/ WaitForPlaybackToStart(c)
        PROVE  ReadyInLoop'
    BY <1>11, <1>0, FlagFields
       DEF Finished, Request, Await, Answered, PlayNext, Started, StartReady,
           WaitForPlaybackToFinish, WaitForPlaybackToStart
  <1>12. ASSUME NEW c \in Callers, Play(c) PROVE ReadyInLoop'
    BY <1>12, <1>0, FlagFields DEF Play
  <1>13. ASSUME NEW c \in Callers, Stop(c) PROVE ReadyInLoop'
    BY <1>13, <1>0, FlagFields DEF Stop
  <1>14. ASSUME NEW c \in Callers, Interrupt(c) PROVE ReadyInLoop'
    BY <1>14, <1>0, FlagFields DEF Interrupt
  <1>15. ASSUME NEW c \in Callers, JoinAndCreate(c) PROVE ReadyInLoop'
    BY <1>15, <1>0, FlagFields DEF JoinAndCreate
  <1>16. ASSUME NEW c \in Callers, SeekReady(c) PROVE ReadyInLoop'
    BY <1>16, <1>0, FlagFields DEF SeekReady
  <1>17. ASSUME NEW c \in Callers, SeekStop(c) PROVE ReadyInLoop'
    BY <1>17, <1>0, FlagFields DEF SeekStop
  <1>18. ASSUME NEW c \in Callers, SeekRestart(c) PROVE ReadyInLoop'
    BY <1>18, <1>0, FlagFields DEF SeekRestart
  <1>19. ASSUME NEW c \in Callers,
               \/ \E op \in {"pause", "resume"} : SetPaused(c, op)
               \/ \E position \in Positions \cup {LastMessage + 1} : Seek(c, position)
                     PROVE  ReadyInLoop'
    BY <1>19, <1>0, FlagFields DEF SetPaused, Seek
  <1>20. QED
    BY <1>1, <1>2, <1>3, <1>4, <1>5, <1>6, <1>7, <1>8, <1>9, <1>10, <1>11, <1>12, <1>13,
       <1>14, <1>15, <1>16, <1>17, <1>18, <1>19
       DEF Next, Loader, PlaybackThread, NewCall, CallerStep

(* is_in_playback_ stays set until the new thread ends, which needs the mutex. *)
LEMMA JoinsStep ==
  ASSUME IInv, [Next]_vars
  PROVE  JoinsInPlayback'
  <1>0. flags \in FlagRecords /\ pc \in [Callers -> CallPlaces]
    BY DEF IInv, TypeOK, Types
  <1> USE PlayerAssumption
      DEF IInv, JoinsInPlayback, threadVars, loadVars, historyVars, At, GoTo, Continue, Call
  <1>1. CASE LoadMessage \/ LoadingEnds \/ UNCHANGED vars
    BY <1>1, <1>0, FlagFields DEF LoadMessage, LoadingEnds, vars
  <1>2. CASE StartPass \/ QueueFilled \/ Again \/ LastRequest
    BY <1>2, <1>0, FlagFields DEF StartPass, QueueFilled, Again, LastRequest
  <1>3. CASE \/ TakeFirst \/ LockMain \/ Top \/ Wait \/ WasPaused
             \/ NoMessage \/ Publish \/ Published \/ Answer \/ Take
    BY <1>3, <1>0, FlagFields
       DEF TakeFirst, LockMain, Top, Wait, WasPaused, NoMessage, Publish, Published,
           Answer, Take
  <1>4. CASE WaitPausedEnds \/ WaitTimeEnds
    BY <1>4, <1>0, WaitKeepsFlags DEF WaitPausedEnds, WaitTimeEnds
  <1>5. CASE Message
    BY <1>5, <1>0, FlagFields DEF Message
  <1>6. CASE Rewind
    BY <1>6, <1>0, FlagFields DEF Rewind
  <1>7. CASE Announce
    BY <1>7, <1>0, FlagFields DEF Announce
  <1>8. CASE Leave
    BY <1>8, <1>0, FlagFields DEF Leave
  <1>9. CASE EndPlayback
    BY <1>9, <1>0, FlagFields DEF EndPlayback, TypeOK, Locks, Free
  <1>10. CASE Purge
    BY <1>10, <1>0, FlagFields DEF Purge
  <1>11. ASSUME NEW c \in Callers,
               \/ Finished(c) \/ Request(c) \/ Await(c) \/ Answered(c) \/ PlayNext(c)
               \/ Started(c) \/ StartReady(c) \/ WaitForPlaybackToFinish(c)
               \/ WaitForPlaybackToStart(c)
        PROVE  JoinsInPlayback'
    BY <1>11, <1>0, FlagFields
       DEF Finished, Request, Await, Answered, PlayNext, Started, StartReady,
           WaitForPlaybackToFinish, WaitForPlaybackToStart
  <1>12. ASSUME NEW c \in Callers, Play(c) PROVE JoinsInPlayback'
    BY <1>12, <1>0, FlagFields DEF Play
  <1>13. ASSUME NEW c \in Callers, Stop(c) PROVE JoinsInPlayback'
    BY <1>13, <1>0, FlagFields DEF Stop
  <1>14. ASSUME NEW c \in Callers, Interrupt(c) PROVE JoinsInPlayback'
    BY <1>14, <1>0, FlagFields DEF Interrupt
  <1>15. ASSUME NEW c \in Callers, JoinAndCreate(c) PROVE JoinsInPlayback'
    BY <1>15, <1>0, FlagFields DEF JoinAndCreate
  <1>16. ASSUME NEW c \in Callers, SeekReady(c) PROVE JoinsInPlayback'
    BY <1>16, <1>0, FlagFields DEF SeekReady
  <1>17. ASSUME NEW c \in Callers, SeekStop(c) PROVE JoinsInPlayback'
    BY <1>17, <1>0, FlagFields DEF SeekStop
  <1>18. ASSUME NEW c \in Callers, SeekRestart(c) PROVE JoinsInPlayback'
    BY <1>18, <1>0, FlagFields DEF SeekRestart
  <1>19. ASSUME NEW c \in Callers,
               \/ \E op \in {"pause", "resume"} : SetPaused(c, op)
               \/ \E position \in Positions \cup {LastMessage + 1} : Seek(c, position)
                     PROVE  JoinsInPlayback'
    BY <1>19, <1>0, FlagFields DEF SetPaused, Seek
  <1>20. QED
    BY <1>1, <1>2, <1>3, <1>4, <1>5, <1>6, <1>7, <1>8, <1>9, <1>10, <1>11, <1>12, <1>13,
       <1>14, <1>15, <1>16, <1>17, <1>18, <1>19
       DEF Next, Loader, PlaybackThread, NewCall, CallerStep

(* The ready mutex, which a seek holds, is needed to leave the loop. *)
LEMMA SeeksStep ==
  ASSUME IInv, [Next]_vars
  PROVE  SeeksWhilePlaying'
  <1>0. flags \in FlagRecords /\ pc \in [Callers -> CallPlaces]
    BY DEF IInv, TypeOK, Types
  <1> USE PlayerAssumption
      DEF IInv, SeeksWhilePlaying, ReadyInLoop, LoopPlaces, threadVars, loadVars, historyVars, At, GoTo, Continue, Call
  <1>1. CASE LoadMessage \/ LoadingEnds \/ UNCHANGED vars
    BY <1>1, <1>0, FlagFields DEF LoadMessage, LoadingEnds, vars
  <1>2. CASE StartPass \/ QueueFilled \/ Again \/ LastRequest
    BY <1>2, <1>0, FlagFields DEF StartPass, QueueFilled, Again, LastRequest
  <1>3. CASE \/ TakeFirst \/ LockMain \/ Top \/ Wait \/ WasPaused
             \/ NoMessage \/ Publish \/ Published \/ Answer \/ Take
    BY <1>3, <1>0, FlagFields
       DEF TakeFirst, LockMain, Top, Wait, WasPaused, NoMessage, Publish, Published,
           Answer, Take
  <1>4. CASE WaitPausedEnds \/ WaitTimeEnds
    BY <1>4, <1>0, WaitKeepsFlags DEF WaitPausedEnds, WaitTimeEnds
  <1>5. CASE Message
    BY <1>5, <1>0, FlagFields DEF Message
  <1>6. CASE Rewind
    BY <1>6, <1>0, FlagFields DEF Rewind, TypeOK, Locks, Free
  <1>7. CASE Announce
    BY <1>7, <1>0, FlagFields DEF Announce
  <1>8. CASE Leave
    BY <1>8, <1>0, FlagFields DEF Leave, TypeOK, Locks, Free
  <1>9. CASE EndPlayback
    BY <1>9, <1>0, FlagFields DEF EndPlayback, TypeOK, Locks, Free
  <1>10. CASE Purge
    BY <1>10, <1>0, FlagFields DEF Purge, TypeOK, Locks, Free
  <1>11. ASSUME NEW c \in Callers,
               \/ Finished(c) \/ Request(c) \/ Await(c) \/ Answered(c) \/ PlayNext(c)
               \/ Started(c) \/ StartReady(c) \/ WaitForPlaybackToFinish(c)
               \/ WaitForPlaybackToStart(c)
        PROVE  SeeksWhilePlaying'
    BY <1>11, <1>0, FlagFields
       DEF Finished, Request, Await, Answered, PlayNext, Started, StartReady,
           WaitForPlaybackToFinish, WaitForPlaybackToStart
  <1>12. ASSUME NEW c \in Callers, Play(c) PROVE SeeksWhilePlaying'
    BY <1>12, <1>0, FlagFields DEF Play
  <1>13. ASSUME NEW c \in Callers, Stop(c) PROVE SeeksWhilePlaying'
    BY <1>13, <1>0, FlagFields DEF Stop
  <1>14. ASSUME NEW c \in Callers, Interrupt(c) PROVE SeeksWhilePlaying'
    BY <1>14, <1>0, FlagFields DEF Interrupt
  <1>15. ASSUME NEW c \in Callers, JoinAndCreate(c) PROVE SeeksWhilePlaying'
    BY <1>15, <1>0, FlagFields DEF JoinAndCreate
  <1>16. ASSUME NEW c \in Callers, SeekReady(c) PROVE SeeksWhilePlaying'
    BY <1>16, <1>0, FlagFields DEF SeekReady
  <1>17. ASSUME NEW c \in Callers, SeekStop(c) PROVE SeeksWhilePlaying'
    BY <1>17, <1>0, FlagFields DEF SeekStop
  <1>18. ASSUME NEW c \in Callers, SeekRestart(c) PROVE SeeksWhilePlaying'
    BY <1>18, <1>0, FlagFields DEF SeekRestart
  <1>19. ASSUME NEW c \in Callers,
               \/ \E op \in {"pause", "resume"} : SetPaused(c, op)
               \/ \E position \in Positions \cup {LastMessage + 1} : Seek(c, position)
                     PROVE  SeeksWhilePlaying'
    BY <1>19, <1>0, FlagFields DEF SetPaused, Seek
  <1>20. QED
    BY <1>1, <1>2, <1>3, <1>4, <1>5, <1>6, <1>7, <1>8, <1>9, <1>10, <1>11, <1>12, <1>13,
       <1>14, <1>15, <1>16, <1>17, <1>18, <1>19
       DEF Next, Loader, PlaybackThread, NewCall, CallerStep

(* Neither a seek nor the loading thread acts on a playback that is over. *)
LEMMA QuietStep ==
  ASSUME IInv, [Next]_vars
  PROVE  FinishedIsQuiet'
  <1>0. flags \in FlagRecords /\ pc \in [Callers -> CallPlaces]
    BY DEF IInv, TypeOK, Types
  <1> USE PlayerAssumption
      DEF IInv, FinishedIsQuiet, threadVars, loadVars, historyVars, At, GoTo, Continue, Call
  <1>1. CASE LoadMessage \/ LoadingEnds \/ UNCHANGED vars
    BY <1>1, <1>0, FlagFields DEF LoadMessage, LoadingEnds, vars
  <1>2. CASE StartPass \/ QueueFilled \/ Again \/ LastRequest
    BY <1>2, <1>0, FlagFields DEF StartPass, QueueFilled, Again, LastRequest
  <1>3. CASE \/ TakeFirst \/ LockMain \/ Top \/ Wait \/ WasPaused
             \/ NoMessage \/ Publish \/ Published \/ Answer \/ Take
    BY <1>3, <1>0, FlagFields
       DEF TakeFirst, LockMain, Top, Wait, WasPaused, NoMessage, Publish, Published,
           Answer, Take, TakeMessage
  <1>4. CASE WaitPausedEnds \/ WaitTimeEnds
    BY <1>4, <1>0, WaitKeepsFlags DEF WaitPausedEnds, WaitTimeEnds
  <1>5. CASE Message
    BY <1>5, <1>0, FlagFields DEF Message
  <1>6. CASE Rewind
    BY <1>6, <1>0, FlagFields DEF Rewind, Reload
  <1>7. CASE Announce
    BY <1>7, <1>0, FlagFields DEF Announce
  <1>8. CASE Leave
    BY <1>8, <1>0, FlagFields DEF Leave
  <1>9. CASE EndPlayback
    BY <1>9, <1>0, FlagFields DEF EndPlayback
  <1>10. CASE Purge
    BY <1>10, <1>0, FlagFields DEF Purge
  <1>11. ASSUME NEW c \in Callers,
               \/ Finished(c) \/ Request(c) \/ Await(c) \/ Answered(c) \/ PlayNext(c)
               \/ Started(c) \/ StartReady(c) \/ WaitForPlaybackToFinish(c)
               \/ WaitForPlaybackToStart(c)
        PROVE  FinishedIsQuiet'
    BY <1>11, <1>0, FlagFields
       DEF Finished, Request, Await, Answered, PlayNext, Started, StartReady,
           WaitForPlaybackToFinish, WaitForPlaybackToStart
  <1>12. ASSUME NEW c \in Callers, Play(c) PROVE FinishedIsQuiet'
    BY <1>12, <1>0, FlagFields DEF Play
  <1>13. ASSUME NEW c \in Callers, Stop(c) PROVE FinishedIsQuiet'
    BY <1>13, <1>0, FlagFields DEF Stop
  <1>14. ASSUME NEW c \in Callers, Interrupt(c) PROVE FinishedIsQuiet'
    BY <1>14, <1>0, FlagFields DEF Interrupt
  <1>15. ASSUME NEW c \in Callers, JoinAndCreate(c) PROVE FinishedIsQuiet'
    BY <1>15, <1>0, FlagFields DEF JoinAndCreate, JoinsInPlayback
  <1>16. ASSUME NEW c \in Callers, SeekReady(c) PROVE FinishedIsQuiet'
    BY <1>16, <1>0, FlagFields DEF SeekReady
  <1>17. ASSUME NEW c \in Callers, SeekStop(c) PROVE FinishedIsQuiet'
    BY <1>17, <1>0, FlagFields DEF SeekStop
  <1>18. ASSUME NEW c \in Callers, SeekRestart(c) PROVE FinishedIsQuiet'
    BY <1>18, <1>0, FlagFields DEF SeekRestart, Reload, SeeksWhilePlaying, LoopPlaces
  <1>19. ASSUME NEW c \in Callers,
               \/ \E op \in {"pause", "resume"} : SetPaused(c, op)
               \/ \E position \in Positions \cup {LastMessage + 1} : Seek(c, position)
                     PROVE  FinishedIsQuiet'
    BY <1>19, <1>0, FlagFields DEF SetPaused, Seek
  <1>20. QED
    BY <1>1, <1>2, <1>3, <1>4, <1>5, <1>6, <1>7, <1>8, <1>9, <1>10, <1>11, <1>12, <1>13,
       <1>14, <1>15, <1>16, <1>17, <1>18, <1>19
       DEF Next, Loader, PlaybackThread, NewCall, CallerStep

-----------------------------------------------------------------------------
(* The order of the queue.                                                 *)

(* The loading thread adds what the readers return next. *)
LEMMA LoadKeepsOrder ==
  ASSUME Types, QueueIsNext, LoadMessage
  PROVE  QueueIsNext'
  <1> DEFINE n == Len(queue)
  <1>1. read \in Positions /\ queue \in Seq(Positions) /\ n \in Nat
    BY LenProperties DEF Types, LoadMessage
  <1>2. queue' = Append(queue, read) /\ read' = read + 1
    BY DEF LoadMessage
  <1>3. /\ Len(queue') = n + 1
        /\ \A i \in 1 .. n : queue'[i] = queue[i]
        /\ queue'[n + 1] = read
    BY <1>1, <1>2, AppendProperties
  <1>4. queue # <<>> <=> n # 0
    BY <1>1, EmptySeq
  <1>5. \A i \in 1 .. n - 1 : queue[i + 1] = queue[i] + 1
    BY DEF QueueIsNext
  <1>6. n # 0 => queue[n] + 1 = read
    BY <1>4 DEF QueueIsNext
  <1> HIDE DEF n
  <1>7. \A i \in 1 .. Len(queue') - 1 : queue'[i + 1] = queue'[i] + 1
    <2> TAKE i \in 1 .. Len(queue') - 1
    <2>1. CASE i = n
      BY <1>1, <1>3, <1>6, <2>1
    <2>2. CASE i # n
      BY <1>1, <1>3, <1>5, <2>2
    <2>3. QED
      BY <2>1, <2>2
  <1>8. queue'[Len(queue')] + 1 = read'
    BY <1>1, <1>2, <1>3
  <1>9. QED
    BY <1>7, <1>8 DEF QueueIsNext

(* The playback thread takes from the front. *)
LEMMA TakeKeepsOrder ==
  ASSUME Types, QueueIsNext, TakeMessage, read' = read
  PROVE  QueueIsNext'
  <1>1. CASE queue = <<>>
    BY <1>1 DEF TakeMessage, QueueIsNext
  <1>2. CASE queue # <<>>
    <2> DEFINE n == Len(queue)
    <2>1. queue \in Seq(Positions) /\ n \in Nat
      BY LenProperties DEF Types
    <2>2. queue' = Tail(queue)
      BY <1>2 DEF TakeMessage
    <2>3. Len(queue') = n - 1 /\ \A i \in 1 .. n - 1 : queue'[i] = queue[i + 1]
      BY <1>2, <2>1, <2>2, HeadTailProperties
    <2>4. queue' # <<>> => n - 1 # 0
      BY <2>1, <2>2, <2>3, <1>2, HeadTailProperties, EmptySeq
    <2>5. /\ \A i \in 1 .. n - 1 : queue[i + 1] = queue[i] + 1
          /\ queue[n] + 1 = read
      BY <1>2 DEF QueueIsNext
    <2>6. n # 0
      BY <1>2, <2>1, EmptySeq
    <2> HIDE DEF n
    <2>7. \A i \in 1 .. Len(queue') - 1 : queue'[i + 1] = queue'[i] + 1
      BY <2>1, <2>3, <2>5
    <2>8. queue' # <<>> => queue'[Len(queue')] + 1 = read'
      BY <2>1, <2>3, <2>4, <2>5, <2>6
    <2>9. QED
      BY <2>7, <2>8 DEF QueueIsNext
  <1>3. QED
    BY <1>1, <1>2

(* An empty queue is in order. *)
LEMMA EmptyIsInOrder ==
  ASSUME queue' = <<>>
  PROVE  QueueIsNext'
  <1>1. Len(queue') = 0
    BY EmptySeq
  <1>2. QED
    BY <1>1 DEF QueueIsNext

(* Every step keeps the order of the queue. *)
LEMMA QueueStep ==
  ASSUME Types, QueueIsNext, [Next]_vars
  PROVE  QueueIsNext'
  <1>1. CASE LoadMessage
    BY <1>1, LoadKeepsOrder
  <1>2. CASE TakeFirst \/ Take
    BY <1>2, TakeKeepsOrder DEF TakeFirst, Take
  <1>3. CASE Rewind \/ Purge
    BY <1>3, EmptyIsInOrder DEF Rewind, Purge, Reload
  <1>4. ASSUME NEW c \in Callers, SeekRestart(c) PROVE QueueIsNext'
    BY <1>4, EmptyIsInOrder DEF SeekRestart, Reload
  <1>5. CASE queue' = queue /\ read' = read
    BY <1>5 DEF QueueIsNext
  <1>6. CASE LoadingEnds \/ UNCHANGED vars
    BY <1>6, <1>5 DEF LoadingEnds, vars, loadVars
  <1>7. CASE \/ StartPass \/ QueueFilled \/ Announce \/ LockMain \/ Top \/ Wait \/ WaitPausedEnds
             \/ WasPaused \/ WaitTimeEnds \/ Message \/ NoMessage \/ Publish \/ Published
             \/ Answer \/ Leave \/ Again \/ EndPlayback \/ LastRequest
    BY <1>7, <1>5 DEF StartPass, QueueFilled, Announce, LockMain, Top, Wait, WaitPausedEnds,
       WasPaused, WaitTimeEnds, Message, NoMessage, Publish, Published, Answer, Leave, Again,
       EndPlayback, LastRequest, loadVars
  <1>8. ASSUME NEW c \in Callers,
               \/ JoinAndCreate(c) \/ Interrupt(c) \/ Finished(c) \/ Request(c) \/ Await(c)
               \/ Answered(c) \/ SeekReady(c) \/ SeekStop(c) \/ Started(c) \/ StartReady(c)
               \/ NewCall(c)
        PROVE  QueueIsNext'
    BY <1>8, <1>5 DEF JoinAndCreate, Interrupt, Finished, Request, Await, Answered, SeekReady,
       SeekStop, Started, StartReady, NewCall, Play, Stop, WaitForPlaybackToFinish, SetPaused,
       PlayNext, Seek, WaitForPlaybackToStart, loadVars
  <1>9. QED
    BY <1>1, <1>2, <1>3, <1>4, <1>6, <1>7, <1>8 DEF Next, Loader, PlaybackThread, CallerStep

-----------------------------------------------------------------------------
(* The message in hand.                                                    *)

(* The other flags after one of the flags was set. *)
LEMMA OtherFlagFields ==
  \A f \in FlagRecords : \A b \in BOOLEAN :
    /\ [f EXCEPT !.in_playback = b].skip = f.skip /\ [f EXCEPT !.in_playback = b].stop = f.stop
    /\ [f EXCEPT !.in_playback = b].loop = f.loop
    /\ [f EXCEPT !.ready = b].skip = f.skip /\ [f EXCEPT !.ready = b].stop = f.stop
    /\ [f EXCEPT !.ready = b].loop = f.loop
    /\ [f EXCEPT !.cancel = b].skip = f.skip /\ [f EXCEPT !.cancel = b].stop = f.stop
    /\ [f EXCEPT !.cancel = b].loop = f.loop
    /\ [f EXCEPT !.stop = b].stop = b
    /\ [f EXCEPT !.stop = b].skip = f.skip /\ [f EXCEPT !.stop = b].loop = f.loop
    /\ [f EXCEPT !.skip = b, !.cancel = b].skip = b
    /\ [f EXCEPT !.skip = b, !.cancel = b].stop = f.stop
    /\ [f EXCEPT !.skip = b, !.cancel = b].loop = f.loop
  BY DEF FlagRecords

(* What a step of the playback thread does to the calls and to their flags. *)
LEMMA ThreadFrame ==
  ASSUME Types, PlaybackThread
  PROVE  /\ playback # "none" /\ playback' # "none"
         /\ pc' = pc /\ plays' = plays
         /\ flags'.stop = flags.stop /\ flags'.loop = flags.loop
         /\ ~Message => flags'.skip = flags.skip
         /\ flags.in_playback = FALSE => flags'.in_playback = FALSE
  <1>0. flags \in FlagRecords /\ TRUE \in BOOLEAN /\ FALSE \in BOOLEAN
    BY DEF Types
  <1> USE DEF At, GoTo, loadVars, historyVars
  <1>1. CASE \/ StartPass \/ QueueFilled \/ TakeFirst \/ LockMain \/ Top \/ Wait \/ WasPaused
             \/ NoMessage \/ Publish \/ Published \/ Answer \/ Take \/ Again \/ LastRequest
    BY <1>1 DEF StartPass, QueueFilled, TakeFirst, LockMain, Top, Wait, WasPaused, NoMessage,
       Publish, Published, Answer, Take, Again, LastRequest, Message
  <1>2. CASE Rewind \/ Announce \/ Leave \/ EndPlayback \/ Purge
    <2>1. \/ flags' = [flags EXCEPT !.ready = FALSE] \/ flags' = [flags EXCEPT !.ready = TRUE]
          \/ flags' = [flags EXCEPT !.in_playback = FALSE]
      BY <1>2 DEF Rewind, Announce, Leave, EndPlayback, Purge
    <2>2. CASE flags' = [flags EXCEPT !.ready = FALSE]
      BY <1>0, <1>2, <2>2, OtherFlagFields, FlagFields DEF Rewind, Announce, Leave, EndPlayback, Purge
    <2>3. CASE flags' = [flags EXCEPT !.ready = TRUE]
      BY <1>0, <1>2, <2>3, OtherFlagFields, FlagFields DEF Rewind, Announce, Leave, EndPlayback, Purge
    <2>4. CASE flags' = [flags EXCEPT !.in_playback = FALSE]
      BY <1>0, <1>2, <2>4, OtherFlagFields, FlagFields DEF Rewind, Announce, Leave, EndPlayback, Purge
    <2>5. QED
      BY <2>1, <2>2, <2>3, <2>4
  <1>3. CASE WaitPausedEnds \/ WaitTimeEnds
    <2>1. flags' = flags \/ flags' = [flags EXCEPT !.cancel = FALSE]
      BY <1>3 DEF WaitPausedEnds, WaitTimeEnds
    <2>2. CASE flags' = flags
      BY <1>3, <2>2 DEF WaitPausedEnds, WaitTimeEnds
    <2>3. CASE flags' = [flags EXCEPT !.cancel = FALSE]
      BY <1>0, <1>3, <2>3, OtherFlagFields, FlagFields DEF WaitPausedEnds, WaitTimeEnds
    <2>4. QED
      BY <2>1, <2>2, <2>3
  <1>4. CASE Message
    <2>1. flags' = flags \/ flags' = [flags EXCEPT !.skip = FALSE, !.cancel = FALSE]
      BY <1>4 DEF Message
    <2>2. CASE flags' = flags
      BY <1>4, <2>2 DEF Message
    <2>3. CASE flags' = [flags EXCEPT !.skip = FALSE, !.cancel = FALSE]
      BY <1>0, <1>4, <2>3, OtherFlagFields, FlagFields DEF Message
    <2>4. QED
      BY <2>1, <2>2, <2>3
  <1>5. QED
    BY <1>1, <1>2, <1>3, <1>4 DEF PlaybackThread

(* The first playback begins with nothing to skip, and only a stop or a seek *)
(* asks to skip a message. *)
LEMMA FirstStep ==
  ASSUME IInv, FirstInv, [Next]_vars
  PROVE  FirstInv'
  <1>0. /\ TypeOK /\ Types /\ flags \in FlagRecords /\ pc \in [Callers -> CallPlaces]
        /\ plays \in Nat /\ TRUE \in BOOLEAN /\ FALSE \in BOOLEAN
    BY PlayerAssumption DEF IInv, TypeOK, Types
  <1> USE DEF FirstInv, FirstPlayback, Unstarted, SkipRequests, Continue, Call,
              threadVars, loadVars, historyVars
  <1>1. CASE LoadMessage \/ LoadingEnds \/ UNCHANGED vars
    BY <1>1 DEF LoadMessage, LoadingEnds, vars
  <1>2. CASE PlaybackThread
    <2>1. /\ playback # "none" /\ playback' # "none" /\ pc' = pc /\ plays' = plays
          /\ flags'.stop = flags.stop /\ (~Message => flags'.skip = flags.skip)
      BY <1>0, <1>2, ThreadFrame
    <2>2. Message => \A c \in Callers : pc[c] # "seek_restart"
      BY <1>0, PlayerAssumption DEF Message, TypeOK, Locks, MainPlaces, At
    <2>3. QED
      BY <2>1, <2>2
  <1>3. ASSUME NEW c \in Callers,
               \/ Finished(c) \/ Request(c) \/ Await(c) \/ Answered(c) \/ PlayNext(c)
               \/ Started(c) \/ StartReady(c) \/ WaitForPlaybackToFinish(c)
               \/ WaitForPlaybackToStart(c) \/ SeekReady(c)
        PROVE  FirstInv'
    <2>1. /\ UNCHANGED <<playback, flags, plays>>
          /\ \E place \in CallPlaces \ {"join", "interrupt", "seek_restart"} :
                pc' = [pc EXCEPT ![c] = place] /\ pc[c] # "join"
      BY <1>0, <1>3 DEF CallPlaces, Finished, Request, Await, Answered, PlayNext, Started, StartReady,
         WaitForPlaybackToFinish, WaitForPlaybackToStart, SeekReady
    <2>2. QED
      BY <1>0, <2>1
  <1>4. ASSUME NEW c \in Callers, Play(c) PROVE FirstInv'
    <2>1. flags' = [flags EXCEPT !.in_playback = TRUE]
      BY <1>4 DEF Play
    <2>2. flags'.skip = flags.skip /\ flags'.stop = flags.stop
      BY <1>0, <2>1, OtherFlagFields
    <2>3. QED
      BY <1>0, <1>4, <2>2 DEF Play
  <1>5. ASSUME NEW c \in Callers, Stop(c) PROVE FirstInv'
    <2>1. /\ UNCHANGED <<playback, plays>> /\ pc[c] = "idle" /\ Free("in_playback")
          /\ pc' = [pc EXCEPT ![c] = IF flags.in_playback THEN "interrupt" ELSE "idle"]
          /\ flags' = IF flags.in_playback THEN [flags EXCEPT !.stop = TRUE] ELSE flags
      BY <1>5 DEF Stop
    <2>2. /\ flags'.skip = flags.skip /\ flags'.in_playback = flags.in_playback
          /\ flags.stop => flags'.stop
          /\ flags.in_playback => flags'.stop
      BY <1>0, <2>1, OtherFlagFields, FlagFields
    <2>3. playback = "none" => ~flags.in_playback
      BY <1>0, <2>1, PlayerAssumption DEF TypeOK, Locks, Free
    <2>4. QED
      BY <1>0, <2>1, <2>2, <2>3
  <1>6. ASSUME NEW c \in Callers, Interrupt(c) PROVE FirstInv'
    <2>1. flags' = [flags EXCEPT !.skip = TRUE, !.cancel = TRUE]
      BY <1>6 DEF Interrupt
    <2>2. flags'.skip = TRUE /\ flags'.stop = flags.stop /\ flags'.in_playback = flags.in_playback
      BY <1>0, <2>1, OtherFlagFields, FlagFields
    <2>3. QED
      BY <1>0, <1>6, <2>2 DEF Interrupt
  <1>7. ASSUME NEW c \in Callers, JoinAndCreate(c) PROVE FirstInv'
    <2>1. flags' = [flags EXCEPT !.stop = FALSE]
      BY <1>7 DEF JoinAndCreate
    <2>2. flags'.skip = flags.skip
      BY <1>0, <2>1, OtherFlagFields
    <2>3. \A d \in Callers \ {c} : pc[d] \notin {"join", "interrupt"}
      BY <1>0, <1>7 DEF JoinAndCreate, TypeOK, Locks
    <2>4. /\ playback' = "start_pass" /\ plays' = plays /\ pc' = [pc EXCEPT ![c] = "idle"]
          /\ pc[c] = "join"
      BY <1>7 DEF JoinAndCreate
    <2>5. plays # 0
      BY <2>4 DEF IInv, JoinsInPlayback
    <2>6. QED
      BY <1>0, <2>2, <2>3, <2>4, <2>5
  <1>8. ASSUME NEW c \in Callers, SeekStop(c) PROVE FirstInv'
    <2>1. flags' = [flags EXCEPT !.skip = TRUE, !.cancel = TRUE]
      BY <1>8 DEF SeekStop
    <2>2. flags'.skip = TRUE /\ flags'.stop = flags.stop /\ flags'.in_playback = flags.in_playback
      BY <1>0, <2>1, OtherFlagFields, FlagFields
    <2>3. playback # "none"
      BY <1>8 DEF SeekStop, IInv, SeeksWhilePlaying, LoopPlaces
    <2>4. QED
      BY <1>0, <1>8, <2>2, <2>3 DEF SeekStop
  <1>9. ASSUME NEW c \in Callers, SeekRestart(c) PROVE FirstInv'
    BY <1>0, <1>9 DEF SeekRestart
  <1>10. ASSUME NEW c \in Callers,
                \/ \E op \in {"pause", "resume"} : SetPaused(c, op)
                \/ \E position \in Positions \cup {LastMessage + 1} : Seek(c, position)
         PROVE  FirstInv'
    BY <1>0, <1>10 DEF SetPaused, Seek
  <1>11. QED
    BY <1>1, <1>2, <1>3, <1>4, <1>5, <1>6, <1>7, <1>8, <1>9, <1>10
       DEF Next, Loader, NewCall, CallerStep

(* The loading thread does not change what is taken next. *)
LEMMA FrontOfLoad ==
  ASSUME Types, LoadMessage
  PROVE  QueueFront' = QueueFront
  <1>1. read \in Positions /\ queue \in Seq(Positions) /\ queue' = Append(queue, read)
    BY DEF Types, LoadMessage
  <1>2. CASE queue = <<>>
    <2>1. queue' # <<>> /\ Head(queue') = read
      BY <1>1, <1>2
    <2>2. QED
      BY <1>2, <2>1 DEF QueueFront
  <1>3. CASE queue # <<>>
    <2>1. queue' # <<>> /\ Head(queue') = Head(queue)
      BY <1>1, <1>3
    <2>2. QED
      BY <1>3, <2>1 DEF QueueFront
  <1>4. QED
    BY <1>2, <1>3

(* A message that is taken was at the front, and the one after it comes there. *)
LEMMA FrontOfTake ==
  ASSUME Types, QueueIsNext, TakeMessage, read' = read
  PROVE  \/ message' = QueueFront /\ QueueFront' = message' + 1
         \/ message' = 0 /\ QueueFront' = QueueFront
  <1>1. CASE queue = <<>>
    BY <1>1 DEF TakeMessage, QueueFront
  <1>2. CASE queue # <<>>
    <2> DEFINE n == Len(queue)
    <2>1. /\ queue \in Seq(Positions) /\ n \in Nat /\ n # 0
          /\ message' = Head(queue) /\ queue' = Tail(queue)
      BY <1>2, EmptySeq DEF Types, TakeMessage
    <2>2. Head(queue) = queue[1] /\ QueueFront = queue[1]
      BY <1>2, <2>1 DEF QueueFront
    <2>3. CASE n = 1
      <3>1. queue' = <<>>
        BY <2>1, <2>3
      <3>2. queue[1] + 1 = read
        BY <1>2, <2>3 DEF QueueIsNext
      <3>3. QED
        BY <2>1, <2>2, <3>1, <3>2 DEF QueueFront
    <2>4. CASE n > 1
      <3>1. queue' # <<>> /\ Head(queue') = queue[2]
        BY <2>1, <2>4
      <3>2. queue[1 + 1] = queue[1] + 1
        BY <2>1, <2>4 DEF QueueIsNext
      <3>3. QED
        BY <2>1, <2>2, <3>1, <3>2 DEF QueueFront
    <2>5. n = 1 \/ n > 1
      <3> HIDE DEF n
      <3>1. QED
        BY <2>1
    <2>6. QED
      BY <2>3, <2>4, <2>5
  <1>3. QED
    BY <1>1, <1>2

(* A step that leaves the thread, the messages and the requests alone. *)
LeavesInHand ==
  /\ playback' = playback /\ message' = message /\ expected' = expected
  /\ QueueFront' = QueueFront
  /\ plays' <= 1 => plays <= 1
  /\ flags'.loop = flags.loop /\ flags'.skip = flags.skip /\ (flags.stop => flags'.stop)
  /\ (\E c \in Callers : pc[c] = "seek_restart") => (\E c \in Callers : pc'[c] = "seek_restart")

(* Nothing changes for the message in hand. *)
LEMMA FrameStep ==
  ASSUME NextInv, LeavesInHand
  PROVE  NextInv'
  <1>1. Tracked' => Tracked
    BY DEF LeavesInHand, Tracked
  <1>2. NextMessageOnly'
    BY <1>1 DEF NextInv, NextMessageOnly, LeavesInHand, Tracked
  <1>3. \A n : AsExpected(n)' <=> AsExpected(n)
    BY DEF LeavesInHand, AsExpected
  <1>4. InHand'
    BY <1>1, <1>3 DEF NextInv, InHand, LeavesInHand, AsExpected
  <1>5. QED
    BY <1>2, <1>4 DEF NextInv

(* The message in hand is kept while the thread waits and looks at the flags. *)
LEMMA WaitStep ==
  ASSUME IInv, NextInv,
         LockMain \/ Top \/ Wait \/ WaitPausedEnds \/ WasPaused \/ WaitTimeEnds \/ NoMessage
         \/ (Answer /\ playback = "answer_null")
  PROVE  NextInv'
  <1>1. /\ playback \in InHandPlaces /\ playback' \in (InHandPlaces \ {"publish", "no_message"}) \cup {"leave"}
        /\ playback' = "answer_null" => playback = "no_message"
        /\ UNCHANGED <<message, expected, queue, read>>
    BY DEF LockMain, Top, Wait, WaitPausedEnds, WasPaused, WaitTimeEnds, NoMessage, Answer,
           InHandPlaces, At, GoTo, loadVars, historyVars
  <1>2. /\ pc' = pc /\ plays' = plays /\ flags'.stop = flags.stop /\ flags'.loop = flags.loop
        /\ flags'.skip = flags.skip
    <2>1. PlaybackThread /\ Types
      BY DEF PlaybackThread, IInv, TypeOK
    <2>2. ~Message
      BY DEF LockMain, Top, Wait, WaitPausedEnds, WasPaused, WaitTimeEnds, NoMessage, Answer,
             At, Message
    <2>3. QED
      BY <2>1, <2>2, ThreadFrame
  <1>3. QueueFront' = QueueFront /\ (Tracked' <=> Tracked) /\ \A n : AsExpected(n)' <=> AsExpected(n)
    BY <1>1, <1>2 DEF QueueFront, Tracked, AsExpected
  <1>4. InHand'
    BY <1>1, <1>2, <1>3 DEF NextInv, InHand, InHandPlaces, NoSkipPlaces, TakenPlaces, AsExpected
  <1>5. NextMessageOnly'
    BY <1>1 DEF NextMessageOnly
  <1>6. QED
    BY <1>4, <1>5 DEF NextInv

(* What is at the front stays the next one until it is taken. *)
LEMMA PrepareStep ==
  ASSUME IInv, NextInv,
         StartPass \/ Rewind \/ QueueFilled \/ Announce \/ Published
         \/ (Answer /\ playback = "answer")
  PROVE  NextInv'
  <1>1. /\ pc' = pc /\ plays' = plays /\ flags'.stop = flags.stop /\ flags'.loop = flags.loop
        /\ flags'.skip = flags.skip
    <2>1. PlaybackThread /\ Types
      BY DEF PlaybackThread, IInv, TypeOK
    <2>2. ~Message
      BY DEF StartPass, Rewind, QueueFilled, Announce, Published, Answer, At, Message
    <2>3. QED
      BY <2>1, <2>2, ThreadFrame
  <1>2. Tracked' <=> Tracked
    BY <1>1 DEF Tracked
  <1>3. playback' # "publish" /\ playback' \notin InHandPlaces /\ playback \in NoSkipPlaces
    BY DEF StartPass, Rewind, QueueFilled, Announce, Published, Answer, At, GoTo, InHandPlaces,
           NoSkipPlaces, TakenPlaces
  <1>4. playback' \in TakenPlaces /\ Tracked /\ ~flags.stop => AsExpected(QueueFront)'
    <2>1. CASE Rewind
      <3>1. queue' = <<>> /\ read' = expected'
        BY <2>1 DEF Rewind, Reload
      <3>2. QED
        BY <3>1 DEF QueueFront, AsExpected
    <2>2. CASE StartPass
      BY <2>2 DEF StartPass, GoTo, TakenPlaces
    <2>3. CASE QueueFilled \/ Announce \/ Published \/ (Answer /\ playback = "answer")
      <3>1. playback \in TakenPlaces /\ UNCHANGED <<queue, read, expected>>
        BY <2>3 DEF QueueFilled, Announce, Published, Answer, At, TakenPlaces, loadVars, historyVars
      <3>2. QED
        BY <3>1 DEF NextInv, InHand, QueueFront, AsExpected
    <2>4. QED
      BY <2>1, <2>2, <2>3
  <1>5. InHand'
    BY <1>1, <1>2, <1>3, <1>4 DEF NextInv, InHand
  <1>6. QED
    BY <1>3, <1>5 DEF NextInv, NextMessageOnly

(* What is taken comes in hand. *)
LEMMA TakeStep ==
  ASSUME IInv, QueueIsNext, NextInv, TakeFirst \/ Take
  PROVE  NextInv'
  <1>1. /\ playback \in {"take_first", "take"} /\ playback' \in {"lock_top", "top"}
        /\ UNCHANGED <<pc, plays, flags, expected, read>> /\ TakeMessage /\ Types
    BY DEF TakeFirst, Take, At, GoTo, historyVars, IInv, TypeOK
  <1>2. \/ message' = QueueFront /\ QueueFront' = message' + 1
        \/ message' = 0
    BY <1>1, FrontOfTake
  <1>3. Tracked /\ ~flags.stop => ~flags.skip /\ AsExpected(QueueFront)
    BY <1>1 DEF NextInv, InHand, NoSkipPlaces, TakenPlaces
  <1>4. Tracked' /\ ~flags'.stop /\ message' # 0 => AsExpected(message)' /\ QueueFront' = message' + 1
    BY <1>1, <1>2, <1>3 DEF Tracked, AsExpected
  <1>5. InHand'
    BY <1>1, <1>3, <1>4 DEF InHand, Tracked, NoSkipPlaces, TakenPlaces
  <1>6. QED
    BY <1>1, <1>5 DEF NextInv, NextMessageOnly

(* The message in hand is published as the next one, or another one is taken. *)
LEMMA MessageStep ==
  ASSUME IInv, NextInv, Message
  PROVE  NextInv'
  <1>1. /\ playback = "message" /\ UNCHANGED <<message, queue, read, expected, pc, plays>>
        /\ playback' = IF flags.stop \/ flags.skip THEN "take"
                       ELSE IF message = 0 THEN "no_message"
                       ELSE IF message > PlayUntil THEN "published" ELSE "publish"
        /\ flags' = IF ~flags.stop /\ flags.skip THEN [flags EXCEPT !.skip = FALSE, !.cancel = FALSE] ELSE flags
    BY DEF Message, SkipsMessage, At, GoTo, loadVars, historyVars
  <1>2. flags'.stop = flags.stop /\ flags'.loop = flags.loop /\ (~flags.stop => flags'.skip = FALSE)
    <2>0. flags \in FlagRecords
      BY DEF IInv, TypeOK, Types
    <2>1. CASE ~flags.stop /\ flags.skip
      BY <1>1, <2>0, <2>1, OtherFlagFields
    <2>2. CASE ~(~flags.stop /\ flags.skip)
      BY <1>1, <2>0, <2>2, FlagUpdate
    <2>3. QED
      BY <2>1, <2>2
  <1>3. QueueFront' = QueueFront /\ (Tracked' <=> Tracked)
    BY <1>1, <1>2 DEF QueueFront, Tracked
  <1>4. \A c \in Callers : pc[c] # "seek_restart"
    BY <1>1, PlayerAssumption DEF IInv, TypeOK, Locks, MainPlaces
  <1>5. message \in Nat /\ PlayUntil \in Nat
    BY PlayerAssumption DEF IInv, TypeOK, Types
  <1>6. CASE ~Tracked \/ flags.stop
    <2>1. playback' # "publish" \/ ~Tracked'
      BY <1>1, <1>3, <1>6
    <2>2. QED
      BY <1>2, <1>3, <1>6, <2>1 DEF NextInv, InHand, NextMessageOnly, Tracked
  <1>7. CASE Tracked /\ ~flags.stop /\ flags.skip
    <2>1. AsExpected(QueueFront)
      BY <1>1, <1>4, <1>7 DEF NextInv, InHand, InHandPlaces
    <2>2. AsExpected(QueueFront)'
      BY <1>1, <1>3, <2>1 DEF AsExpected
    <2>3. playback' = "take"
      BY <1>1, <1>7
    <2>4. QED
      BY <1>2, <1>7, <2>2, <2>3 DEF NextInv, InHand, NextMessageOnly, InHandPlaces
  <1>8. CASE Tracked /\ ~flags.stop /\ ~flags.skip /\ message = 0
    <2>1. playback' = "no_message" /\ message' = 0
      BY <1>1, <1>8
    <2>2. QED
      BY <1>2, <1>8, <2>1 DEF NextInv, InHand, NextMessageOnly, TakenPlaces
  <1>9. CASE Tracked /\ ~flags.stop /\ ~flags.skip /\ message # 0
    <2>1. AsExpected(message) /\ QueueFront = message + 1
      BY <1>1, <1>9 DEF NextInv, InHand, InHandPlaces
    <2>2. CASE message > PlayUntil
      <3>1. playback' = "published"
        BY <1>1, <1>9, <2>2
      <3>2. QueueFront' > PlayUntil
        BY <1>3, <1>5, <2>1, <2>2
      <3>3. AsExpected(QueueFront)'
        BY <3>2 DEF AsExpected
      <3>4. QED
        BY <1>2, <1>9, <3>1, <3>3 DEF NextInv, InHand, NextMessageOnly, InHandPlaces
    <2>3. CASE ~(message > PlayUntil)
      <3>1. playback' = "publish" /\ message = expected
        BY <1>1, <1>9, <2>1, <2>3 DEF AsExpected
      <3>2. AsExpected(message)' /\ QueueFront' = message' + 1 /\ message' = expected'
        BY <1>1, <1>3, <2>1, <3>1 DEF AsExpected
      <3>3. QED
        BY <1>2, <1>9, <3>1, <3>2 DEF NextInv, InHand, NextMessageOnly, TakenPlaces
    <2>4. QED
      BY <2>2, <2>3
  <1>10. QED
    BY <1>6, <1>7, <1>8, <1>9

(* After a message is published the next one is the one after it. *)
LEMMA PublishStep ==
  ASSUME IInv, NextInv, Publish
  PROVE  NextInv'
  <1>1. /\ playback = "publish" /\ playback' = "published" /\ expected' = message + 1
        /\ UNCHANGED <<message, queue, read, flags, pc, plays>>
    BY DEF Publish, At, GoTo, loadVars
  <1>2. QueueFront' = QueueFront /\ (Tracked' <=> Tracked)
    BY <1>1 DEF QueueFront, Tracked
  <1>3. Tracked /\ ~flags.stop => ~flags.skip /\ (message # 0 => QueueFront = message + 1)
    BY <1>1 DEF NextInv, InHand, NoSkipPlaces, InHandPlaces
  <1>4. Tracked => message = expected
    BY <1>1 DEF NextInv, NextMessageOnly, Tracked
  <1>5. expected # 0
    BY PlayerAssumption DEF IInv, TypeOK, Types
  <1>6. Tracked' /\ ~flags'.stop => ~flags'.skip /\ AsExpected(QueueFront)'
    BY <1>1, <1>2, <1>3, <1>4, <1>5 DEF AsExpected
  <1>7. QED
    BY <1>1, <1>6 DEF NextInv, InHand, NextMessageOnly, InHandPlaces

(* A caller skips the message in hand or leaves it. *)
LEMMA CallerInHand ==
  ASSUME IInv, FirstInv, NextInv, NEW c \in Callers, NewCall(c) \/ CallerStep(c)
  PROVE  NextInv'
  <1>0. /\ Types /\ flags \in FlagRecords /\ pc \in [Callers -> CallPlaces] /\ plays \in Nat
        /\ TRUE \in BOOLEAN /\ FALSE \in BOOLEAN
    BY PlayerAssumption DEF IInv, TypeOK, Types
  <1> USE DEF Continue, Call, threadVars, loadVars, historyVars
  <1>1. CASE \/ Finished(c) \/ Request(c) \/ Await(c) \/ Answered(c) \/ PlayNext(c)
             \/ Started(c) \/ StartReady(c) \/ WaitForPlaybackToFinish(c)
             \/ WaitForPlaybackToStart(c) \/ SeekReady(c)
             \/ \E op \in {"pause", "resume"} : SetPaused(c, op)
             \/ \E position \in Positions \cup {LastMessage + 1} : Seek(c, position)
    <2>1. /\ UNCHANGED <<playback, message, expected, queue, read, flags, plays>>
          /\ pc[c] # "seek_restart"
          /\ \A d \in Callers \ {c} : pc'[d] = pc[d]
      BY <1>0, <1>1 DEF Finished, Request, Await, Answered, PlayNext, Started, StartReady,
         WaitForPlaybackToFinish, WaitForPlaybackToStart, SeekReady, SetPaused, Seek
    <2>2. LeavesInHand
      BY <2>1 DEF LeavesInHand, QueueFront
    <2>3. QED
      BY <2>2, FrameStep
  <1>2. CASE Play(c)
    <2>1. /\ UNCHANGED <<playback, message, expected, queue, read>>
          /\ pc[c] = "idle" /\ \A d \in Callers \ {c} : pc'[d] = pc[d]
          /\ flags' = [flags EXCEPT !.in_playback = TRUE]
          /\ plays' = plays + IF flags.in_playback THEN 0 ELSE 1
      BY <1>0, <1>2 DEF Play
    <2>2. flags'.loop = flags.loop /\ flags'.skip = flags.skip /\ flags'.stop = flags.stop
      BY <1>0, <2>1, OtherFlagFields
    <2>3. plays' <= 1 => plays <= 1
      BY <1>0, <2>1
    <2>4. LeavesInHand
      BY <2>1, <2>2, <2>3 DEF LeavesInHand, QueueFront
    <2>5. QED
      BY <2>4, FrameStep
  <1>3. CASE Stop(c)
    <2>1. /\ UNCHANGED <<playback, message, expected, queue, read, plays>>
          /\ pc[c] = "idle" /\ \A d \in Callers \ {c} : pc'[d] = pc[d]
          /\ flags' = [flags EXCEPT !.stop = TRUE] \/ flags' = flags
      BY <1>0, <1>3 DEF Stop
    <2>2. flags'.loop = flags.loop /\ flags'.skip = flags.skip /\ (flags.stop => flags'.stop)
      <3>1. CASE flags' = [flags EXCEPT !.stop = TRUE]
        BY <1>0, <3>1, OtherFlagFields
      <3>2. QED
        BY <2>1, <3>1
    <2>3. LeavesInHand
      BY <2>1, <2>2 DEF LeavesInHand, QueueFront
    <2>4. QED
      BY <2>3, FrameStep
  <1>4. CASE Interrupt(c)
    <2>1. flags' = [flags EXCEPT !.skip = TRUE, !.cancel = TRUE]
          /\ UNCHANGED <<playback, message, expected, plays>>
      BY <1>4 DEF Interrupt
    <2>2. flags'.stop = TRUE /\ flags'.loop = flags.loop
      <3>1. flags.stop
        BY <1>4 DEF Interrupt, FirstInv, SkipRequests
      <3>2. flags.stop = TRUE
        BY <1>0, <3>1, FlagUpdate
      <3>3. QED
        BY <1>0, <2>1, <3>2, OtherFlagFields
    <2>3. QED
      BY <2>1, <2>2 DEF NextInv, InHand, NextMessageOnly
  <1>5. CASE JoinAndCreate(c)
    <2>1. flags' = [flags EXCEPT !.stop = FALSE]
          /\ UNCHANGED plays /\ playback' = "start_pass" /\ pc[c] = "join"
      BY <1>5 DEF JoinAndCreate
    <2>2. flags'.skip = flags.skip
      BY <1>0, <2>1, OtherFlagFields
    <2>3. Tracked' => ~flags'.skip
      BY <2>1, <2>2 DEF Tracked, FirstInv, FirstPlayback, Unstarted
    <2>4. QED
      BY <2>1, <2>3 DEF NextInv, InHand, NextMessageOnly, InHandPlaces, TakenPlaces
  <1>6. CASE SeekStop(c)
    <2>1. /\ flags' = [flags EXCEPT !.skip = TRUE, !.cancel = TRUE]
          /\ UNCHANGED <<playback, message, expected, plays>>
          /\ pc' = [pc EXCEPT ![c] = "seek_restart"] /\ pc[c] = "seek_stop" /\ Free("main")
      BY <1>6 DEF SeekStop
    <2>2. flags'.skip = TRUE /\ flags'.stop = flags.stop /\ flags'.loop = flags.loop
      BY <1>0, <2>1, OtherFlagFields
    <2>3. playback \notin MainPlaces /\ playback # "take_first"
      BY <2>1, PlayerAssumption DEF IInv, TypeOK, Locks, Free
    <2>4. playback \in LoopPlaces \ {"announce"}
      BY <2>1 DEF IInv, SeeksWhilePlaying, ReadyInLoop
    <2>5. playback \notin NoSkipPlaces
      BY <2>3, <2>4 DEF MainPlaces, LoopPlaces, NoSkipPlaces, TakenPlaces
    <2>6. \E d \in Callers : pc'[d] = "seek_restart"
      BY <1>0, <2>1
    <2>7. QED
      BY <2>1, <2>2, <2>3, <2>5, <2>6
         DEF NextInv, InHand, NextMessageOnly, NoSkipPlaces, MainPlaces
  <1>7. CASE SeekRestart(c)
    <2>1. /\ UNCHANGED <<playback, message, flags, plays>> /\ pc[c] = "seek_restart"
          /\ queue' = <<>> /\ read' = expected'
      BY <1>7 DEF SeekRestart, Reload
    <2>2. playback \notin MainPlaces /\ playback # "take_first"
      BY <2>1, PlayerAssumption DEF IInv, TypeOK, Locks
    <2>3. playback \in LoopPlaces \ {"announce"}
      BY <2>1 DEF IInv, SeeksWhilePlaying, ReadyInLoop
    <2>4. playback \notin NoSkipPlaces
      BY <2>2, <2>3 DEF MainPlaces, LoopPlaces, NoSkipPlaces, TakenPlaces
    <2>5. flags.skip
      BY <2>1 DEF FirstInv, SkipRequests
    <2>6. AsExpected(QueueFront)'
      BY <2>1 DEF AsExpected, QueueFront
    <2>7. QED
      BY <2>1, <2>2, <2>4, <2>5, <2>6
         DEF NextInv, InHand, NextMessageOnly, NoSkipPlaces, MainPlaces
  <1>8. QED
    BY <1>1, <1>2, <1>3, <1>4, <1>5, <1>6, <1>7 DEF NewCall, CallerStep

(* Every step keeps the message in hand the next one. *)
LEMMA NextStep ==
  ASSUME IInv, QueueIsNext, FirstInv, NextInv, [Next]_vars
  PROVE  NextInv'
  <1>1. CASE LoadMessage
    <2>1. QueueFront' = QueueFront
      BY <1>1, FrontOfLoad DEF IInv, TypeOK
    <2>2. LeavesInHand
      BY <1>1, <2>1 DEF LoadMessage, LeavesInHand, threadVars, historyVars
    <2>3. QED
      BY <2>2, FrameStep
  <1>2. CASE LoadingEnds \/ UNCHANGED vars
    <2>1. LeavesInHand
      BY <1>2 DEF LoadingEnds, vars, LeavesInHand, QueueFront, threadVars, loadVars, historyVars
    <2>2. QED
      BY <2>1, FrameStep
  <1>3. CASE \/ LockMain \/ Top \/ Wait \/ WaitPausedEnds \/ WasPaused \/ WaitTimeEnds \/ NoMessage
             \/ Answer /\ playback = "answer_null"
    BY <1>3, WaitStep
  <1>4. CASE \/ StartPass \/ Rewind \/ QueueFilled \/ Announce \/ Published
             \/ Answer /\ playback = "answer"
    BY <1>4, PrepareStep
  <1>5. CASE TakeFirst \/ Take
    BY <1>5, TakeStep
  <1>6. CASE Message
    BY <1>6, MessageStep
  <1>7. CASE Publish
    BY <1>7, PublishStep
  <1>8. CASE Leave \/ EndPlayback \/ Purge \/ LastRequest
    <2>1. playback' \in {"again", "purge", "last_request", "done"}
      BY <1>8 DEF Leave, EndPlayback, Purge, LastRequest, GoTo
    <2>2. QED
      BY <2>1 DEF NextInv, InHand, NextMessageOnly, NoSkipPlaces, TakenPlaces, InHandPlaces
  <1>9. CASE Again
    <2>1. /\ UNCHANGED <<flags, plays>>
          /\ playback' \in {"start_pass", "end"} /\ (playback' = "start_pass" => flags.loop)
      BY <1>9 DEF Again, GoTo, historyVars
    <2>2. QED
      BY <2>1 DEF NextInv, InHand, NextMessageOnly, Tracked, NoSkipPlaces, TakenPlaces, InHandPlaces
  <1>10. ASSUME NEW c \in Callers, NewCall(c) \/ CallerStep(c)
         PROVE  NextInv'
    BY <1>10, CallerInHand
  <1>11. Answer => playback \in {"answer", "answer_null"}
    BY DEF Answer
  <1>12. QED
    BY <1>1, <1>2, <1>3, <1>4, <1>5, <1>6, <1>7, <1>8, <1>9, <1>10, <1>11
       DEF Next, Loader, PlaybackThread

-----------------------------------------------------------------------------
(* The theorems.                                                           *)

(* The first state satisfies the invariant. *)
LEMMA InitIInv == Init => IInv
  <1> SUFFICES ASSUME Init PROVE IInv
    OBVIOUS
  <1>1. Types
    BY InitTypes
  <1>2. Locks
    BY PlayerAssumption DEF Init, Locks, MainPlaces
  <1>3. ReadyInLoop /\ JoinsInPlayback /\ SeeksWhilePlaying
    BY DEF Init, ReadyInLoop, JoinsInPlayback, SeeksWhilePlaying
  <1>4. FinishedIsQuiet
    BY DEF Init, FinishedIsQuiet
  <1>5. QED
    BY <1>1, <1>2, <1>3, <1>4 DEF IInv, TypeOK

(* The inductive invariant of the player. *)
THEOREM Invariance == Spec => []IInv
  <1>1. IInv /\ [Next]_vars => IInv'
    <2> SUFFICES ASSUME IInv, [Next]_vars PROVE IInv'
      OBVIOUS
    <2>1. Types /\ Locks
      BY DEF IInv, TypeOK
    <2>2. Types' /\ Locks'
      BY <2>1, TypesStep, LocksStep
    <2>3. QED
      BY <2>2, ReadyStep, JoinsStep, SeeksStep, QuietStep DEF IInv, TypeOK
  <1>2. QED
    BY InitIInv, <1>1, PTL DEF Spec

(* Every variable has its type and each of the three mutexes is held by the *)
(* thread that is in a section under it, by nobody otherwise. *)
THEOREM Typing == Spec => []TypeOK
  <1>1. IInv => TypeOK
    BY DEF IInv
  <1>2. QED
    BY <1>1, Invariance, PTL

(* seek() acts on the queue during the playing of messages only. *)
THEOREM SeekSafety == Spec => []SeeksWhilePlaying
  <1>1. IInv => SeeksWhilePlaying
    BY DEF IInv
  <1>2. QED
    BY <1>1, Invariance, PTL

(* After is_in_playback_ is reset nothing is published, and a thread that is *)
(* over has left no loading thread, no messages and no ready flag. *)
THEOREM FinishSafety == Spec => []FinishedIsQuiet
  <1>1. IInv => FinishedIsQuiet
    BY DEF IInv
  <1>2. QED
    BY <1>1, Invariance, PTL

(* What is in the queue and what the readers return next follow each other. *)
THEOREM QueueOrder == Spec => []QueueIsNext
  <1>1. Init => QueueIsNext
    BY EmptySeq DEF Init, QueueIsNext
  <1>2. TypeOK /\ QueueIsNext /\ [Next]_vars => QueueIsNext'
    BY QueueStep DEF TypeOK
  <1>3. QED
    BY <1>1, <1>2, Typing, PTL DEF Spec

(* The first playback publishes the messages one after the other, from its  *)
(* start or from where the last seek put it (player.cpp:1250): none twice,  *)
(* none left out, none that was read before the seek, for any number of     *)
(* threads that seek, stop, pause and ask for the next message.             *)
THEOREM PublishSafety == Spec => []NextMessageOnly
  <1>1. Init => FirstInv
    BY PlayerAssumption DEF Init, FirstInv, FirstPlayback, Unstarted, SkipRequests
  <1>2. Init => NextInv
    BY DEF Init, NextInv, InHand, NextMessageOnly, NoSkipPlaces, TakenPlaces, InHandPlaces
  <1>3. IInv /\ FirstInv /\ [Next]_vars => FirstInv'
    BY FirstStep
  <1>4. IInv /\ QueueIsNext /\ FirstInv /\ NextInv /\ [Next]_vars => NextInv'
    BY NextStep
  <1>5. NextInv => NextMessageOnly
    BY DEF NextInv
  <1>6. QED
    BY <1>1, <1>2, <1>3, <1>4, <1>5, Invariance, QueueOrder, PTL DEF Spec

-----------------------------------------------------------------------------
(* Dividing by the denominator of a rate keeps the order of two times. *)
LEMMA DivKeepsOrder ==
  ASSUME NEW a \in Int, NEW b \in Int, NEW d \in Nat \ {0}, a <= b
  PROVE  a \div d <= b \div d
  OBVIOUS

(* What the continuity rests on: the reference is a moment that has been, and *)
(* time flows forward at the rate in force.                                  *)
ClockRuns ==
    /\ steady \in Nat
    /\ reference \in [ros : Int, steady : Nat] /\ reference.steady <= steady
    /\ rate \in (Nat \ {0}) \X (Nat \ {0})
    /\ clock_paused \in BOOLEAN

(* The clock answers an integer. *)
LEMMA NowType ==
  ASSUME ClockRuns
  PROVE  /\ reference.ros \in Int /\ reference.steady \in Nat
         /\ rate[1] \in Nat \ {0} /\ rate[2] \in Nat \ {0}
         /\ steady_to_ros(steady) \in Int /\ ros_now \in Int
  <1>1. reference.ros \in Int /\ reference.steady \in Nat /\ steady \in Nat
    BY DEF ClockRuns
  <1>2. rate[1] \in Nat \ {0} /\ rate[2] \in Nat \ {0}
    BY DEF ClockRuns
  <1>3. rate[1] * (steady - reference.steady) \in Int
    BY <1>1, <1>2
  <1>4. (rate[1] * (steady - reference.steady)) \div rate[2] \in Int
    BY <1>2, <1>3
  <1>5. steady_to_ros(steady) \in Int
    BY <1>1, <1>4 DEF steady_to_ros
  <1> QED
    BY <1>1, <1>2, <1>5 DEF ros_now

(* With a snapshot of some time the clock shows that time, at any rate. *)
LEMMA SnapshotShows ==
  ASSUME ClockRuns, NEW t \in Int, snapshot(t), steady' = steady,
         rate' \in (Nat \ {0}) \X (Nat \ {0})
  PROVE  ros_now' = t
  <1>1. reference'.ros = t /\ reference'.steady = steady
    BY DEF snapshot
  <1>2. rate'[1] * (steady' - reference'.steady) = 0
    <2>1. steady' - reference'.steady = 0
      BY <1>1 DEF ClockRuns
    <2>2. rate'[1] \in Int
      OBVIOUS
    <2> QED
      BY <2>1, <2>2
  <1>3. 0 \div rate'[2] = 0
    <2>1. rate'[2] \in Nat \ {0}
      OBVIOUS
    <2> QED
      BY <2>1
  <1> QED
    BY <1>1, <1>2, <1>3 DEF ros_now, steady_to_ros

(* The steady clock moves the time forward, unless it stands. *)
LEMMA TickMoves ==
  ASSUME ClockRuns, SteadyTick
  PROVE  ros_now' = ros_now \/ (steady' > steady /\ ros_now' > ros_now)
  <1>1. /\ reference' = reference /\ rate' = rate /\ clock_paused' = clock_paused
        /\ steady \in Nat /\ steady' = steady + 1
    BY DEF SteadyTick, settings, ClockRuns
  <1>2. CASE clock_paused
    BY <1>1, <1>2 DEF ros_now
  <1>3. CASE ~clock_paused
    <2> DEFINE before == rate[1] * (steady - reference.steady)
               after  == rate[1] * (steady' - reference.steady)
    <2>1. rate[1] \in Nat \ {0} /\ rate[2] \in Nat \ {0} /\ reference.steady \in Nat /\ reference.ros \in Int
      BY NowType
    <2>2. before \in Int /\ after \in Int /\ before <= after
      <3>1. after = before + rate[1]
        BY <1>1, <2>1
      <3> QED
        BY <3>1, <1>1, <2>1
    <2>3. before \div rate[2] \in Int /\ after \div rate[2] \in Int
      BY <2>1, <2>2
    <2>4. before \div rate[2] <= after \div rate[2]
      <3> HIDE DEF before, after
      <3> QED
        BY <2>1, <2>2, DivKeepsOrder
    <2>5. ros_now = reference.ros + before \div rate[2]
      BY <1>3 DEF ros_now, steady_to_ros
    <2>6. ros_now' = reference.ros + after \div rate[2]
      BY <1>1, <1>3 DEF ros_now, steady_to_ros
    <2> HIDE DEF before, after
    <2> QED
      BY <1>1, <2>1, <2>3, <2>4, <2>5, <2>6
  <1> QED
    BY <1>2, <1>3

(* What does not touch the settings or the steady clock does not move the time. *)
LEMMA NowStays ==
  ASSUME UNCHANGED <<steady, settings>>
  PROVE  ros_now' = ros_now
  BY DEF settings, ros_now, steady_to_ros

(* A sleep only reads the clock. *)
LEMMA SleepsRead ==
  ASSUME Sleeps
  PROVE  UNCHANGED <<steady, settings>>
  BY DEF Sleeps, SleepBegins, WaitEnds, ChecksPause, Answers, MessageDone, settings

(* Every step keeps ClockRuns, and moves the time only as it may. *)
LEMMA ClockRunsStep ==
  ASSUME ClockRuns, [ClockNext]_clockVars
  PROVE  ClockRuns'
  <1>1. CASE SteadyTick
    BY <1>1 DEF SteadyTick, settings, ClockRuns
  <1>2. CASE UNCHANGED <<steady, settings>>
    BY <1>2 DEF settings, ClockRuns
  <1>3. ASSUME NEW r \in Rates, SetRate(r) PROVE ClockRuns'
    <2>1. r \in (Nat \ {0}) \X (Nat \ {0})
      BY <1>3, ClockAssumption DEF SetRate
    <2> QED
      BY <1>3, <2>1, NowType DEF SetRate, snapshot, ClockRuns
  <1>4. ASSUME NEW p \in BOOLEAN, SetClockPaused(p) PROVE ClockRuns'
    BY <1>4, NowType DEF SetClockPaused, snapshot, ClockRuns
  <1>5. ASSUME NEW t \in RosTimes, Jump(t) PROVE ClockRuns'
    <2>1. t \in Int
      BY ClockAssumption
    <2> QED
      BY <1>5, <2>1 DEF Jump, snapshot, ClockRuns
  <1>6. Wakeup \/ UNCHANGED clockVars => UNCHANGED <<steady, settings>>
    BY DEF Wakeup, clockVars
  <1> QED
    BY <1>1, <1>2, <1>3, <1>4, <1>5, <1>6, SleepsRead DEF ClockNext

(* A step shows the old time, or one that the steady clock or a jump gave. *)
LEMMA ContinuityStep ==
  ASSUME ClockRuns, [ClockNext]_clockVars
  PROVE  [\/ ros_now' = ros_now
          \/ steady' > steady /\ ros_now' > ros_now
          \/ \E t \in RosTimes : Jump(t) /\ ros_now' = t]_clockVars
  <1>1. CASE SteadyTick
    BY <1>1, TickMoves
  <1>2. CASE UNCHANGED <<steady, settings>>
    BY <1>2, NowStays
  <1>3. ASSUME NEW r \in Rates, SetRate(r) PROVE ros_now' = ros_now
    <2>1. r \in (Nat \ {0}) \X (Nat \ {0})
      BY <1>3, ClockAssumption DEF SetRate
    <2> QED
      BY <1>3, <2>1, NowType, SnapshotShows DEF SetRate
  <1>4. ASSUME NEW p \in BOOLEAN, SetClockPaused(p) PROVE ros_now' = ros_now
    <2>1. snapshot(ros_now) /\ steady' = steady /\ rate' \in (Nat \ {0}) \X (Nat \ {0})
      BY <1>4 DEF SetClockPaused, ClockRuns
    <2> QED
      BY <2>1, NowType, SnapshotShows
  <1>5. ASSUME NEW t \in RosTimes, Jump(t) PROVE ros_now' = t
    <2>1. t \in Int /\ snapshot(t) /\ steady' = steady /\ rate' \in (Nat \ {0}) \X (Nat \ {0})
      BY <1>5, ClockAssumption DEF Jump, ClockRuns
    <2> QED
      BY <2>1, SnapshotShows
  <1>6. Wakeup \/ UNCHANGED clockVars => UNCHANGED <<steady, settings>>
    BY DEF Wakeup, clockVars
  <1> QED
    BY <1>1, <1>2, <1>3, <1>4, <1>5, <1>6, SleepsRead DEF ClockNext

(* The time of the clock is continuous (TimeControllerClock): set_rate(),      *)
(* pause(), resume() and sleep_until() never move it, not even by what their   *)
(* conversions cut off; only the steady clock and jump() do.                  *)
THEOREM ClockContinuity == ClockInit /\ [][ClockNext]_clockVars => ClockIsContinuous
  <1>1. ClockInit => ClockRuns
    BY DEF ClockInit, ClockRuns
  <1>2. ClockRuns /\ [ClockNext]_clockVars => ClockRuns'
    BY ClockRunsStep
  <1>3. ClockRuns /\ [ClockNext]_clockVars
          => [\/ ros_now' = ros_now
              \/ steady' > steady /\ ros_now' > ros_now
              \/ \E t \in RosTimes : Jump(t) /\ ros_now' = t]_clockVars
    BY ContinuityStep
  <1> QED
    BY <1>1, <1>2, <1>3, PTL DEF ClockIsContinuous

-----------------------------------------------------------------------------
GoalRecords ==
    [of : Goals, state : {"sent", "accepted", "over"}, callback : {"options", "request"}]

(* What the variables of the goals hold. *)
ClientTypes ==
    /\ goals \in Seq(GoalRecords)
    /\ goal_ids \in [Goals -> {None, Zero} \cup DOMAIN goals]
    /\ handles \subseteq DOMAIN goals
    /\ player.at \in {"idle", "cancel", "result", "register", "clean"}
    /\ player.at \in {"cancel", "result"} => player.goal \in Goals /\ player.id \in {None} \cup DOMAIN goals
    /\ executor.at \in {"idle", "result", "cancel", "register"}
    /\ executor.at # "idle" => executor.id \in DOMAIN goals

(* A cancel that is about to be sent, or to be postponed, or is postponed, is  *)
(* one that was asked for: while the playback thread holds one back nobody else *)
(* gives the recorded goal a new id.                                         *)
CancelsAsked ==
    /\ player.at = "cancel" => /\ player.id # None => player.id \in asked
                               /\ goal_ids[player.goal] \in asked \cup {None, Zero}
    /\ \A key \in postponed.cancel : \E id \in asked \cup {Zero} : key = <<"new", id>>

(* A handle is of a goal that was accepted; a goal whose response is handled is *)
(* not over; and one that is not over is still known by its recorded goal, if   *)
(* that was sent once.                                                       *)
GoalsKnown ==
    /\ \A id \in handles : goals[id].state # "sent"
    /\ executor.at # "idle" => goals[executor.id].state = "accepted"
    /\ \A id \in DOMAIN goals :
          goals[id].state # "over" =>
              \/ goal_ids[goals[id].of] = id
              \/ \E i \in DOMAIN goals : i # id /\ goals[i].of = goals[id].of

ClientsIInv == ClientTypes /\ CancelsAsked /\ NoStrayCancel /\ GoalsKnown /\ GoalsAreForgotten

(* Nothing is sent, asked for or postponed at the start. *)
LEMMA InitClients == ClientsInit => ClientsIInv
  <1> SUFFICES ASSUME ClientsInit PROVE ClientsIInv
    OBVIOUS
  <1>1. goals = <<>> /\ DOMAIN goals = {} /\ goals \in Seq(GoalRecords)
    <2>1. <<>> \in Seq(GoalRecords)
      OBVIOUS
    <2> QED
      BY <2>1 DEF ClientsInit
  <1>2. ClientTypes
    BY <1>1 DEF ClientsInit, ClientTypes, Playing, Resting
  <1>3. CancelsAsked
    BY DEF ClientsInit, CancelsAsked, Playing
  <1>4. NoStrayCancel
    BY DEF ClientsInit, NoStrayCancel
  <1>5. GoalsKnown
    BY <1>1 DEF ClientsInit, GoalsKnown, Resting
  <1>6. GoalsAreForgotten
    BY DEF ClientsInit, GoalsAreForgotten
  <1> QED
    BY <1>2, <1>3, <1>4, <1>5, <1>6 DEF ClientsIInv

(* Steps that leave the goals alone, and postpone no cancel. *)
LEMMA GoalsFrame ==
  ASSUME ClientsIInv, UNCHANGED <<goal_ids, handles, goals, executor, asked, cancelled>>,
         postponed'.cancel \subseteq postponed.cancel,
         player' = player \/ player'.at \in {"idle", "register", "clean"}
  PROVE  ClientsIInv'
  <1>1. /\ goals' = goals /\ goal_ids' = goal_ids /\ handles' = handles
        /\ executor' = executor /\ asked' = asked /\ cancelled' = cancelled
        /\ postponed'.cancel \subseteq postponed.cancel
    OBVIOUS
  <1>2. ClientTypes'
    BY <1>1 DEF ClientsIInv, ClientTypes
  <1>3. CancelsAsked'
    BY <1>1 DEF ClientsIInv, CancelsAsked
  <1>4. NoStrayCancel' /\ GoalsKnown' /\ GoalsAreForgotten'
    BY <1>1 DEF ClientsIInv, NoStrayCancel, GoalsKnown, GoalsAreForgotten, Over
  <1> QED
    BY <1>2, <1>3, <1>4 DEF ClientsIInv

(* The next goal sent: the others keep their place. *)
LEMMA NextGoal ==
  ASSUME goals \in Seq(GoalRecords), NEW g \in GoalRecords, goals' = Append(goals, g)
  PROVE  /\ goals' \in Seq(GoalRecords)
         /\ Len(goals) + 1 \in Nat \ {0}
         /\ Len(goals) + 1 \notin DOMAIN goals
         /\ DOMAIN goals' = DOMAIN goals \cup {Len(goals) + 1}
         /\ \A i \in DOMAIN goals : goals'[i] = goals[i]
         /\ goals'[Len(goals) + 1] = g
  OBVIOUS

(* A new goal takes over the id of its recorded goal. *)
LEMMA SendGoalKeeps ==
  ASSUME ClientsIInv, NEW m \in Recorded, SendGoal(m)
  PROVE  ClientsIInv'
  <1> DEFINE n == Len(goals) + 1
             g == [of |-> m.goal, state |-> "sent", callback |-> "options"]
  <1>1. /\ player = Playing /\ player' = player /\ handles' = handles /\ postponed' = postponed
        /\ executor' = executor /\ asked' = asked /\ cancelled' = cancelled
        /\ goals' = Append(goals, g)
        /\ goal_ids' = [goal_ids EXCEPT ![m.goal] = n]
    BY DEF SendGoal, Publishes
  <1>2. m.goal \in Goals /\ g \in GoalRecords
    BY DEF Goals, GoalRecords
  <1>3. /\ goals' \in Seq(GoalRecords) /\ n \notin DOMAIN goals
        /\ DOMAIN goals' = DOMAIN goals \cup {n}
        /\ \A i \in DOMAIN goals : goals'[i] = goals[i]
        /\ goals'[n] = g
    BY <1>1, <1>2, NextGoal DEF ClientsIInv, ClientTypes
  <1>4. player.at = "idle"
    BY <1>1 DEF Playing
  <1> HIDE DEF n, g
  <1>5. ClientTypes'
    <2>1. goal_ids' \in [Goals -> {None, Zero} \cup DOMAIN goals']
      BY <1>1, <1>2, <1>3 DEF ClientsIInv, ClientTypes
    <2> QED
      BY <1>1, <1>3, <1>4, <2>1 DEF ClientsIInv, ClientTypes
  <1>6. CancelsAsked'
    BY <1>1, <1>4 DEF ClientsIInv, CancelsAsked
  <1>7. NoStrayCancel'
    BY <1>1 DEF ClientsIInv, NoStrayCancel
  <1>8. GoalsKnown'
    <2>1. \A id \in handles' : goals'[id].state # "sent"
      BY <1>1, <1>3 DEF ClientsIInv, GoalsKnown, ClientTypes
    <2>2. executor'.at # "idle" => goals'[executor'.id].state = "accepted"
      BY <1>1, <1>3 DEF ClientsIInv, GoalsKnown, ClientTypes
    <2>3. ASSUME NEW id \in DOMAIN goals', goals'[id].state # "over"
          PROVE  \/ goal_ids'[goals'[id].of] = id
                 \/ \E i \in DOMAIN goals' : i # id /\ goals'[i].of = goals'[id].of
      <3>1. CASE id = n
        <4>1. goals'[id].of = m.goal
          BY <1>3, <3>1 DEF g
        <4>2. goal_ids'[m.goal] = n
          BY <1>1, <1>2 DEF ClientsIInv, ClientTypes
        <4> QED
          BY <3>1, <4>1, <4>2
      <3>2. CASE id # n
        <4>1. id \in DOMAIN goals /\ goals'[id] = goals[id]
          BY <1>3, <2>3, <3>2
        <4>2. CASE goals[id].of = m.goal
          BY <1>3, <3>2, <4>1, <4>2 DEF g
        <4>3. CASE goals[id].of # m.goal
          <5>1. goals[id].of \in Goals
            <6>1. goals[id] \in GoalRecords
              BY <4>1 DEF ClientsIInv, ClientTypes
            <6> QED
              BY <6>1 DEF GoalRecords
          <5>2. goal_ids'[goals[id].of] = goal_ids[goals[id].of]
            BY <1>1, <4>3, <5>1 DEF ClientsIInv, ClientTypes
          <5>3. \/ goal_ids[goals[id].of] = id
                \/ \E i \in DOMAIN goals : i # id /\ goals[i].of = goals[id].of
            BY <2>3, <4>1 DEF ClientsIInv, GoalsKnown
          <5> QED
            BY <1>3, <4>1, <5>2, <5>3
        <4> QED
          BY <4>2, <4>3
      <3> QED
        BY <3>1, <3>2
    <2> QED
      BY <2>1, <2>2, <2>3 DEF GoalsKnown
  <1>9. GoalsAreForgotten'
    <2>1. ASSUME NEW id \in handles', Over(id)'
          PROVE  \E i \in DOMAIN goals' : i # id /\ goals'[i].of = goals'[id].of
      <3>1. id \in handles /\ id \in DOMAIN goals /\ goals'[id] = goals[id]
        BY <1>1, <1>3 DEF ClientsIInv, ClientTypes
      <3>2. Over(id)
        BY <2>1, <3>1 DEF Over
      <3>3. PICK i \in DOMAIN goals : i # id /\ goals[i].of = goals[id].of
        BY <3>1, <3>2 DEF ClientsIInv, GoalsAreForgotten
      <3> QED
        BY <1>3, <3>1, <3>3
    <2> QED
      BY <2>1 DEF GoalsAreForgotten
  <1> QED
    BY <1>5, <1>6, <1>7, <1>8, <1>9 DEF ClientsIInv

(* Looking up a goal's handle notes for which goal a cancel was meant. *)
LEMMA LookUpKeeps ==
  ASSUME ClientsIInv, NEW m \in Recorded, LookUp(m)
  PROVE  ClientsIInv'
  <1> DEFINE id == goal_ids[m.goal]
  <1>1. /\ goals' = goals /\ goal_ids' = goal_ids /\ handles' = handles /\ postponed' = postponed
        /\ executor' = executor /\ cancelled' = cancelled /\ m.kind \in {"cancel", "result"}
    BY DEF LookUp
  <1>2. m.goal \in Goals
    BY DEF Goals
  <1>3. CASE id = None
    <2>1. asked' = asked /\ player' = player
      BY <1>3 DEF LookUp
    <2> QED
      BY <1>1, <2>1, GoalsFrame
  <1>4. CASE id # None
    <2>1. /\ player' = [at |-> m.kind, goal |-> m.goal, id |-> IF id \in handles THEN id ELSE None]
          /\ asked' = IF m.kind = "cancel" THEN asked \cup {id} ELSE asked
      BY <1>4 DEF LookUp
    <2>2. id \in {None, Zero} \cup DOMAIN goals
      BY <1>2 DEF ClientsIInv, ClientTypes
    <2> HIDE DEF id
    <2>3. player'.at = m.kind /\ player'.goal = m.goal /\ player'.id = IF id \in handles THEN id ELSE None
      BY <2>1
    <2>4. player'.id \in {None} \cup DOMAIN goals
      BY <2>3 DEF ClientsIInv, ClientTypes
    <2>5. ClientTypes'
      BY <1>1, <1>2, <2>3, <2>4 DEF ClientsIInv, ClientTypes
    <2>6. asked \subseteq asked'
      BY <2>1
    <2>7. CancelsAsked'
      <3>1. \A key \in postponed'.cancel : \E i \in asked' \cup {Zero} : key = <<"new", i>>
        BY <1>1, <2>6 DEF ClientsIInv, CancelsAsked
      <3>2. ASSUME player'.at = "cancel"
            PROVE  /\ player'.id # None => player'.id \in asked'
                   /\ goal_ids'[player'.goal] \in asked' \cup {None, Zero}
        <4>1. id \in asked'
          BY <2>1, <2>3, <3>2
        <4> QED
          BY <1>1, <2>3, <4>1 DEF id
      <3> QED
        BY <3>1, <3>2 DEF CancelsAsked
    <2>8. NoStrayCancel' /\ GoalsKnown' /\ GoalsAreForgotten'
      BY <1>1, <2>6 DEF ClientsIInv, NoStrayCancel, GoalsKnown, GoalsAreForgotten, Over
    <2> QED
      BY <2>5, <2>7, <2>8 DEF ClientsIInv
  <1> QED
    BY <1>3, <1>4

(* The cancel that is sent was looked up for this goal. *)
LEMMA SendCancelKeeps ==
  ASSUME ClientsIInv, SendCancel
  PROVE  ClientsIInv'
  <1>1. /\ goals' = goals /\ goal_ids' = goal_ids /\ handles' = handles /\ postponed' = postponed
        /\ executor' = executor /\ asked' = asked /\ player' = Playing
        /\ player.at = "cancel" /\ player.id # None /\ cancelled' \subseteq cancelled \cup {player.id}
    BY DEF SendCancel
  <1>2. player'.at = "idle"
    BY <1>1 DEF Playing
  <1>3. NoStrayCancel'
    BY <1>1 DEF ClientsIInv, CancelsAsked, NoStrayCancel
  <1>4. ClientTypes' /\ CancelsAsked'
    BY <1>1, <1>2 DEF ClientsIInv, ClientTypes, CancelsAsked
  <1>5. GoalsKnown' /\ GoalsAreForgotten'
    BY <1>1 DEF ClientsIInv, GoalsKnown, GoalsAreForgotten, Over
  <1> QED
    BY <1>3, <1>4, <1>5 DEF ClientsIInv

(* A goal that only changes its state or its callback. *)
LEMMA OneGoalChanges ==
  ASSUME goals \in Seq(GoalRecords), NEW id \in DOMAIN goals, NEW g \in GoalRecords,
         g.of = goals[id].of, goals' = [goals EXCEPT ![id] = g]
  PROVE  /\ goals' \in Seq(GoalRecords)
         /\ DOMAIN goals' = DOMAIN goals
         /\ \A i \in DOMAIN goals : goals'[i] = IF i = id THEN g ELSE goals[i]
         /\ \A i \in DOMAIN goals : goals'[i].of = goals[i].of
  OBVIOUS

(* A result request changes who gets the result. *)
LEMMA SendResultKeeps ==
  ASSUME ClientsIInv, SendResult
  PROVE  ClientsIInv'
  <1>1. /\ goal_ids' = goal_ids /\ handles' = handles /\ postponed' = postponed
        /\ executor' = executor /\ asked' = asked /\ player' = Playing /\ cancelled' = cancelled
        /\ player.at = "result" /\ player.id # None
    BY DEF SendResult
  <1>2. player'.at = "idle"
    BY <1>1 DEF Playing
  <1>3. CASE goals' = goals
    BY <1>1, <1>2, <1>3, GoalsFrame
  <1>4. CASE goals' = [goals EXCEPT ![player.id].callback = "request"]
    <2> DEFINE g == [goals[player.id] EXCEPT !.callback = "request"]
    <2>1. player.id \in DOMAIN goals /\ goals \in Seq(GoalRecords)
      BY <1>1 DEF ClientsIInv, ClientTypes
    <2>2. goals[player.id] \in GoalRecords
      BY <2>1
    <2>3. g \in GoalRecords /\ g.of = goals[player.id].of /\ g.state = goals[player.id].state
      BY <2>2 DEF GoalRecords
    <2>4. goals' = [goals EXCEPT ![player.id] = g]
      BY <1>4
    <2> HIDE DEF g
    <2>5. /\ goals' \in Seq(GoalRecords) /\ DOMAIN goals' = DOMAIN goals
          /\ \A i \in DOMAIN goals : goals'[i].of = goals[i].of /\ goals'[i].state = goals[i].state
      BY <2>1, <2>3, <2>4, OneGoalChanges
    <2>6. ClientTypes' /\ CancelsAsked'
      BY <1>1, <1>2, <2>5 DEF ClientsIInv, ClientTypes, CancelsAsked
    <2>7. NoStrayCancel'
      BY <1>1 DEF ClientsIInv, NoStrayCancel
    <2>8. GoalsKnown'
      BY <1>1, <2>5 DEF ClientsIInv, ClientTypes, GoalsKnown
    <2>9. GoalsAreForgotten'
      BY <1>1, <2>5 DEF ClientsIInv, ClientTypes, GoalsAreForgotten, Over
    <2> QED
      BY <2>6, <2>7, <2>8, <2>9 DEF ClientsIInv
  <1> QED
    BY <1>3, <1>4 DEF SendResult

(* A cancel that is postponed under the id that its recorded goal has by then. *)
LEMMA PostponeCancelKeeps ==
  ASSUME ClientsIInv, PostponeCancel
  PROVE  ClientsIInv'
  <1> DEFINE id == IF goal_ids[player.goal] = None THEN Zero ELSE goal_ids[player.goal]
  <1>1. /\ goals' = goals /\ handles' = handles
        /\ executor' = executor /\ asked' = asked /\ cancelled' = cancelled /\ player' = Playing
        /\ player.at = "cancel"
        /\ goal_ids' = [goal_ids EXCEPT ![player.goal] = id]
        /\ postponed' = [postponed EXCEPT !.cancel = @ \cup {<<"new", id>>}]
    BY DEF PostponeCancel, CancelKey
  <1>2. player'.at = "idle" /\ player.goal \in Goals
    BY <1>1 DEF Playing, ClientsIInv, ClientTypes
  <1>3. id \in asked \cup {Zero} /\ id \in {Zero} \cup DOMAIN goals
    BY <1>1, <1>2 DEF ClientsIInv, ClientTypes, CancelsAsked
  <1>4. goal_ids[player.goal] # None => id = goal_ids[player.goal]
    OBVIOUS
  <1> HIDE DEF id
  <1>5. ClientTypes'
    BY <1>1, <1>2, <1>3 DEF ClientsIInv, ClientTypes
  <1>6. CancelsAsked'
    <2>1. postponed'.cancel \subseteq postponed.cancel \cup {<<"new", id>>}
      BY <1>1
    <2> QED
      BY <1>1, <1>2, <1>3, <2>1 DEF ClientsIInv, CancelsAsked
  <1>7. NoStrayCancel'
    BY <1>1 DEF ClientsIInv, NoStrayCancel
  <1>8. GoalsKnown'
    <2>1. \A known \in DOMAIN goals : goal_ids[goals[known].of] = known => goal_ids'[goals[known].of] = known
      <3> SUFFICES ASSUME NEW known \in DOMAIN goals, goal_ids[goals[known].of] = known
                   PROVE  goal_ids'[goals[known].of] = known
        OBVIOUS
      <3>1. goals[known] \in GoalRecords /\ known # None
        BY DEF ClientsIInv, ClientTypes, None
      <3>2. goals[known].of \in Goals
        BY <3>1 DEF GoalRecords
      <3> QED
        BY <1>1, <1>4, <3>1, <3>2 DEF ClientsIInv, ClientTypes
    <2> QED
      BY <1>1, <2>1 DEF ClientsIInv, GoalsKnown
  <1>9. GoalsAreForgotten'
    BY <1>1 DEF ClientsIInv, GoalsAreForgotten, Over
  <1> QED
    BY <1>5, <1>6, <1>7, <1>8, <1>9 DEF ClientsIInv


(* A postponed result request cancels nothing. *)
LEMMA PostponeResultKeeps ==
  ASSUME ClientsIInv, PostponeResult
  PROVE  ClientsIInv'
  <1>1. /\ UNCHANGED <<goal_ids, handles, goals, executor, asked, cancelled>>
        /\ postponed'.cancel \subseteq postponed.cancel /\ player'.at = "idle"
    BY DEF PostponeResult, Playing
  <1> QED
    BY <1>1, GoalsFrame

(* When a goal is over, its recorded goal is not known any more: another replay *)
(* of it is one of several.                                                  *)
LEMMA GoalEnds ==
  ASSUME ClientsIInv, NEW id \in DOMAIN goals, executor.at = "idle",
         goals' = [goals EXCEPT ![id].state = "over"],
         goal_ids' = [goal_ids EXCEPT ![goals[id].of] = None],
         handles' \subseteq handles,
         id \in handles' => \E i \in DOMAIN goals : i # id /\ goals[i].of = goals[id].of,
         UNCHANGED <<player, postponed, executor, asked, cancelled>>
  PROVE  ClientsIInv'
  <1> DEFINE g == [goals[id] EXCEPT !.state = "over"]
  <1>1. goals \in Seq(GoalRecords) /\ goals[id] \in GoalRecords
    BY DEF ClientsIInv, ClientTypes
  <1>2. g \in GoalRecords /\ g.of = goals[id].of /\ g.state = "over" /\ goals[id].of \in Goals
    BY <1>1 DEF GoalRecords
  <1>3. goals' = [goals EXCEPT ![id] = g]
    OBVIOUS
  <1> HIDE DEF g
  <1>4. /\ goals' \in Seq(GoalRecords) /\ DOMAIN goals' = DOMAIN goals
        /\ \A i \in DOMAIN goals : goals'[i] = IF i = id THEN g ELSE goals[i]
        /\ \A i \in DOMAIN goals : goals'[i].of = goals[i].of
    BY <1>1, <1>2, <1>3, OneGoalChanges
  <1>5. \A r \in Goals : goal_ids'[r] = IF r = goals[id].of THEN None ELSE goal_ids[r]
    BY DEF ClientsIInv, ClientTypes
  <1>6. ClientTypes'
    <2>1. goal_ids' \in [Goals -> {None, Zero} \cup DOMAIN goals]
      BY <1>2 DEF ClientsIInv, ClientTypes
    <2> QED
      BY <1>4, <2>1 DEF ClientsIInv, ClientTypes
  <1>7. CancelsAsked'
    <2>1. player.at = "cancel" => player.goal \in Goals
      BY DEF ClientsIInv, ClientTypes
    <2> QED
      BY <1>5, <2>1 DEF ClientsIInv, CancelsAsked
  <1>8. NoStrayCancel'
    BY DEF ClientsIInv, NoStrayCancel
  <1>9. GoalsKnown'
    <2>1. \A i \in handles' : goals'[i].state # "sent"
      BY <1>2, <1>4 DEF ClientsIInv, ClientTypes, GoalsKnown
    <2>2. executor'.at = "idle"
      OBVIOUS
    <2>3. ASSUME NEW known \in DOMAIN goals, goals'[known].state # "over"
          PROVE  \/ goal_ids'[goals'[known].of] = known
                 \/ \E i \in DOMAIN goals : i # known /\ goals'[i].of = goals'[known].of
      <3>1. known # id /\ goals'[known] = goals[known]
        BY <1>2, <1>4, <2>3
      <3>2. CASE goals[known].of = goals[id].of
        BY <1>4, <3>1, <3>2
      <3>3. CASE goals[known].of # goals[id].of
        <4>1. goals[known].of \in Goals
          <5>1. goals[known] \in GoalRecords
            BY <1>1
          <5> QED
            BY <5>1 DEF GoalRecords
        <4>2. goal_ids'[goals'[known].of] = goal_ids[goals[known].of]
          BY <1>5, <3>1, <3>3, <4>1
        <4>3. \/ goal_ids[goals[known].of] = known
              \/ \E i \in DOMAIN goals : i # known /\ goals[i].of = goals[known].of
          BY <2>3, <3>1 DEF ClientsIInv, GoalsKnown
        <4> QED
          BY <1>4, <4>2, <4>3
      <3> QED
        BY <3>2, <3>3
    <2> QED
      BY <1>4, <2>1, <2>2, <2>3 DEF GoalsKnown
  <1>10. GoalsAreForgotten'
    <2>1. ASSUME NEW h \in handles', Over(h)'
          PROVE  \E i \in DOMAIN goals : i # h /\ goals[i].of = goals[h].of
      <3>1. h \in handles /\ h \in DOMAIN goals
        BY DEF ClientsIInv, ClientTypes
      <3>2. CASE h = id
        BY <3>2
      <3>3. CASE h # id
        <4>1. Over(h)
          BY <1>4, <2>1, <3>1, <3>3 DEF Over
        <4> QED
          BY <3>1, <4>1 DEF ClientsIInv, GoalsAreForgotten
      <3> QED
        BY <3>2, <3>3
    <2>2. \A h \in handles' : h \in DOMAIN goals
      BY DEF ClientsIInv, ClientTypes
    <2> QED
      BY <1>4, <2>1, <2>2 DEF GoalsAreForgotten
  <1> QED
    BY <1>6, <1>7, <1>8, <1>9, <1>10 DEF ClientsIInv

(* A rejected goal never had a handle. *)
LEMMA RejectKeeps ==
  ASSUME ClientsIInv, NEW id \in DOMAIN goals, Reject(id)
  PROVE  ClientsIInv'
  <1>1. id \notin handles
    BY DEF Reject, ClientsIInv, GoalsKnown
  <1>2. /\ executor.at = "idle" /\ goals' = [goals EXCEPT ![id].state = "over"]
        /\ goal_ids' = [goal_ids EXCEPT ![goals[id].of] = None]
        /\ UNCHANGED <<handles, player, postponed, executor, asked, cancelled>>
    BY DEF Reject, Handling
  <1> QED
    BY <1>1, <1>2, GoalEnds

(* The result of a goal removes its handle: under its own id, or under the one *)
(* its recorded goal is known by, which is its own unless that was sent again. *)
LEMMA ResultKeeps ==
  ASSUME ClientsIInv, NEW id \in DOMAIN goals, Result(id)
  PROVE  ClientsIInv'
  <1> DEFINE forgotten == IF goals[id].callback = "options" THEN id ELSE goal_ids[goals[id].of]
  <1>1. /\ executor.at = "idle" /\ goals[id].state = "accepted"
        /\ goals' = [goals EXCEPT ![id].state = "over"]
        /\ goal_ids' = [goal_ids EXCEPT ![goals[id].of] = None]
        /\ handles' = handles \ {forgotten}
        /\ UNCHANGED <<player, postponed, executor, asked, cancelled>>
    BY DEF Result, Handling
  <1>2. forgotten = id \/ \E i \in DOMAIN goals : i # id /\ goals[i].of = goals[id].of
    BY <1>1 DEF ClientsIInv, GoalsKnown
  <1> HIDE DEF forgotten
  <1>3. id \in handles' => \E i \in DOMAIN goals : i # id /\ goals[i].of = goals[id].of
    BY <1>1, <1>2
  <1> QED
    BY <1>1, <1>3, GoalEnds

(* An accepted goal, whose postponed requests are sent next. *)
LEMMA AcceptKeeps ==
  ASSUME ClientsIInv, NEW id \in DOMAIN goals, Accept(id)
  PROVE  ClientsIInv'
  <1> DEFINE g == [goals[id] EXCEPT !.state = "accepted"]
  <1>1. /\ executor.at = "idle" /\ goals[id].state = "sent"
        /\ goals' = [goals EXCEPT ![id].state = "accepted"]
        /\ executor' = [at |-> "result", id |-> id]
        /\ UNCHANGED <<player, goal_ids, handles, postponed, asked, cancelled>>
    BY DEF Accept, Handling, Callback
  <1>2. goals \in Seq(GoalRecords) /\ goals[id] \in GoalRecords
    BY DEF ClientsIInv, ClientTypes
  <1>3. g \in GoalRecords /\ g.of = goals[id].of /\ g.state = "accepted"
    BY <1>2 DEF GoalRecords
  <1>4. goals' = [goals EXCEPT ![id] = g]
    BY <1>1
  <1> HIDE DEF g
  <1>5. /\ goals' \in Seq(GoalRecords) /\ DOMAIN goals' = DOMAIN goals
        /\ \A i \in DOMAIN goals : goals'[i] = IF i = id THEN g ELSE goals[i]
        /\ \A i \in DOMAIN goals : goals'[i].of = goals[i].of
    BY <1>2, <1>3, <1>4, OneGoalChanges
  <1>6. ClientTypes' /\ CancelsAsked'
    BY <1>1, <1>5 DEF ClientsIInv, ClientTypes, CancelsAsked
  <1>7. NoStrayCancel'
    BY <1>1 DEF ClientsIInv, NoStrayCancel
  <1>8. \A i \in DOMAIN goals : i # id => goals'[i].state = goals[i].state
    BY <1>5
  <1>9. GoalsKnown'
    <2>1. \A h \in handles' : goals'[h].state # "sent"
      BY <1>1, <1>3, <1>5 DEF ClientsIInv, ClientTypes, GoalsKnown
    <2>2. executor'.at # "idle" => goals'[executor'.id].state = "accepted"
      BY <1>1, <1>3, <1>5
    <2>3. \A known \in DOMAIN goals' :
            goals'[known].state # "over" =>
              \/ goal_ids'[goals'[known].of] = known
              \/ \E i \in DOMAIN goals' : i # known /\ goals'[i].of = goals'[known].of
      <3>1. \A known \in DOMAIN goals : goals[known].state # "over" =>
              \/ goal_ids[goals[known].of] = known
              \/ \E i \in DOMAIN goals : i # known /\ goals[i].of = goals[known].of
        BY DEF ClientsIInv, GoalsKnown
      <3>2. \A known \in DOMAIN goals : goals'[known].state # "over" => goals[known].state # "over"
        BY <1>1, <1>8
      <3> QED
        BY <1>1, <1>5, <3>1, <3>2
    <2> QED
      BY <2>1, <2>2, <2>3 DEF GoalsKnown
  <1>10. GoalsAreForgotten'
    <2>1. \A h \in handles : h \in DOMAIN goals /\ h # id
      BY <1>1 DEF ClientsIInv, ClientTypes, GoalsKnown
    <2>2. \A h \in handles : Over(h)' => Over(h)
      BY <1>8, <2>1 DEF Over
    <2> QED
      BY <1>1, <1>5, <2>1, <2>2 DEF ClientsIInv, GoalsAreForgotten
  <1> QED
    BY <1>6, <1>7, <1>9, <1>10 DEF ClientsIInv

(* The steps of the callback for an accepted goal, up to its handle. *)
LEMMA CallbackKeeps ==
  ASSUME ClientsIInv, executor.at # "idle",
         executor'.at = "idle" \/ executor'.id = executor.id,
         executor'.at \in {"idle", "cancel", "register"},
         postponed'.cancel \subseteq postponed.cancel,
         handles' \subseteq handles \cup {executor.id},
         cancelled' \subseteq asked,
         UNCHANGED <<player, goal_ids, goals, asked>>
  PROVE  ClientsIInv'
  <1>1. executor.id \in DOMAIN goals /\ goals[executor.id].state = "accepted"
    BY DEF ClientsIInv, ClientTypes, GoalsKnown
  <1>2. ClientTypes'
    BY <1>1 DEF ClientsIInv, ClientTypes
  <1>3. CancelsAsked' /\ NoStrayCancel'
    BY DEF ClientsIInv, CancelsAsked, NoStrayCancel
  <1>4. GoalsKnown'
    BY <1>1 DEF ClientsIInv, GoalsKnown
  <1>5. GoalsAreForgotten'
    BY <1>1 DEF ClientsIInv, GoalsAreForgotten, Over
  <1> QED
    BY <1>2, <1>3, <1>4, <1>5 DEF ClientsIInv

(* The postponed result request, which takes nothing else away. *)
LEMMA SendPostponedResultKeeps ==
  ASSUME ClientsIInv, SendPostponedResult
  PROVE  ClientsIInv'
  <1>1. /\ executor.at = "result" /\ executor'.at = "cancel" /\ executor'.id = executor.id
        /\ postponed'.cancel \subseteq postponed.cancel
        /\ UNCHANGED <<player, goal_ids, handles, goals, asked, cancelled>>
    BY DEF SendPostponedResult, Handling, Callback
  <1>2. cancelled' \subseteq asked
    BY <1>1 DEF ClientsIInv, NoStrayCancel
  <1> QED
    BY <1>1, <1>2, CallbackKeeps

(* The postponed cancel that is sent was kept under this goal's id. *)
LEMMA SendPostponedCancelKeeps ==
  ASSUME ClientsIInv, SendPostponedCancel
  PROVE  ClientsIInv'
  <1> DEFINE id == executor.id
  <1>1. /\ executor.at = "cancel" /\ executor' = [at |-> "register", id |-> id]
        /\ postponed'.cancel \subseteq postponed.cancel
        /\ cancelled' = IF <<"new", id>> \in postponed.cancel THEN cancelled \cup {id} ELSE cancelled
        /\ UNCHANGED <<player, goal_ids, handles, goals, asked>>
    BY DEF SendPostponedCancel, Handling, Callback, CancelKey
  <1>2. id \in DOMAIN goals /\ id # Zero
    BY <1>1 DEF ClientsIInv, ClientTypes, Zero
  <1>3. <<"new", id>> \in postponed.cancel => id \in asked
    BY <1>2 DEF ClientsIInv, CancelsAsked
  <1>4. cancelled' \subseteq asked
    BY <1>1, <1>3 DEF ClientsIInv, NoStrayCancel
  <1>5. executor'.at = "register" /\ executor'.id = executor.id
    BY <1>1
  <1> QED
    BY <1>1, <1>4, <1>5, CallbackKeeps

(* The handle that is registered is of an accepted goal. *)
LEMMA RegisterHandleKeeps ==
  ASSUME ClientsIInv, RegisterHandle
  PROVE  ClientsIInv'
  <1>1. /\ executor.at = "register" /\ executor'.at = "idle"
        /\ handles' = handles \cup {executor.id}
        /\ UNCHANGED <<player, goal_ids, postponed, goals, asked, cancelled>>
    BY DEF RegisterHandle, Handling, Resting
  <1>2. cancelled' \subseteq asked
    BY <1>1 DEF ClientsIInv, NoStrayCancel
  <1> QED
    BY <1>1, <1>2, CallbackKeeps

(* What is about services touches no goal. *)
LEMMA ServicesKeep ==
  ASSUME ClientsIInv,
         \/ \E m \in Recorded : SendRequest(m)
         \/ Register \/ WaitBegins \/ WaitReturns
         \/ \E i \in DOMAIN futures : Respond(i)
         \/ UNCHANGED clientVars
  PROVE  ClientsIInv'
  <1>1. UNCHANGED actionVars /\ (player' = player \/ player'.at \in {"idle", "register", "clean"})
    <2>1. ASSUME NEW m \in Recorded, SendRequest(m) PROVE UNCHANGED actionVars /\ player'.at = "register"
      BY <2>1 DEF SendRequest, Playing
    <2>2. CASE Register
      <3>1. UNCHANGED actionVars /\ (player' = Playing \/ player' = [player EXCEPT !.at = "clean"])
        BY <2>2 DEF Register
      <3>2. player' = Playing => player'.at = "idle"
        BY DEF Playing
      <3>3. player' = [player EXCEPT !.at = "clean"] => player' = player \/ player'.at = "clean"
        OBVIOUS
      <3> QED
        BY <3>1, <3>2, <3>3
    <2>3. CASE WaitBegins \/ WaitReturns \/ (\E i \in DOMAIN futures : Respond(i)) \/ UNCHANGED clientVars
      BY <2>3 DEF WaitBegins, WaitReturns, Respond, clientVars
    <2> QED
      BY <2>1, <2>2, <2>3
  <1>2. UNCHANGED <<goal_ids, handles, goals, executor, asked, cancelled>> /\ postponed' = postponed
    BY <1>1 DEF actionVars
  <1> QED
    BY <1>1, <1>2, GoalsFrame

(* Every step of the two threads keeps the invariant. *)
THEOREM ClientsInvariance == ClientsInit /\ [][ClientsNext]_clientVars => []ClientsIInv
  <1>1. ClientsIInv /\ [ClientsNext]_clientVars => ClientsIInv'
    BY SendGoalKeeps, LookUpKeeps, SendCancelKeeps, SendResultKeeps, PostponeCancelKeeps,
       PostponeResultKeeps, RejectKeeps, ResultKeeps, AcceptKeeps, SendPostponedResultKeeps,
       SendPostponedCancelKeeps, RegisterHandleKeeps, ServicesKeep
       DEF ClientsNext, ClientThread, ExecutorThread
  <1> QED
    BY <1>1, InitClients, PTL

(* A goal is cancelled only if a recorded cancel was looked up for it: one that *)
(* was postponed never hits another replay (async_send_cancel_request() and the *)
(* goal response callback of PlayerActionClient).                             *)
THEOREM CancelSafety == ClientsInit /\ [][ClientsNext]_clientVars => []NoStrayCancel
  <1>1. ClientsIInv => NoStrayCancel
    BY DEF ClientsIInv
  <1> QED
    BY <1>1, ClientsInvariance, PTL

(* A goal that is over has no handle left, unless its recorded goal was sent    *)
(* again: whichever callback gets the result, and whatever was looked up.      *)
THEOREM HandleSafety == ClientsInit /\ [][ClientsNext]_clientVars => []GoalsAreForgotten
  <1>1. ClientsIInv => GoalsAreForgotten
    BY DEF ClientsIInv
  <1> QED
    BY <1>1, ClientsInvariance, PTL

-----------------------------------------------------------------------------
(* Quality of service: for any endpoints and options.                       *)

Offers == {e.qos : e \in Endpoints}

(* The publishers are endpoints, what was written are their offers, and a        *)
(* comparison is one with the request.                                          *)
QosInv ==
    /\ endpoints \in Seq(Endpoints)
    /\ topic_qos.offers \in Seq(Offers)
    /\ qos_checked => qos_step = "subscribed"
    /\ qos_checked /\ ~qos_warned => \A i \in DOMAIN endpoints :
          ~IncompatibleReliability(endpoints[i].qos) /\ ~IncompatibleDurability(endpoints[i].qos)

(* A list of endpoints without one of them is a list of endpoints. *)
LEMMA RemovedEndpoint ==
  ASSUME NEW S, NEW s \in Seq(S), NEW i \in DOMAIN s
  PROVE  RemoveAt(s, i) \in Seq(S)
  BY DEF RemoveAt

(* For any endpoints that come and go between the recorder's two reads of the offers:
   what it wrote down are offers, and a comparison that warned of nothing found nothing. *)
THEOREM QosInvariance == QosInit /\ [][QosNext]_qosVars => []QosInv
  <1>1. QosInit => QosInv
    BY DEF QosInit, QosInv
  <1>2. QosInv /\ [QosNext]_qosVars => QosInv'
    <2> SUFFICES ASSUME QosInv, [QosNext]_qosVars PROVE QosInv'
      OBVIOUS
    <2>1. CASE PublisherComes
      BY <2>1 DEF PublisherComes, QosInv
    <2>2. CASE PublisherLeaves
      BY <2>2, RemovedEndpoint DEF PublisherLeaves, QosInv
    <2>3. CASE CreateTopic
      <3>1. topic_qos'.offers = [i \in DOMAIN endpoints |-> endpoints[i].qos]
        BY <2>3 DEF CreateTopic
      <3>2. topic_qos'.offers \in Seq(Offers)
        BY <3>1 DEF QosInv, Offers
      <3> QED
        BY <2>3, <3>2 DEF CreateTopic, QosInv
    <2>4. CASE Subscribe
      BY <2>4 DEF Subscribe, QosInv
    <2>5. CASE WarnIfNewQos
      BY <2>5 DEF WarnIfNewQos, QosInv, IncompatibleReliability, IncompatibleDurability
    <2>6. CASE UNCHANGED qosVars
      BY <2>6 DEF qosVars, QosInv, IncompatibleReliability, IncompatibleDurability
    <2> QED
      BY <2>1, <2>2, <2>3, <2>4, <2>5, <2>6 DEF QosNext
  <1> QED
    BY <1>1, <1>2, PTL

(* A policy that as many publishers have as there are is one that all have. *)
LEMMA AllHave ==
  ASSUME NEW ends \in Seq(Endpoints), NEW policy, NEW value, Count(policy, value, ends) = Len(ends)
  PROVE  \A i \in DOMAIN ends : ends[i].qos[policy] = value
  <1> DEFINE Some == {i \in DOMAIN ends : ends[i].qos[policy] = value}
  <1>1. DOMAIN ends = 1 .. Len(ends) /\ Len(ends) \in Nat
    OBVIOUS
  <1>2. IsFiniteSet(1 .. Len(ends)) /\ Cardinality(1 .. Len(ends)) = Len(ends)
    <2>1. Len(ends) \in Int /\ 1 \in Int
      BY <1>1
    <2>2. Cardinality(1 .. Len(ends)) = IF 1 > Len(ends) THEN 0 ELSE Len(ends) - 1 + 1
      BY <2>1, FS_Interval
    <2>3. (IF 1 > Len(ends) THEN 0 ELSE Len(ends) - 1 + 1) = Len(ends)
      BY <1>1
    <2> QED
      BY <2>1, <2>2, <2>3, FS_Interval
  <1>3. Some \subseteq 1 .. Len(ends) /\ Cardinality(Some) = Len(ends)
    BY <1>1 DEF Count
  <1>4. Some = 1 .. Len(ends)
    BY <1>2, <1>3, FS_Subset
  <1> QED
    BY <1>1, <1>4

(* The request made of the offers of the moment fits each of them. *)
LEMMA AdaptedFits ==
  ASSUME NEW ends \in Seq(Endpoints), NEW i \in DOMAIN ends
  PROVE  Compatible(ends[i].qos, adapt_request_to_offers(ends))
  <1> DEFINE r == adapt_request_to_offers(ends)
  <1>1. ends # << >>
    OBVIOUS
  <1>2. /\ r.reliability = IF Count("reliability", "reliable", ends) = Len(ends) THEN "reliable" ELSE "best_effort"
        /\ r.durability = IF Count("durability", "transient_local", ends) = Len(ends) THEN "transient_local" ELSE "volatile"
        /\ r.deadline = "default" /\ r.liveliness = "system_default" /\ r.lease = "default"
    BY <1>1 DEF adapt_request_to_offers, Rosbag2QoS
  <1>3. r.reliability = "reliable" => ends[i].qos["reliability"] = "reliable"
    BY <1>2, AllHave
  <1>4. r.durability = "transient_local" => ends[i].qos["durability"] = "transient_local"
    BY <1>2, AllHave
  <1> QED
    BY <1>2, <1>3, <1>4 DEF Compatible, Rank, Liveliness

(* A topic about which warn_if_new_qos_for_subscribed_topic() has compared and not warned
   is recorded from each of its publishers, and a request that adapt_request_to_offers()
   made fits those it was made from. *)
THEOREM QuietTopics == QosInit /\ [][QosNext]_qosVars => []QuietTopicsAreRecorded
  <1>1. QosInv => QuietTopicsAreRecorded
    <2> SUFFICES ASSUME QosInv PROVE QuietTopicsAreRecorded
      OBVIOUS
    <2>1. ASSUME qos_checked, ~qos_warned, ~AsksForTimes, NEW i \in DOMAIN endpoints
          PROVE  Compatible(endpoints[i].qos, request)
      <3>1. ~IncompatibleReliability(endpoints[i].qos) /\ ~IncompatibleDurability(endpoints[i].qos)
        BY <2>1 DEF QosInv
      <3>2. endpoints[i].qos.reliability \in {"reliable", "best_effort"} /\ endpoints[i].qos.durability \in {"transient_local", "volatile"}
        BY QosAssumption DEF QosInv
      <3> QED
        BY <2>1, <3>1, <3>2 DEF Compatible, Rank, Liveliness, AsksForTimes, IncompatibleReliability, IncompatibleDurability
    <2>2. ASSUME qos_options.override = NoProfile, NEW i \in DOMAIN endpoints
          PROVE  Compatible(endpoints[i].qos, subscription_qos_for_topic(endpoints, FALSE))
      BY <2>2, AdaptedFits DEF QosInv, subscription_qos_for_topic
    <2> QED
      BY <2>1, <2>2 DEF QuietTopicsAreRecorded
  <1> QED
    BY <1>1, QosInvariance, PTL

(* A policy is read back as it was written, by name or by number. *)
LEMMA PoliciesComeBack ==
  ASSUME NEW version \in Nat, NEW policy \in DOMAIN Enum, NEW value \in Range(Enum[policy])
  PROVE  LET node == EncodePolicy(policy, value, version) IN
         /\ policy = "history" => (node.kind = "int" /\ node.int \in 0 .. 3 <=> version < 9)
         /\ DecodePolicy(policy, node, IF version < 9 THEN 8 ELSE 9) = value
  <1> DEFINE node == EncodePolicy(policy, value, version)
             p == Position(policy, value)
  <1>1. \E i \in DOMAIN Enum[policy] : Enum[policy][i] = value
    BY DEF Range
  <1>2. p \in DOMAIN Enum[policy] /\ Enum[policy][p] = value
    BY <1>1 DEF Position
  <1>3. DOMAIN Enum[policy] \subseteq 1 .. 5 /\ DOMAIN Enum["history"] = 1 .. 4
    BY DEF Enum
  <1>4. CASE version < 9
    <2>1. node.kind = "int" /\ node.int = p - 1
      BY <1>4 DEF EncodePolicy
    <2> HIDE DEF p
    <2> QED
      BY <1>2, <1>3, <1>4, <2>1 DEF DecodePolicy
  <1>5. CASE ~(version < 9)
    <2>1. node.kind = "str" /\ node.str = value
      BY <1>5 DEF EncodePolicy
    <2> QED
      BY <1>1, <1>5, <2>1 DEF DecodePolicy, NamedPolicy
  <1> QED
    BY <1>4, <1>5

(* So is a profile, but for the infinities of old middleware. *)
LEMMA ProfilesComeBack ==
  ASSUME NEW version \in Nat, NEW q \in Offers
  PROVE  LET d == DecodeQos(EncodeQos(q, version)) IN
         /\ DOMAIN d = {"history", "depth", "reliability", "durability", "deadline", "liveliness", "lease"}
         /\ d.reliability = q.reliability /\ d.durability = q.durability /\ d.liveliness = q.liveliness
         /\ d.deadline = Meant(q.deadline) /\ d.lease = Meant(q.lease)
  <1> DEFINE e == EncodeQos(q, version)
             v == IF version < 9 THEN 8 ELSE 9
  <1>1. /\ q.history \in Range(Enum["history"]) /\ q.reliability \in Range(Enum["reliability"])
        /\ q.durability \in Range(Enum["durability"]) /\ q.liveliness \in Range(Enum["liveliness"])
    BY QosAssumption DEF Offers, Enum, Range
  <1>2. DOMAIN Enum = {"history", "reliability", "durability", "liveliness"}
    BY DEF Enum
  <1>3. /\ e.history = EncodePolicy("history", q.history, version) /\ e.reliability = EncodePolicy("reliability", q.reliability, version)
        /\ e.durability = EncodePolicy("durability", q.durability, version) /\ e.liveliness = EncodePolicy("liveliness", q.liveliness, version)
        /\ e.deadline = q.deadline /\ e.lease = q.lease
    BY DEF EncodeQos
  <1>4. DetectedVersion(e) = v
    BY <1>1, <1>2, <1>3, PoliciesComeBack DEF DetectedVersion
  <1>5. /\ DecodePolicy("reliability", e.reliability, v) = q.reliability /\ DecodePolicy("durability", e.durability, v) = q.durability
        /\ DecodePolicy("liveliness", e.liveliness, v) = q.liveliness
    BY <1>1, <1>2, <1>3, PoliciesComeBack
  <1> HIDE DEF e, v
  <1> QED
    BY <1>3, <1>4, <1>5 DEF DecodeQos, DecodeTime, Meant, e

(* What the player offers of the recorded profiles, read back from either format and with
   Foxy's infinities, fits every request that all of the recorded publishers fitted, when
   they offered alike; and it never offers one of those infinities. *)
THEOREM PlayedAlike == QosInit /\ [][QosNext]_qosVars => []PlayerServesTheSame
  <1>1. QosInv => PlayerServesTheSame
    <2> SUFFICES ASSUME QosInv, NEW version \in Versions
        PROVE  LET offer == Played(topic_qos.offers, version) IN
               /\ {offer.deadline, offer.lease} \cap FoxyInfinite = {}
               /\ topic_qos.offers # << >> /\ Alike(topic_qos.offers) =>
                    \A r \in Requests : (\A i \in DOMAIN topic_qos.offers : Compatible(topic_qos.offers[i], r)) => Compatible(offer, r)
      BY DEF PlayerServesTheSame
    <2> DEFINE offers == topic_qos.offers
               told == to_rclcpp_qos_vector(serialize_rclcpp_qos_vector(offers, version))
               offer == Played(offers, version)
    <2>1. offers \in Seq(Offers) /\ version \in Nat
      BY QosAssumption DEF QosInv
    <2>2. DOMAIN told = DOMAIN offers /\ \A i \in DOMAIN offers : told[i] = DecodeQos(EncodeQos(offers[i], version))
      BY DEF to_rclcpp_qos_vector, serialize_rclcpp_qos_vector
    <2>3. \A i \in DOMAIN offers :
             /\ DOMAIN told[i] = {"history", "depth", "reliability", "durability", "deadline", "liveliness", "lease"}
             /\ told[i].reliability = offers[i].reliability /\ told[i].durability = offers[i].durability
             /\ told[i].liveliness = offers[i].liveliness
             /\ told[i].deadline = Meant(offers[i].deadline) /\ told[i].lease = Meant(offers[i].lease)
      BY <2>1, <2>2, ProfilesComeBack
    <2>4. offer = IF told # << >> /\ all_profiles_effectively_same(told) THEN default_history(told[1]) ELSE Rosbag2QoS
      BY DEF Played, publisher_qos_for_topic, adapt_offer_to_recorded_offers
    <2>5. \/ offer = Rosbag2QoS
          \/ /\ 1 \in DOMAIN offers
             /\ offer.reliability = offers[1].reliability /\ offer.durability = offers[1].durability
             /\ offer.liveliness = offers[1].liveliness
             /\ offer.deadline = Meant(offers[1].deadline) /\ offer.lease = Meant(offers[1].lease)
      <3>1. told = << >> \/ 1 \in DOMAIN offers
        BY <2>1, <2>2
      <3>2. CASE 1 \in DOMAIN offers /\ offer = default_history(told[1])
        BY <2>3, <3>2 DEF default_history
      <3> HIDE DEF told, offer
      <3> QED
        BY <2>4, <3>1, <3>2
    <2>6. {offer.deadline, offer.lease} \cap FoxyInfinite = {}
      <3> HIDE DEF offer
      <3> QED
        BY <2>5 DEF Rosbag2QoS, Meant, FoxyInfinite
    <2>7. ASSUME offers # << >>, Alike(offers), NEW r \in Requests, \A i \in DOMAIN offers : Compatible(offers[i], r)
          PROVE  Compatible(offer, r)
      <3>1. 1 \in DOMAIN offers /\ told # << >>
        BY <2>1, <2>2, <2>7
      <3>2. \A i \in DOMAIN offers : SameForMatching(told[1], told[i])
        <4> SUFFICES ASSUME NEW i \in DOMAIN offers PROVE SameForMatching(told[1], told[i])
          OBVIOUS
        <4>1. SameForMatching([offers[1] EXCEPT !.deadline = Meant(@), !.lease = Meant(@)],
                              [offers[i] EXCEPT !.deadline = Meant(@), !.lease = Meant(@)])
          BY <3>1, <2>7 DEF Alike
        <4>2. offers[1] \in Offers /\ offers[i] \in Offers
          BY <2>1, <3>1
        <4>3. \A q \in Offers : DOMAIN q = {"history", "depth", "reliability", "durability", "deadline", "liveliness", "lease"}
          BY QosAssumption DEF Offers
        <4> HIDE DEF told, offers
        <4> QED
          BY <2>3, <3>1, <4>1, <4>2, <4>3 DEF SameForMatching
      <3>3. offer = default_history(told[1])
        BY <2>2, <2>4, <3>1, <3>2 DEF all_profiles_effectively_same
      <3>4. /\ offer.reliability = offers[1].reliability /\ offer.durability = offers[1].durability
            /\ offer.liveliness = offers[1].liveliness
            /\ offer.deadline = Meant(offers[1].deadline) /\ offer.lease = Meant(offers[1].lease)
        BY <2>3, <3>1, <3>3 DEF default_history
      <3>5. Rank(offer.deadline) = Rank(offers[1].deadline) /\ Rank(offer.lease) = Rank(offers[1].lease)
        BY <3>4 DEF Rank, Meant, FoxyInfinite
      <3>6. Compatible(offers[1], r)
        BY <3>1, <2>7
      <3> HIDE DEF offer, offers, told
      <3> QED
        BY <3>4, <3>5, <3>6 DEF Compatible
    <2> QED
      BY <2>6, <2>7
  <1> QED
    BY <1>1, QosInvariance, PTL

-----------------------------------------------------------------------------
(* Selection of topics: for any bag and options.                            *)

(* What the name says of a topic whose name and type agree. *)
LEMMA ClassifiedNames ==
  ASSUME NEW t, Classified(t)
  PROVE  /\ McapKind(t) = Kind(t) /\ Kind(t) \in KindNames
         /\ SqlService(t) <=> Kind(t) = "service"
         /\ SqlAction(t) <=> Kind(t) = "action"
  BY DEF Classified, McapKind, Kind, SqlService, SqlAction, is_topic_belong_to_action, is_service_event_topic, KindNames

(* Where a name stands in the lists of which those of the actions were replaced. *)
LEMMA ListedOnce ==
  ASSUME NEW topics, \A x, u \in topics : x.name = u.name => x = u,
         NEW t \in topics, Classified(t),
         NEW lists, DOMAIN lists = KindNames, NEW names,
         \A k \in {"topic", "service"} : t.name \in lists[k] => Kind(t) = k
  PROVE  LET g == [lists EXCEPT !.action = action_name_to_action_interface_names(names, topics)]
         IN Listed(g, t) <=> t.name \in g[Kind(t)]
  <1> DEFINE actions == action_name_to_action_interface_names(names, topics)
             g == [lists EXCEPT !.action = actions]
  <1>1. t.name \in actions => Kind(t) = "action"
    <2> SUFFICES ASSUME t.name \in actions PROVE Kind(t) = "action"
      OBVIOUS
    <2>1. PICK u \in topics : u.action = "interface" /\ u.name = t.name
      BY DEF action_name_to_action_interface_names
    <2>2. t.action = "interface"
      BY <2>1
    <2> QED
      BY <2>2, ClassifiedNames DEF McapKind
  <1>2. Kind(t) \in KindNames
    BY DEF Kind, KindNames
  <1>3. g["action"] = actions /\ g["topic"] = lists["topic"] /\ g["service"] = lists["service"]
    BY DEF KindNames
  <1>4. \A k \in KindNames : t.name \in g[k] => Kind(t) = k
    BY <1>1, <1>3 DEF KindNames
  <1>5. (\E k \in KindNames : t.name \in g[k]) <=> t.name \in g[Kind(t)]
    BY <1>2, <1>4
  <1> QED
    BY <1>5 DEF Listed

(* What of the lists the filter takes over. *)
LEMMA FilterLists ==
  ASSUME NEW options, NEW topics, ListedByKind(options, topics),
         DOMAIN options.include = KindNames, DOMAIN options.exclude = KindNames,
         \A t, u \in topics : t.name = u.name => t = u,
         NEW t \in topics, Classified(t)
  PROVE  LET f == FilterOf(options, topics) IN
         /\ Listed(f.include, t) <=> t.name \in f.include[Kind(t)]
         /\ Listed(f.exclude, t) <=> t.name \in f.exclude[Kind(t)]
         /\ f.regex = options.regex /\ f.regex_to_exclude = options.regex_to_exclude
  <1> DEFINE f == FilterOf(options, topics)
             Names(lists) == action_name_to_action_interface_names(lists.action, topics)
  <1>1. /\ f.include = [options.include EXCEPT !.action = Names(options.include)]
        /\ f.exclude = [options.exclude EXCEPT !.action = Names(options.exclude)]
        /\ f.regex = options.regex /\ f.regex_to_exclude = options.regex_to_exclude
    BY DEF FilterOf
  <1> HIDE DEF f
  <1>2. \A k \in {"topic", "service"} : t.name \in options.include[k] => Kind(t) = k
    BY DEF ListedByKind
  <1>3. \A k \in {"topic", "service"} : t.name \in options.exclude[k] => Kind(t) = k
    BY DEF ListedByKind
  <1>4. LET g == [options.include EXCEPT !.action = Names(options.include)] IN Listed(g, t) <=> t.name \in g[Kind(t)]
    BY <1>2, ListedOnce
  <1>5. LET g == [options.exclude EXCEPT !.action = Names(options.exclude)] IN Listed(g, t) <=> t.name \in g[Kind(t)]
    BY <1>3, ListedOnce
  <1> QED
    BY <1>1, <1>4, <1>5 DEF f

(* The three places agree for any such options and topics. *)
LEMMA SelectionsAgreeAlways ==
  ASSUME NEW options, NEW topics, ListedByKind(options, topics),
         DOMAIN options.include = KindNames, DOMAIN options.exclude = KindNames,
         \A t, u \in topics : t.name = u.name => t = u
  PROVE  SelectionsAgree(options, topics)
  <1> DEFINE f == FilterOf(options, topics)
  <1> SUFFICES ASSUME NEW t \in topics, Classified(t)
      PROVE  /\ PlainSqlite(f) => (SqliteSelects(f, t) <=> McapSelects(f, t))
             /\ McapSelects(f, t) => allow_topic(f, t)
             /\ (McapSelects(f, t) /\ Kind(t) # "action") => Sender(options, f, t, topics) # "none"
    BY DEF SelectionsAgree
  <1>1. /\ Listed(f.include, t) <=> t.name \in f.include[Kind(t)]
        /\ Listed(f.exclude, t) <=> t.name \in f.exclude[Kind(t)]
    BY FilterLists
  <1>2. /\ McapKind(t) = Kind(t) /\ Kind(t) \in {"topic", "service", "action"}
        /\ SqlService(t) <=> Kind(t) = "service"
        /\ SqlAction(t) <=> Kind(t) = "action"
    BY ClassifiedNames DEF KindNames
  <1> HIDE DEF f
  <1>3. ASSUME PlainSqlite(f) PROVE SqliteSelects(f, t) <=> McapSelects(f, t)
    <2>1. SqliteExcludes(f, t) <=> McapExcludes(f, t)
      BY <1>1, <1>2 DEF SqliteExcludes, McapExcludes
    <2>2. SqliteIncludes(f, t) <=> McapIncludes(f, t)
      <3>1. CASE f.regex.given
        <4>1. SqliteIncludes(f, t) <=> Listed(f.include, t) \/ Matches(f.regex, t)
          BY <3>1 DEF SqliteIncludes
        <4>2. McapIncludes(f, t) <=> t.name \in f.include[Kind(t)] \/ Matches(f.regex, t)
          BY <1>2, <3>1 DEF McapIncludes
        <4> QED
          BY <1>1, <4>1, <4>2
      <3>2. CASE ~f.regex.given
        <4>1. ~(Has(f, "service") /\ Has(f, "topic") /\ ~Has(f, "action"))
          BY <1>3, <3>2 DEF PlainSqlite
        <4>2. McapIncludes(f, t) <=> ~Has(f, Kind(t)) \/ t.name \in f.include[Kind(t)]
          BY <1>2, <3>2 DEF McapIncludes, Has, Matches
        <4> QED
          BY <1>1, <1>2, <3>2, <4>1, <4>2 DEF SqliteIncludes, Has
      <3> QED
        BY <3>1, <3>2
    <2> QED
      BY <2>1, <2>2 DEF SqliteSelects, McapSelects
  <1>4. McapSelects(f, t) => allow_topic(f, t)
    <2>1. PlayerExcludes(f, t) => McapExcludes(f, t)
      BY <1>2 DEF PlayerExcludes, McapExcludes
    <2>2. McapIncludes(f, t) => PlayerIncludes(f, t)
      BY <1>2 DEF McapIncludes, PlayerIncludes, Has
    <2> QED
      BY <2>1, <2>2 DEF McapSelects, allow_topic
  <1>5. ASSUME McapSelects(f, t), Kind(t) # "action" PROVE Sender(options, f, t, topics) # "none"
    BY <1>4, <1>5 DEF Sender
  <1> QED
    BY <1>3, <1>4, <1>5

(* Whatever the player is asked to play of whatever bag, both storages give out  *)
(* the same topics, all of which it sends.                                     *)
THEOREM SelectionSafety == SelectionInit /\ [][UNCHANGED selection]_selection => []PlayedTopicsAgree
  <1>1. ASSUME selection \in Selections PROVE PlayedTopicsAgree
    BY <1>1, SelectionAssumption, SelectionsAgreeAlways DEF PlayedTopicsAgree
  <1>2. ASSUME selection \in Selections, [UNCHANGED selection]_selection PROVE (selection \in Selections)'
    BY <1>2
  <1> QED
    BY <1>1, <1>2, PTL DEF SelectionInit
=============================================================================
