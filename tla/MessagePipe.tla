----------------------------- MODULE MessagePipe -----------------------------
(***************************************************************************)
(* What the message cache and its consumer promise together to the writer, *)
(* whatever threads and buffers they are made of:                           *)
(*   - the accepted messages are written in the order they were accepted,   *)
(*     each once, nothing else is;                                          *)
(*   - a message is refused only while others are waiting to be written;    *)
(*   - when stopping returns, everything accepted before it was called has  *)
(*     been written, if there was a consumer to stop.                       *)
(***************************************************************************)
EXTENDS Naturals, Sequences

CONSTANT Message

VARIABLES
    accepted,   \* the messages push() answered TRUE to, in order
    written,    \* the messages handed to the storage, in order
    refused,    \* how many messages push() answered FALSE to
    promised,   \* how many had been accepted when stop() was last called
                \* on a running consumer
    running,    \* there is a thread to write them
    stopping    \* stop() has been called and has not returned

vars == <<accepted, written, refused, promised, running, stopping>>

Init ==
    /\ accepted = <<>>
    /\ written = <<>>
    /\ refused = 0
    /\ promised = 0
    /\ running = TRUE
    /\ stopping = FALSE

Accept(m) ==
    /\ accepted' = Append(accepted, m)
    /\ UNCHANGED <<written, refused, promised, running, stopping>>

Refuse ==
    /\ Len(written) < Len(accepted)
    /\ refused' = refused + 1
    /\ UNCHANGED <<accepted, written, promised, running, stopping>>

Deliver ==
    /\ running
    /\ \E n \in Len(written) + 1 .. Len(accepted) : written' = SubSeq(accepted, 1, n)
    /\ UNCHANGED <<accepted, refused, promised, running, stopping>>

CallStop ==
    /\ ~stopping
    /\ stopping' = TRUE
    /\ promised' = IF running THEN Len(accepted) ELSE promised
    /\ UNCHANGED <<accepted, written, refused, running>>

ReturnStop ==
    /\ stopping
    /\ promised <= Len(written)
    /\ stopping' = FALSE
    /\ running' = FALSE
    /\ UNCHANGED <<accepted, written, refused, promised>>

Start ==
    /\ ~stopping
    /\ running' = TRUE
    /\ UNCHANGED <<accepted, written, refused, promised, stopping>>

Next ==
    \/ \E m \in Message : Accept(m)
    \/ Refuse
    \/ Deliver
    \/ CallStop
    \/ ReturnStop
    \/ Start

Spec == Init /\ [][Next]_vars
=============================================================================
