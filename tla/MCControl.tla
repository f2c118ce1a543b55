----------------------------- MODULE MCControl ------------------------------
(***************************************************************************)
(* PlayerClock and PlayerClients for TLC. The playback thread is in a call of  *)
(* the one or of the other, and they share no state: a behaviour is about one. *)
(***************************************************************************)
EXTENDS PlayerClock, PlayerClients

VARIABLE about

Request(kind, goal) ==
    {[kind |-> kind, event |-> e, request |-> r, goal |-> goal] :
        e \in {"request_sent", "request_received", "response_sent"}, r \in BOOLEAN}
MCRecorded == UNION {Request(k, 1) : k \in {"goal", "cancel", "result", "service"}}
MCRates    == {<<-1, 1>>, <<1, 1>>, <<3, 2>>, <<1, 2>>}

Init == about \in {"clock", "clients"} /\ ClockInit /\ ClientsInit
Next ==
    /\ UNCHANGED about
    /\ \/ about = "clock" /\ ClockNext /\ UNCHANGED clientVars
       \/ about = "clients" /\ ClientsNext /\ UNCHANGED clockVars
vars == <<about, clockVars, clientVars>>
Spec == Init /\ [][Next]_vars
=============================================================================
