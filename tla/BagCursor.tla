----------------------------- MODULE BagCursor ------------------------------
(***************************************************************************)
(* What a reader of a bag promises, whatever the storage: a read head, a file *)
(* and a place before or after one of its messages, that only a read, a seek  *)
(* or the end of a file moves. Nothing wanted is skipped and nothing read     *)
(* twice between two seeks, but for what SeekEnds says of the time sought.     *)
(***************************************************************************)
EXTENDS Integers, Sequences, FiniteSets, FiniteSetsExt

VARIABLES
    files,     \* of the bag: the sequences of their messages
    file,      \* the one that is open
    head,      \* <<stamp, index>>: the messages before it were read
    from,      \* the time of the last seek
    reverse,   \* the direction
    filter,    \* the topics that are wanted
    seeking,   \* a seek has begun and not ended
    last       \* the message read last: <<file, index, turn>>, turn tells each read from the one before

vars == <<files, file, head, from, reverse, filter, seeking, last>>

Place(f, i) == <<files[f][i].stamp, i>>
Precedes(p, q) == p[1] < q[1] \/ (p[1] = q[1] /\ p[2] < q[2])
Beyond(p, q)   == IF reverse THEN Precedes(p, q) ELSE Precedes(q, p)
First(f)       == IF reverse THEN Len(files[f]) + 1 ELSE 0

(* What is wanted of file f beyond a place of it.                           *)
Ahead(f, place) == {i \in DOMAIN files[f] : files[f][i].topic \in filter /\ Beyond(Place(f, i), place)}
Closest(f, ids) == CHOOSE i \in ids : \A j \in ids \ {i} : Beyond(Place(f, j), Place(f, i))

(* The file to read from: the open one while it has something, then the next *)
(* one that has; a file is entered at the time of the last seek.             *)
Coming      == IF reverse THEN 1 .. file - 1 ELSE file + 1 .. Len(files)
Nearest(S)  == IF reverse THEN Max(S) ELSE Min(S)
Farthest(S) == IF reverse THEN Min(S) ELSE Max(S)
EntryOf(f)  == IF f = file THEN head ELSE <<from, First(f)>>
Target ==
    LET good == {f \in Coming : Ahead(f, EntryOf(f)) # {}}
        here == Ahead(file, head) # {} \/ Coming = {}
    IN CASE here               -> file
         [] ~here /\ good # {} -> Nearest(good)
         [] OTHER              -> Farthest(Coming)

Init ==
    /\ file = 1 /\ head = <<0, 0>> /\ reverse = FALSE /\ last = <<0, 0, 0>>
    /\ seeking \/ from = 0

HasNext ==
    /\ ~seeking /\ file' = Target /\ head' = EntryOf(Target)
    /\ UNCHANGED <<files, from, reverse, filter, seeking, last>>
ReadNext ==
    /\ ~seeking
    /\ LET f == Target
           i == Closest(f, Ahead(f, EntryOf(f)))
       IN /\ Ahead(f, EntryOf(f)) # {}
          /\ file' = f /\ head' = Place(f, i) /\ last' = <<f, i, 1 - last[3]>>
    /\ UNCHANGED <<files, from, reverse, filter, seeking>>
SetFilter == ~seeking /\ UNCHANGED <<files, file, head, from, reverse, seeking, last>>

(* The time of the head stays; where among the messages of that time the     *)
(* head is differs between the storages.                                     *)
SetReadOrder ==
    /\ ~seeking /\ head'[1] = head[1]
    /\ UNCHANGED <<files, file, from, filter, seeking, last>>

(* A seek may open other files, and ends where all that is wanted beyond its  *)
(* time is still ahead. What has exactly the time sought may lie behind, in    *)
(* another file: a seek stays in the open one if its span has that time.      *)
SeekBegins == ~seeking /\ seeking' /\ UNCHANGED <<files, file, head, reverse, filter, last>>
SeekMoves  == seeking /\ seeking' /\ UNCHANGED <<files, from, reverse, filter, last>>
SeekEnds ==
    /\ seeking /\ ~seeking' /\ head' = <<from, First(file)>>
    /\ \A f \in DOMAIN files \ (Coming \cup {file}) :
         \A i \in Ahead(f, <<from, First(f)>>) : files[f][i].stamp = from
    /\ UNCHANGED <<files, file, from, reverse, filter, last>>

Next ==
    \/ HasNext \/ ReadNext \/ SetFilter \/ SetReadOrder
    \/ SeekBegins \/ SeekMoves \/ SeekEnds

Spec == Init /\ [][Next]_vars
=============================================================================
