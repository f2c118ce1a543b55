------------------------ MODULE MCCompressionWriter -------------------------
(***************************************************************************)
(* CompressionWriter for TLC: two threads, both modes, queues with and       *)
(* without a limit, retention that deletes a file when it is closed and one   *)
(* that deletes it while it waits or a thread is at work on it.               *)
(***************************************************************************)
EXTENDS CompressionWriter

Mode(mode, threads, queue_size, max_bag_files) ==
    [mode |-> mode, threads |-> threads, queue_size |-> queue_size, max_bag_files |-> max_bag_files]
MCOptions ==
    {Mode("file", 1, 0, 0), Mode("file", 2, 0, 0), Mode("file", 2, 0, 1), Mode("file", 2, 0, 2),
     Mode("message", 1, 0, 0), Mode("message", 2, 0, 0), Mode("message", 3, 0, 2), Mode("message", 1, 1, 1)}
=============================================================================
