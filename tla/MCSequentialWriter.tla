------------------------- MODULE MCSequentialWriter -------------------------
(***************************************************************************)
(* SequentialWriter for TLC: topic 1 is latched, topic 2 is not. A writer of  *)
(* each mode, then one that is opened twice.                                  *)
(***************************************************************************)
EXTENDS SequentialWriterProps

Limit(w, f, o, e, r) ==
    [writes |-> w, file |-> f, opens |-> o, faults |-> e, failed |-> r]
Writer(mode, size, stamps, limit) ==
    [mode |-> mode, max_cache_size |-> size, max_bagfile_size |-> 0,
     max_bagfile_duration |-> 0, max_bag_files |-> 2, stamps |-> stamps,
     conversions |-> {FALSE}, cleanup_only |-> TRUE, limit |-> limit]

Cache    == Writer("cache", 2, {1, 2}, Limit(3, 3, 1, 1, 0))
Snapshot == Writer("snapshot", 2, {1, 2}, Limit(3, 2, 1, 0, 0))
Direct   == [Writer("direct", 0, {1, 2, 3}, Limit(4, 0, 1, 1, 0)) EXCEPT
                !.max_bagfile_size = 2, !.max_bagfile_duration = 1]
Reopened == [Writer("cache", 1, {1}, Limit(2, 1, 2, 0, 1)) EXCEPT
                !.max_bagfile_size = 2, !.max_bag_files = 0, !.conversions = {TRUE},
                !.cleanup_only = FALSE]
MCConfigurations == {Cache, Snapshot, Direct, Reopened}

=============================================================================
