-------------------------- MODULE MCStorageWriter ---------------------------
(***************************************************************************)
(* StorageWriter for TLC: both plugins, both profiles, journals of one's own. *)
(***************************************************************************)
EXTENDS StorageWriter

MCOptions == [kind : {"sqlite3"}, preset : {"none", "resilient"}, config : {"none", "DELETE", "MEMORY"}]
               \cup {[kind |-> "mcap", preset |-> "none", config |-> "none"]}
=============================================================================
