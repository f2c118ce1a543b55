------------------------- MODULE CompressionWriter --------------------------
(***************************************************************************)
(* SequentialCompressionWriter: a SequentialWriter whose files, or whose       *)
(* messages, are compressed by a pool of threads. The caller and the threads   *)
(* share two queues under compressor_queue_mutex_, the writer of the base       *)
(* class and the list of files under storage_mutex_; what a thread does while   *)
(* it holds one of them is one step. The base class is a file that is split     *)
(* when it is full (SequentialWriter models it).                               *)
(***************************************************************************)
EXTENDS Integers, Sequences, SequencesExt, FiniteSets, FiniteSetsExt

CONSTANTS
    Options,      \* [mode, threads, queue_size, max_bag_files]
    FileSize,     \* messages after which the base class splits the bag
    MaxMessage    \* bound: messages written

ASSUME CompressionAssumption ==
    /\ FileSize \in Nat \ {0} /\ MaxMessage \in Nat
    /\ \A o \in Options :
          /\ o.mode \in {"file", "message"} /\ o.threads \in Nat \ {0}
          /\ o.queue_size \in Nat /\ o.max_bag_files \in Nat

VARIABLES
    options,
    compressor_message_queue, compressor_file_queue, compression_is_running,
    thread,      \* of each compressor thread: what it does, and with which item
    caller,      \* the thread that calls the writer: "idle", "waiting" in write(), in close(), ...
    message,     \* the message of a write() that waits
    written,     \* bound: the messages given to write() are 1 .. written
    files,       \* metadata_.files: the numbers of the files
    paths,       \* metadata_.relative_file_paths: their names, <<number, compressed>>
    disk,        \* the files of the bag directory, by name
    content,     \* the messages stored in each file
    lost,        \* the messages reported as lost
    announced,   \* the WRITE_SPLIT callbacks: <<closed, opened>>
    crashed      \* an exception has left compression_thread_fn(): the process is over

queues == <<compressor_message_queue, compressor_file_queue, compression_is_running>>
store  == <<files, paths, disk, content>>
vars   == <<options, queues, thread, caller, message, written, store, lost, announced, crashed>>

Threads   == 1 .. options.threads
ByFile    == options.mode = "file"
Waiting   == [at |-> "wait", item |-> 0]
Plain(n)  == <<n, FALSE>>
Zstd(n)   == <<n, TRUE>>
NoFile    == <<0, FALSE>>          \* the name "" of a callback
Current   == Last(files)

Init ==
    /\ options \in Options
    /\ compressor_message_queue = << >> /\ compressor_file_queue = << >>
    /\ compression_is_running = TRUE
    /\ thread = [t \in 1 .. options.threads |-> Waiting]
    /\ caller = "idle" /\ message = 0 /\ written = 0
    /\ files = <<1>> /\ paths = <<Plain(1)>> /\ disk = {Plain(1)} /\ content = <<{}>>
    /\ lost = {} /\ announced = << >> /\ crashed = FALSE

(* delete_oldest_files_if_needed(): by the names in metadata_.files, which    *)
(* are those before compression.                                             *)
Surplus(fs)  == options.max_bag_files > 0 /\ Len(fs) > options.max_bag_files
Dropped(fs)  == IF Surplus(fs) THEN Len(fs) - options.max_bag_files ELSE 0
Deleted(fs)  == {Plain(fs[i]) : i \in 1 .. Dropped(fs)}
Kept(fs, s)  == SubSeq(s, Dropped(fs) + 1, Len(s))

(* split_bagfile(): the next file is opened, old ones are deleted, and the     *)
(* closed one is queued for compression, or announced at once.               *)
Split ==
    LET new == Len(content) + 1
        fs  == Append(files, new)
    IN /\ files' = Kept(fs, fs)
       /\ paths' = Kept(fs, Append(paths, Plain(new)))
       /\ disk' = (disk \cup {Plain(new)}) \ Deleted(fs)
       /\ IF ByFile
          THEN compressor_file_queue' = Append(compressor_file_queue, Current) /\ UNCHANGED announced
          ELSE announced' = Append(announced, <<Plain(Current), Plain(new)>>) /\ UNCHANGED compressor_file_queue

(* SequentialWriter::write() under storage_mutex_.                          *)
BaseWrite(m) ==
    LET full == Cardinality(content[Current]) >= FileSize IN
    /\ content' = IF full THEN Append(content, {m}) ELSE [content EXCEPT ![Current] = @ \cup {m}]
    /\ IF full THEN Split ELSE UNCHANGED <<files, paths, disk, compressor_file_queue, announced>>

(* write() with compression of files.                                       *)
WriteToFile ==
    /\ caller = "idle" /\ ByFile /\ written < MaxMessage
    /\ written' = written + 1 /\ BaseWrite(written + 1)
    /\ UNCHANGED <<options, compressor_message_queue, compression_is_running, thread, caller, message, lost>>

(* write() with compression of messages. A full queue of limited size drops    *)
(* its first messages, and the parameter takes the value of the last of them.  *)
Full(queue) == options.queue_size > 0 /\ Len(queue) > options.queue_size
MustWait    == options.queue_size = 0 /\ Len(compressor_message_queue) > options.threads
WriteToQueue ==
    LET queue == compressor_message_queue
        drops == IF Full(queue) THEN Len(queue) - options.queue_size ELSE 0
        m     == IF drops > 0 THEN queue[drops] ELSE written + 1
    IN /\ caller = "idle" /\ ~ByFile /\ written < MaxMessage
       /\ written' = written + 1
       /\ lost' = lost \cup {queue[i] : i \in 1 .. drops}
       /\ IF MustWait
          THEN /\ caller' = "waiting" /\ message' = m /\ UNCHANGED compressor_message_queue
          ELSE /\ compressor_message_queue' = Append(SubSeq(queue, drops + 1, Len(queue)), m)
               /\ UNCHANGED <<caller, message>>
       /\ UNCHANGED <<options, compressor_file_queue, compression_is_running, thread, store, announced>>
WriteGoesOn ==
    /\ caller = "waiting" /\ ~MustWait
    /\ compressor_message_queue' = Append(compressor_message_queue, message)
    /\ caller' = "idle" /\ message' = 0
    /\ UNCHANGED <<options, compressor_file_queue, compression_is_running, thread, written, store, lost, announced>>

-----------------------------------------------------------------------------
Goes(t, at, item) == thread' = [thread EXCEPT ![t] = [at |-> at, item |-> item]]

(* compression_thread_fn(): a message before a file, and an end only when both *)
(* queues are empty.                                                         *)
TakeMessage(t) ==
    /\ thread[t] = Waiting /\ compressor_message_queue # << >>
    /\ Goes(t, "message", Head(compressor_message_queue))
    /\ compressor_message_queue' = Tail(compressor_message_queue)
    /\ UNCHANGED <<options, compressor_file_queue, compression_is_running, caller, message, written, store, lost, announced>>
TakeFile(t) ==
    /\ thread[t] = Waiting /\ compressor_message_queue = << >> /\ compressor_file_queue # << >>
    /\ Goes(t, "compress", Head(compressor_file_queue))
    /\ compressor_file_queue' = Tail(compressor_file_queue)
    /\ UNCHANGED <<options, compressor_message_queue, compression_is_running, caller, message, written, store, lost, announced>>

Empty == compressor_message_queue = << >> /\ compressor_file_queue = << >>

\* Deviation: a thread that is told to stop leaves what is queued.
ThreadEndsEarly(t) ==
    /\ thread[t] = Waiting /\ ~compression_is_running
    /\ Goes(t, "ended", 0)
    /\ UNCHANGED <<options, queues, caller, message, written, store, lost, announced>>

\* Deviation: a thread ends when it has nothing to do.
ThreadEndsIdle(t) ==
    /\ thread[t] = Waiting /\ Empty
    /\ Goes(t, "ended", 0)
    /\ UNCHANGED <<options, queues, caller, message, written, store, lost, announced>>

ThreadEnds(t) ==
    /\ thread[t] = Waiting /\ Empty /\ ~compression_is_running
    /\ Goes(t, "ended", 0)
    /\ UNCHANGED <<options, queues, caller, message, written, store, lost, announced>>

(* compress_message(), then the base class writes the message.              *)
WriteCompressed(t) ==
    /\ thread[t].at = "message" /\ Goes(t, "wait", 0)
    /\ BaseWrite(thread[t].item)
    /\ UNCHANGED <<options, compressor_message_queue, compression_is_running, caller, message, written, lost>>

(* compress_file(): a file that is gone is left, any other is compressed into     *)
(* another, its name in the list replaced, the file removed; each is a step.      *)
CompressFile(t) ==
    /\ thread[t].at = "compress"
    /\ LET n == thread[t].item IN Goes(t, IF Plain(n) \in disk THEN "open" ELSE "announce", n)
    /\ UNCHANGED <<options, queues, caller, message, written, store, lost, announced>>
CompressUri(t) ==
    /\ thread[t].at = "open" /\ Plain(thread[t].item) \in disk
    /\ Goes(t, "rename", thread[t].item)
    /\ disk' = disk \cup {Zstd(thread[t].item)}
    /\ UNCHANGED <<options, queues, caller, message, written, files, paths, content, lost, announced>>

(* A split of the base class has deleted the file since: its size cannot be read, *)
(* nor it compressed, and nothing catches what is thrown.                        *)
CompressorThrows(t) ==
    /\ thread[t].at = "open" /\ Plain(thread[t].item) \notin disk
    /\ crashed' = TRUE
    /\ UNCHANGED <<options, queues, thread, caller, message, written, store, lost, announced>>

Renamed(n)  == [i \in DOMAIN paths |-> IF paths[i] = Plain(n) THEN Zstd(n) ELSE paths[i]]
RenameFile(t) ==
    /\ thread[t].at = "rename" /\ Goes(t, "remove", thread[t].item)
    /\ paths' = Renamed(thread[t].item)
    /\ UNCHANGED <<options, queues, caller, message, written, files, disk, content, lost, announced>>
RemoveFile(t) ==
    /\ thread[t].at = "remove" /\ Goes(t, "announce", thread[t].item)
    /\ disk' = disk \ {Plain(thread[t].item)}
    /\ UNCHANGED <<options, queues, caller, message, written, files, paths, content, lost, announced>>

\* Deviation: the file opened is taken to be the last of the list.
AnnounceLast(t) ==
    /\ thread[t].at = "announce" /\ Goes(t, "wait", 0)
    /\ announced' = Append(announced, <<Zstd(thread[t].item), Last(paths)>>)
    /\ UNCHANGED <<options, queues, caller, message, written, store, lost>>

(* The callbacks of the split, with the name after the closed file in the list. *)
AnnounceSplit(t) ==
    LET closed == Zstd(thread[t].item)
        at     == {i \in DOMAIN paths : paths[i] = closed /\ i < Len(paths)}
    IN /\ thread[t].at = "announce" /\ Goes(t, "wait", 0)
       /\ announced' = Append(announced, <<closed, IF at = {} THEN NoFile ELSE paths[Min(at) + 1]>>)
       /\ UNCHANGED <<options, queues, caller, message, written, store, lost>>

-----------------------------------------------------------------------------
(* close(): the threads are told to stop and joined, the last file is         *)
(* compressed by the caller, which may fail, and the base class closes.       *)
CloseBegins ==
    /\ caller = "idle" /\ caller' = "joining" /\ compression_is_running' = FALSE
    /\ UNCHANGED <<options, compressor_message_queue, compressor_file_queue, thread, message, written, store, lost, announced>>
Joined ==
    /\ caller = "joining" /\ \A t \in Threads : thread[t].at = "ended"
    /\ caller' = IF ByFile THEN "compress" ELSE "base"
    /\ UNCHANGED <<options, queues, thread, message, written, store, lost, announced>>
CompressLast ==
    /\ caller = "compress" /\ caller' = "base"
    /\ \/ disk' = (disk \cup {Zstd(Current)}) \ {Plain(Current)} /\ paths' = Renamed(Current)
       \/ UNCHANGED <<disk, paths>>   \* "Could not compress the last bag file."
    /\ UNCHANGED <<options, queues, thread, message, written, files, content, lost, announced>>
BaseClose ==
    /\ caller = "base" /\ caller' = "closed"
    /\ announced' = Append(announced, <<Last(paths), NoFile>>)
    /\ UNCHANGED <<options, queues, thread, message, written, store, lost>>

GoesOn ==
    \/ \E t \in Threads : TakeMessage(t) \/ TakeFile(t) \/ ThreadEnds(t) \/ WriteCompressed(t)
                          \/ CompressFile(t) \/ CompressUri(t) \/ RenameFile(t) \/ RemoveFile(t)
                          \/ AnnounceSplit(t)
    \/ WriteGoesOn \/ Joined \/ CompressLast \/ BaseClose
Work ==
    \/ ~crashed /\ GoesOn /\ UNCHANGED crashed
    \/ ~crashed /\ \E t \in Threads : CompressorThrows(t)
Call == ~crashed /\ (WriteToFile \/ WriteToQueue \/ CloseBegins) /\ UNCHANGED crashed
Next == Call \/ Work

(* The threads of the pool run, and a call that has begun goes on.          *)
Spec == Init /\ [][Next]_vars /\ WF_vars(Work)

-----------------------------------------------------------------------------
(* A closed bag is complete: every message given to write() is in a file, once, *)
(* the files that are listed are in the directory and all but the last, whose   *)
(* compression may fail, are compressed; no other files are there, unless the   *)
(* bag keeps only so many: delete_oldest_files_if_needed() does not know the     *)
(* names of compressed ones. The queue without a limit is meant: a limited one   *)
(* drops and replaces messages.                                                 *)
NamesAreExact == ~ByFile \/ options.max_bag_files = 0
ClosedBagIsComplete ==
    (caller = "closed" /\ options.queue_size = 0) =>
      /\ UNION Range(content) = 1 .. written
      /\ \A i, j \in DOMAIN content : i # j => content[i] \cap content[j] = {}
      /\ Range(paths) \subseteq disk /\ (NamesAreExact => disk = Range(paths))
      /\ ByFile => \A i \in 1 .. Len(paths) - 1 : paths[i][2]

(* Every file is announced as closed once, under the name it has in the        *)
(* directory, with the file opened next; the callbacks of two threads may come  *)
(* in either order.                                                            *)
SplitsAnnouncedOnce ==
    /\ \A i, j \in DOMAIN announced : i # j => announced[i][1][1] # announced[j][1][1]
    /\ \A i \in DOMAIN announced :
         /\ options.max_bag_files = 0 => announced[i][1] \in disk
         /\ announced[i][2] # NoFile => announced[i][2][1] = announced[i][1][1] + 1

(* close() and a write() that waits for the queue return, unless the process is  *)
(* over; only the deletion of old files that are still to be compressed ends it.   *)
DeletionEndedIt == crashed /\ ByFile /\ options.max_bag_files > 0
CallsReturn == (caller # "idle") ~> (caller \in {"idle", "closed"} \/ DeletionEndedIt)

-----------------------------------------------------------------------------
Name == Nat \X BOOLEAN

(* Every variable has its type.                                              *)
TypeOK ==
    /\ options \in Options
    /\ compressor_message_queue \in Seq(Nat) /\ compressor_file_queue \in Seq(Nat)
    /\ compression_is_running \in BOOLEAN
    /\ thread \in [Threads -> [at : {"wait", "message", "compress", "open", "rename", "remove",
                                    "announce", "ended"},
                              item : Nat]]
    /\ caller \in {"idle", "waiting", "joining", "compress", "base", "closed"}
    /\ message \in Nat /\ written \in Nat
    /\ files \in Seq(Nat) /\ paths \in Seq(Name) /\ disk \in SUBSET Name
    /\ content \in Seq(SUBSET Nat) /\ lost \in SUBSET Nat
    /\ announced \in Seq(Name \X Name)

(* The files listed are the newest ones.                                     *)
FilesAreListed ==
    /\ Len(files) \in 1 .. Len(content) /\ Len(paths) = Len(files)
    /\ options.max_bag_files = 0 => Len(files) = Len(content)
    /\ \A i \in DOMAIN files :
          files[i] = Len(content) - Len(files) + i /\ paths[i][1] = files[i]

(* The threads end with empty queues, and the caller goes on after them.     *)
Joins ==
    /\ compression_is_running <=> caller \in {"idle", "waiting"}
    /\ (\E t \in Threads : thread[t].at = "ended") => Empty /\ ~compression_is_running
    /\ caller \in {"compress", "base", "closed"} => \A t \in Threads : thread[t].at = "ended"
    /\ caller = "compress" => ByFile

HasMessage(t) == thread[t].at = "message"
HasFile(t)    == thread[t].at \in {"compress", "open", "rename", "remove", "announce"}

(* Only one of the queues is used.                                           *)
OneMode ==
    /\ ByFile => compressor_message_queue = << >> /\ caller # "waiting"
                  /\ \A t \in Threads : ~HasMessage(t)
    /\ ~ByFile => compressor_file_queue = << >> /\ \A t \in Threads : ~HasFile(t)

(* Each of these items is in one place: in a queue, done, or the item of one   *)
(* of the threads.                                                           *)
EachOnce(items, queued, done, users, at) ==
    /\ items = queued \cup done \cup {at[t].item : t \in users}
    /\ queued \cap done = {}
    /\ \A t \in users : at[t].item \notin queued \cup done
    /\ \A t, u \in users : at[t].item = at[u].item => t = u

(* A file that was closed is queued, with a thread or announced.             *)
Closed      == 1 .. (IF caller = "closed" THEN Len(content) ELSE Len(content) - 1)
FileThreads == {t \in Threads : HasFile(t)}
Reports     == [i \in DOMAIN announced |-> announced[i][1][1]]
ClosedFiles ==
    /\ EachOnce(Closed, Range(compressor_file_queue), Range(Reports), FileThreads, thread)
    /\ IsInjective(compressor_file_queue) /\ IsInjective(Reports)

(* The list says which files are compressed, and the directory has them.      *)
Compressed ==
    {thread[t].item : t \in {u \in Threads : thread[u].at \in {"remove", "announce"}}}
      \cup (IF ByFile THEN Range(Reports) ELSE {})
NameOf(n) == IF n \in Compressed THEN Zstd(n) ELSE Plain(n)
HeldBack ==   \* the files of the directory that are not listed, or not any more
    {Zstd(thread[t].item) : t \in {u \in Threads : thread[u].at = "rename"}}
      \cup {Plain(thread[t].item) : t \in {u \in Threads : thread[u].at = "remove"}}

ListedIsThere   == Range(paths) \subseteq disk
CompressedAhead == \A t \in Threads : thread[t].at = "rename" => Zstd(thread[t].item) \in disk
NoOtherFiles    == NamesAreExact => disk = Range(paths) \cup HeldBack
ListedByName    ==
    \A i \in DOMAIN paths :
        i < Len(paths) \/ caller \notin {"base", "closed"} => paths[i] = NameOf(paths[i][1])
AnnouncedByName ==
    \A i \in DOMAIN announced :
        LET name == announced[i][1] IN
        name = IF caller = "closed" /\ name[1] = Len(content) THEN Last(paths)
               ELSE IF ByFile THEN Zstd(name[1]) ELSE Plain(name[1])
Names == ListedIsThere /\ CompressedAhead /\ NoOtherFiles /\ ListedByName /\ AnnouncedByName

(* A message given to write() is queued, with a thread, with the call or in a   *)
(* file.                                                                     *)
MessageThreads == {t \in Threads : HasMessage(t)}
WithCall       == IF caller = "waiting" THEN {message} ELSE {}
MessagesOnce ==
    /\ EachOnce(1 .. written, Range(compressor_message_queue) \cup WithCall, UNION Range(content),
                MessageThreads, thread)
    /\ IsInjective(compressor_message_queue) /\ Range(compressor_message_queue) \cap WithCall = {}
    /\ \A k, l \in DOMAIN content : k # l => content[k] \cap content[l] = {}

(* The name after the closed one is that of the next file.                    *)
NextIsNamed ==
    \A i \in DOMAIN announced :
        announced[i][2] # NoFile => announced[i][2][1] = announced[i][1][1] + 1

(* Nothing but the deletion of old files ends the process.                    *)
EndedByDeletion == crashed => ByFile /\ options.max_bag_files > 0

IInv == TypeOK /\ FilesAreListed /\ Joins /\ OneMode /\ ClosedFiles /\ Names /\ NextIsNamed
          /\ (options.queue_size = 0 => MessagesOnce)
=============================================================================
