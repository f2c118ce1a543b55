-------------------------- MODULE CompressedFiles ---------------------------
(***************************************************************************)
(* The files of a bag compressed with zstd and read back. A compressor keeps   *)
(* one context for all the files it is given, a reader one decompressor for all   *)
(* the files it opens. A file is [whole, rest]: so many full input buffers and     *)
(* whether something is left after them. What zstd writes is a sequence of          *)
(* [kind, of, part]: the header of a frame, its blocks and its end.                *)
(***************************************************************************)
EXTENDS Integers, Sequences, FiniteSets, SequencesExt

CONSTANTS
    Compressors,   \* the threads of the compression writer, one context each
    FileShapes,    \* [whole, rest]
    BagLength,     \* files of the bag
    Namings        \* [version, names]: how the metadata name the files: "plain", "prefixed", "missing"

VARIABLES
    shapes,        \* of the files to compress
    cctx,          \* compressor -> a frame is open
    packed,        \* file -> what its .zstd file holds, << >> before
    packer,        \* file -> who compressed it
    naming,
    reader         \* SequentialCompressionReader: see Closed
packVars == <<shapes, cctx, packed, packer, naming, reader>>

Nobody == "nobody"
BagFiles == 1..BagLength
Parts(f) == shapes[f].whole + (IF shapes[f].rest THEN 1 ELSE 0)
Header    == [kind |-> "frame", of |-> 0, part |-> 0]
FrameEnd  == [kind |-> "end", of |-> 0, part |-> 0]
Blocks(f) == [i \in 1..Parts(f) |-> [kind |-> "block", of |-> f, part |-> i]]

(* The mode of ZSTD_compressStream2() for a part: the end of the file shows    *)
(* with a read that comes short, and nothing is compressed for an empty one.   *)
\* Deviation: the frame is left open.
NeverEnds(f) == FALSE
EndsFrame(f) == shapes[f].rest

Closed == [open |-> FALSE, current |-> 0, decompressed |-> {}, dctx |-> FALSE, failed |-> FALSE, got |-> [f \in BagFiles |-> << >>]]

PackInit ==
    /\ shapes \in [BagFiles -> FileShapes]
    /\ cctx = [c \in Compressors |-> FALSE]
    /\ packed = [f \in BagFiles |-> << >>] /\ packer = [f \in BagFiles |-> Nobody]
    /\ naming \in Namings /\ reader = Closed

(* compress_uri(): files are taken in turn, by whichever thread is free.       *)
compress_uri(c, f) ==
    LET opens == Parts(f) > 0 /\ ~cctx[c] IN
    /\ packer[f] = Nobody /\ \A g \in 1..(f - 1) : packer[g] # Nobody
    /\ packed' = [packed EXCEPT ![f] = (IF opens THEN <<Header>> ELSE << >>) \o Blocks(f) \o
                                       (IF EndsFrame(f) THEN <<FrameEnd>> ELSE << >>)]
    /\ cctx' = [cctx EXCEPT ![c] = (@ \/ Parts(f) > 0) /\ ~EndsFrame(f)]
    /\ packer' = [packer EXCEPT ![f] = c]
    /\ UNCHANGED <<shapes, naming, reader>>

(* ZSTD_decompressStream() on one item: external. Outside of a frame only a    *)
(* header is understood, inside of one everything but a header.               *)
Decode(d, item) ==
    IF d.failed \/ d.dctx = (item.kind = "frame") THEN [d EXCEPT !.failed = TRUE]
    ELSE CASE item.kind = "frame" -> [d EXCEPT !.dctx = TRUE]
           [] item.kind = "end"   -> [d EXCEPT !.dctx = FALSE]
           [] OTHER               -> [d EXCEPT !.out = Append(@, item)]
decompress_uri(dctx, items) == FoldLeft(Decode, [failed |-> FALSE, dctx |-> dctx, out |-> << >>], items)

(* Version 4: bags were written with the name of the folder before the file's, *)
(* which is tried without it.                                                *)
Resolved == naming.names = "plain" \/ (naming.names = "prefixed" /\ naming.version = 4)

(* load_current_file(), preprocess_current_file(): a file is decompressed when  *)
(* it is opened for the first time.                                          *)
Loads(r, f) ==
    IF f \in r.decompressed THEN [r EXCEPT !.current = f]
    ELSE IF ~Resolved THEN [r EXCEPT !.failed = TRUE]
    ELSE LET d == decompress_uri(r.dctx, packed[f]) IN
         [r EXCEPT !.current = f, !.decompressed = @ \cup {f}, !.dctx = d.dctx, !.failed = d.failed, !.got[f] = d.out]

OpenReader ==
    /\ ~reader.open /\ \A f \in BagFiles : packer[f] # Nobody
    /\ reader' = [Loads(Closed, 1) EXCEPT !.open = TRUE]
    /\ UNCHANGED <<shapes, cctx, packed, packer, naming>>
(* load_next_file(), load_prev_file(): playing on, or a seek.                 *)
Turn ==
    /\ reader.open /\ ~reader.failed
    /\ \E f \in {reader.current - 1, reader.current + 1} \cap BagFiles : reader' = Loads(reader, f)
    /\ UNCHANGED <<shapes, cctx, packed, packer, naming>>

PackNext ==
    \/ \E c \in Compressors, f \in BagFiles : compress_uri(c, f)
    \/ OpenReader
    \/ Turn

-----------------------------------------------------------------------------
OfWholeBuffers(f) == shapes[f].whole > 0 /\ ~shapes[f].rest
OneThread == Cardinality({packer[f] : f \in BagFiles}) = 1
(* A reader gets every file it opens as it was, in whatever order it turns, as   *)
(* long as no file filled its last buffer; with one thread even then, because    *)
(* the frame that was left open is continued by the next file, for the writer    *)
(* as for the reader.                                                          *)
FilesComeBack ==
    reader.open =>
      /\ \A f \in reader.decompressed :
           (OneThread \/ \A g \in 1..f : ~OfWholeBuffers(g)) => reader.got[f] = Blocks(f)
      /\ reader.failed => ~Resolved \/ (~OneThread /\ \E g \in reader.decompressed : OfWholeBuffers(g))

=============================================================================
