--------------------------- MODULE MCFrameEncoder ---------------------------
(***************************************************************************)
(* FrameEncoder and its two users, WholeFrame and FileWriter, in small     *)
(* instances for TLC.  A behaviour is that of one client, who is chosen at *)
(* the beginning: all of them use the one context of FrameEncoder, each    *)
(* with parameters that bring out what it is there for.  Two bytes stand   *)
(* for 64 KB, so blocks hold 2 or 8 bytes and the window 2; headers, block *)
(* headers and checksums keep their real sizes.                            *)
(*                                                                         *)
(* Two more clients use what frame contexts are made of: the hashes        *)
(* (XXHash) and the handles a context lives behind (Handles).              *)
(***************************************************************************)
EXTENDS FrameEncoder

VARIABLES
  client,
  wf, made,                                                 \* WholeFrame's
  w, dstCap, failed, faults, accepted, disk, torn, footer,  \* FileWriter's
  answer,                                                   \* of both
  hashes, hashed,                                           \* XXHash's
  handle, route, audit, misrouted, calls                    \* Handles'

whole == <<wf, made>>
file == <<w, dstCap, failed, faults, accepted, disk, torn, footer>>
hashing == <<hashes, hashed>>
handling == <<handle, route, audit, misrouted, calls>>
parts == <<hashing, handling>>
mcVars == <<vars, client, whole, file, answer, parts>>

(* Preferences that differ in the given fields only.                       *)
MCPrefs(ids, linked, auto, csum, bsum, sizes) ==
  [blockSizeID : ids, linked : linked, autoFlush : auto,
   contentChecksum : csum, blockChecksum : bsum, contentSize : sizes]

LayoutPrefs == MCPrefs({4}, {TRUE}, BOOLEAN, BOOLEAN, BOOLEAN, {0})
HistoryPrefs == MCPrefs({0, 5}, BOOLEAN, BOOLEAN, {FALSE}, {FALSE}, {0})
MixedPrefs == MCPrefs({3, 4}, {FALSE}, {FALSE}, {TRUE}, {FALSE}, {0, 3})
PlainPrefs == MCPrefs({4}, {FALSE}, {FALSE}, {FALSE}, {FALSE}, {0})
FramePrefSet == MCPrefs({0, 3, 5, 9}, BOOLEAN, {FALSE}, BOOLEAN, BOOLEAN, {0, 2})
WriterPrefs == MCPrefs({0, 3}, {TRUE}, BOOLEAN, BOOLEAN, {TRUE}, {0, 13}) \cup {NoPrefs}

(* Every layout of a frame into every capacity.                            *)
Layouts == INSTANCE FrameEncoder WITH
  Modes <- {"compressed"}, PrefSet <- LayoutPrefs,
  DictLengths <- {0}, SrcSizes <- {0, 1, 2, 3}, Caps <- 0..32, MaxFed <- 4

(* History: dictionaries, windows, blocks longer than the window.          *)
History == INSTANCE FrameEncoder WITH
  Modes <- {"compressed"}, PrefSet <- HistoryPrefs,
  DictLengths <- {0, 1, 2, 3}, SrcSizes <- {1, 3, 9}, Caps <- {100}, MaxFed <- 10

(* Both block modes, declared sizes, calls that are refused.               *)
Mixed == INSTANCE FrameEncoder WITH
  Modes <- {"compressed", "uncompressed"},
  PrefSet <- MixedPrefs,
  DictLengths <- {0}, SrcSizes <- {1, 2, 3}, Caps <- {19, 100}, MaxFed <- 5

(* Both modes into capacities that are just enough.                        *)
Tight == INSTANCE FrameEncoder WITH
  Modes <- {"compressed", "uncompressed"},
  PrefSet <- PlainPrefs,
  DictLengths <- {0}, SrcSizes <- {1, 2}, Caps <- 0..32, MaxFed <- 5

(* Whole frames around the block sizes, on a context left anywhere.        *)
Whole == INSTANCE WholeFrame WITH
  Modes <- {"compressed"},
  PrefSet <- FramePrefSet,
  DictLengths <- {0, 3}, SrcSizes <- {0, 1, 2, 3, 9}, Caps <- {60}, MaxFed <- 10,
  Shortages <- {0, 1}, MaxFrames <- 1

(* Files, with twelve bytes for 64 KB, so that the buffer for one block    *)
(* takes a frame header as the real one does.                              *)
File == INSTANCE FileWriter WITH
  K64 <- 12, Modes <- {"compressed"},
  PrefSet <- WriterPrefs,
  DictLengths <- {0}, SrcSizes <- {0, 1, 13}, Caps <- {}, MaxFed <- 25, MaxFaults <- 1

(* The hashes: a word of one byte, a stripe of four; a 32-bit length wraps *)
(* after eight bytes, a 64-bit one never does.                             *)
Hash32 == INSTANCE XXHash WITH
  Lane <- 1, Wrap <- 8, Sticky <- TRUE, States <- {"s1", "s2"}, Seeds <- {0, 7},
  Lengths <- 0..9, MaxFed <- 18, state <- hashes, fed <- hashed
Hash64 == INSTANCE XXHash WITH
  Lane <- 1, Wrap <- 1000, Sticky <- FALSE, States <- {"s1", "s2"}, Seeds <- {0, 7},
  Lengths <- 0..9, MaxFed <- 18, state <- hashes, fed <- hashed

(* Allocators that give hooks to get and to return memory, and an arena    *)
(* that never takes any back.                                              *)
PairedMems == {[hooks |-> {"calloc", "free"}, opaque |-> "A"],
               [hooks |-> {"alloc", "free"}, opaque |-> "B"],
               [hooks |-> {"alloc", "calloc"}, opaque |-> "arena"]}
Handle == INSTANCE Handles WITH
  Ids <- {"h1", "h2", "h3"}, Mems <- PairedMems, Sizes <- {2, 3}, MaxCalls <- 4

MCInit ==
  /\ client \in {"layouts", "history", "mixed", "whole", "file", "hash32", "hash64", "handles"}
  /\ Whole!FrameInit /\ File!FileInit /\ Hash32!Init /\ Handle!Init

Raw(name, next) == client = name /\ next /\ UNCHANGED <<client, whole, file, answer, parts>>
Part(name, next) == client = name /\ next /\ UNCHANGED <<client, vars, whole, file, answer>>

MCNext ==
  \/ Raw("layouts", Layouts!Next)
  \/ Raw("history", History!Next)
  \/ Raw("mixed", Mixed!Next)
  \/ client = "whole" /\ Whole!FrameNext /\ UNCHANGED <<client, file, parts>>
  \/ client = "file" /\ File!FileNext /\ UNCHANGED <<client, whole, parts>>
  \/ Part("hash32", Hash32!Next /\ UNCHANGED handling)
  \/ Part("hash64", Hash64!Next /\ UNCHANGED handling)
  \/ Part("handles", Handle!Next /\ UNCHANGED hashing)

(* A call runs to its end on the thread that made it.                      *)
MixedStep == Raw("mixed", Mixed!Step)
FileStep == client = "file" /\ File!Working /\ UNCHANGED <<client, whole, parts>>
MCSpec == MCInit /\ [][MCNext]_mcVars /\ WF_mcVars(MixedStep) /\ WF_mcVars(FileStep)

(* A client of its own: both modes into capacities that are just enough.   *)
TightInit ==
  client = "tight" /\ Whole!FrameInit /\ File!FileInit /\ Hash32!Init /\ Handle!Init
TightSpec == TightInit /\ [][Raw("tight", Tight!Next)]_mcVars

-----------------------------------------------------------------------------
(* Properties of all clients, and of those who are not a context's.        *)

(* A block holds bytes of one call mode, and no more of them than the      *)
(* header's block size (frame.rs 657-660), in every client's frames.       *)
EveryBlockUnmixed ==
  [][/\ client # "file" => BlockUnmixed
     /\ client = "file" => File!BlockUnmixed]_mcVars

(* Every call returns: each pass of update's loops consumes input, also    *)
(* just after the flush of a mode change, and so does each round of a      *)
(* file's write (frame.rs 664-712, file.rs 155-174).                       *)
Busy ==
  \/ client = "mixed" /\ call.op # "none"
  \/ client = "file" /\ w.op \in {"writing", "updating", "closing"}
EveryCallReturns == Busy ~> ~Busy

(* compress_frame and a file's writer get what they count on: bytes of     *)
(* compressFrameBound, and a buffer for a block, are never too few; a      *)
(* frame made at once is complete; a file is what the context emitted,     *)
(* and only one that holds a whole frame of all that writes accepted has a *)
(* frame's end (frame.rs 265-269, 787-803, file.rs 136-188).               *)
UsersServed ==
  /\ client = "whole" => Whole!BoundIsEnough /\ Whole!FrameWhole
  /\ client = "file" => File!NeverRefused /\ File!DiskInOrder /\ File!FooterMeansWhole

(* What a streamed hash answers is the hash of the bytes in one piece, and *)
(* what is kept of them to go on from is in step with it (xxh.rs 105-200,  *)
(* 269-377).                                                               *)
HashesInStep ==
  /\ client = "hash32" => Hash32!DigestIsOneShot /\ Hash32!LanesInStep
  /\ client = "hash64" => Hash64!DigestIsOneShot /\ Hash64!LanesInStep

(* A handle is released the way it was allocated, and what contexts report *)
(* as their size adds up to what the allocators have out (ffi.rs 838-933). *)
HandlesAgree == Handle!ReleasedAsAllocated /\ Handle!AuditAgrees
=============================================================================
