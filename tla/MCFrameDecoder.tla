---------------------------- MODULE MCFrameDecoder ----------------------------
(***************************************************************************)
(* FrameDecoder and its user FileReader in small instances for TLC.  A     *)
(* behaviour is that of one client, who is chosen at the beginning: three  *)
(* that feed a context by hand and one that reads a file.  Two bytes stand *)
(* for 64 KB, so blocks hold 2 or 8 bytes of content and the window 2;     *)
(* headers, block headers and checksums keep their real sizes.  The file's *)
(* buffer is then as large as what is over-read with a header, so frames   *)
(* and blocks are cut by it anywhere.                                      *)
(***************************************************************************)
EXTENDS FileReader

VARIABLE who       \* the client

mcVars == <<fileVars, who>>

Info(id, linked, blockCrc, contentCrc, size) ==
  [blockSizeID |-> id, linked |-> linked, contentChecksum |-> contentCrc,
   blockChecksum |-> blockCrc, contentSize |-> size, dictID |-> FALSE]

Block(stored, size, from, to, reach, sound) ==
  [stored |-> stored, size |-> size, from |-> from, to |-> to,
   reach |-> reach, sound |-> sound]
Packed(from, to, reach) == Block(FALSE, 1, from, to, reach, TRUE)
Verbatim(from, to) == Block(TRUE, to - from, from, to, 0, TRUE)

DataItems(info_, headerSound, b1, b2) ==
  <<HeaderItem(info_, headerSound)>> \o BlockItems(info_, b1) \o BlockItems(info_, b2)
  \o <<EndMarkItem>> \o (IF info_.contentChecksum THEN <<ContentCrcItem(b2.to)>> ELSE <<>>)

Frame(items, content, fault, guarded, dictionary) ==
  [laid |-> Laid(items), content |-> content, fault |-> fault, guarded |-> guarded,
   dictionary |-> dictionary]

(* Linked, every field present: a compressed block and a stored one.       *)
Full == Frame(DataItems(Info(4, TRUE, TRUE, TRUE, 4), TRUE, Packed(0, 2, 0), Verbatim(2, 4)),
              4, "none", FALSE, FALSE)
(* Linked, no field present: the second block reaches into the first.      *)
Plain == Frame(DataItems(Info(4, TRUE, FALSE, FALSE, 0), TRUE, Verbatim(0, 1), Packed(1, 3, 1)),
               3, "none", FALSE, FALSE)
(* Larger independent blocks, both started from the dictionary.            *)
Seeded == Frame(DataItems(Info(5, FALSE, FALSE, TRUE, 0), TRUE,
                          Packed(0, 5, 1), Packed(5, 6, 2)),
                6, "none", FALSE, TRUE)
(* Linked blocks started from the dictionary.                              *)
SeededLinked == Frame(DataItems(Info(4, TRUE, FALSE, FALSE, 0), TRUE, Packed(0, 1, 1), Packed(1, 3, 2)),
                3, "none", FALSE, TRUE)
(* Independent blocks under checksums of their own, and no other.          *)
Checksummed == Frame(DataItems(Info(4, FALSE, TRUE, FALSE, 0), TRUE, Verbatim(0, 1), Packed(1, 3, 0)),
                     3, "none", FALSE, FALSE)
Skipped == Frame(SkippableItems(5), 0, "none", FALSE, FALSE)
SkippedEmpty == Frame(SkippableItems(0), 0, "none", FALSE, FALSE)

(* Frames with something wrong.                                            *)
Unknown == Frame(<<[kind |-> "unknown", size |-> 9]>>, 0, "type", FALSE, FALSE)
BadHeader == Frame(DataItems(Info(4, TRUE, FALSE, FALSE, 0), FALSE, Verbatim(0, 1), Verbatim(1, 2)),
                   2, "header", FALSE, FALSE)
BadSize == Frame(DataItems(Info(4, TRUE, FALSE, FALSE, 3), TRUE, Packed(0, 2, 0), Verbatim(2, 4)),
                 4, "size", FALSE, FALSE)
TooLong == Frame(DataItems(Info(4, TRUE, FALSE, FALSE, 0), TRUE, Packed(0, 2, 0),
                           Block(FALSE, 3, 2, 4, 0, TRUE)), 4, "block", FALSE, FALSE)
BadPacked == Frame(DataItems(Info(4, TRUE, TRUE, FALSE, 0), TRUE, Packed(0, 2, 0),
                             Block(FALSE, 1, 2, 4, 0, FALSE)), 4, "body", TRUE, FALSE)
BadVerbatim == Frame(DataItems(Info(4, TRUE, TRUE, TRUE, 0), TRUE,
                               Block(TRUE, 2, 0, 2, 0, FALSE), Verbatim(2, 3)), 3, "body", FALSE, FALSE)
BadContent == Frame(DataItems(Info(4, TRUE, FALSE, TRUE, 0), TRUE, Packed(0, 2, 0),
                              Block(FALSE, 1, 2, 4, 1, FALSE)), 4, "body", FALSE, FALSE)

SoundFrames == {Full, Plain, Seeded, SeededLinked, Checksummed, Skipped, SkippedEmpty}
FaultyFrames == {Unknown, BadHeader, BadSize, TooLong, BadPacked, BadVerbatim, BadContent}
MixedFrames == {Full, Seeded, BadContent}

-----------------------------------------------------------------------------
(* Files.                                                                  *)

SkippedSome == Frame(SkippableItems(3), 0, "none", FALSE, FALSE)

WholeFile(frames) == [frames |-> frames, length |-> BytesUpTo(frames)[Len(frames)]]
CutFile(frames, n) == [frames |-> frames, length |-> n]

SoundFiles == {WholeFile(<<Plain>>), WholeFile(<<Full, Plain>>),
               WholeFile(<<Checksummed, SkippedSome, Plain>>), WholeFile(<<SkippedSome, Plain>>)}
DamagedFiles == {CutFile(<<Full, Plain>>, 35), CutFile(<<Plain>>, 10),
                 WholeFile(<<Plain, BadContent>>), WholeFile(<<BadHeader>>), WholeFile(<<Unknown, Plain>>)}
AnyFile == SoundFiles \cup DamagedFiles

AllFrames == SoundFrames \cup FaultyFrames \cup {SkippedSome}

ASSUME FramesAssumption
ASSUME FramesWellFormed /\ AskedOnce

-----------------------------------------------------------------------------
(* Sound frames in pieces of many sizes.                                   *)
Sound == INSTANCE FrameDecoder WITH
  Frames <- SoundFrames, DictLength <- 3, Pieces <- {0, 1, 5, 30, 80},
  Rooms <- {0, 1, 8}, MaxFrames <- 1, MaxAsks <- 1

(* Frames with something wrong.                                            *)
Faulty == INSTANCE FrameDecoder WITH
  Frames <- FaultyFrames, DictLength <- 3, Pieces <- {0, 3, 30, 80},
  Rooms <- {0, 1, 8}, MaxFrames <- 1, MaxAsks <- 1

(* A context that goes from frame to frame, finished or not.               *)
Reused == INSTANCE FrameDecoder WITH
  Frames <- MixedFrames, DictLength <- 3, Pieces <- {3, 80},
  Rooms <- {1, 8}, MaxFrames <- 2, MaxAsks <- 0

NoFile == CHOOSE f \in Files : TRUE

MCInit ==
  \/ who = "file" /\ FileInit
  \/ /\ file = NoFile /\ UnreadFile
     /\ \/ who = "sound" /\ Sound!Init
        \/ who = "faulty" /\ Faulty!Init
        \/ who = "reused" /\ Reused!Init

ByHand(name, next) == who = name /\ next /\ UNCHANGED <<file, stream, handle, reader, who>>

MCNext ==
  \/ who = "file" /\ FileNext /\ UNCHANGED who
  \/ ByHand("sound", Sound!Next)
  \/ ByHand("faulty", Faulty!Next)
  \/ ByHand("reused", Reused!Next)

(* The fairness of FrameDecoder for those who feed a context, and that of  *)
(* FileReader for the one who reads.                                       *)
FedPass == who # "file" /\ Pass /\ UNCHANGED <<file, stream, handle, reader, who>>
Fed == ByHand("sound", Sound!Feed) \/ ByHand("faulty", Faulty!Feed) \/ ByHand("reused", Reused!Feed)
Reading == who = "file" /\ Working /\ UNCHANGED who

MCSpec == MCInit /\ [][MCNext]_mcVars
            /\ WF_mcVars(FedPass) /\ SF_mcVars(Fed) /\ WF_mcVars(Reading)

(* Every frame a client keeps feeding is finished or rejected: every   *)
(* pass of the loop of decompress gets on, and so do the calls (frame.rs   *)
(* 1068-1490).                                                             *)
Decides == (who # "file" /\ verdict = "open") ~> (verdict # "open")

(* ReadInOrder and ShortMeansEnd of FileReader (file.rs 62-114), for the   *)
(* client that reads.                                                      *)
FileReadInOrder == who = "file" => ReadInOrder
FileShortMeansEnd == who = "file" => ShortMeansEnd
=============================================================================
