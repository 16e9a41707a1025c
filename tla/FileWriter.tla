------------------------------ MODULE FileWriter ------------------------------
(***************************************************************************)
(* The writing half of src/file.rs: LZ4F_writeOpen, LZ4F_write and         *)
(* LZ4F_writeClose, which put data through a compression context, here the *)
(* one of FrameEncoder, into a buffer of fixed size and that buffer into a *)
(* FILE.  An fwrite may write less than it was given; the caller may go on *)
(* with the handle all the same.                                           *)
(***************************************************************************)
EXTENDS FrameEncoder

CONSTANT MaxFaults   \* bound: fwrites that fall short

VARIABLES
  w,         \* the running call: [op, want, sp, mark], mark being how much
             \* the context had emitted when it was last called
  dstCap,    \* dst_buf.len()
  failed,
  faults,
  answer,    \* what the last call returned
  accepted,  \* ghost: bytes of the writes that succeeded
  disk,      \* ghost: content of the blocks written whole
  torn,      \* ghost: part of a write is missing from the file
  footer     \* ghost: the end of the frame is in the file

file == <<disk, torn, footer, faults>>
writer == <<w, dstCap, failed, answer, accepted>>
fileVars == <<vars, writer, file>>

-----------------------------------------------------------------------------
NotOpen == [op |-> "none", want |-> 0, sp |-> 0, mark |-> 0]
Opened == [NotOpen EXCEPT !.op = "open"]
Closed == [NotOpen EXCEPT !.op = "closed"]

(* CFile::write, of bytes that are there: all of them, or not.             *)
Written == UNCHANGED <<torn, faults>>
Short == faults < MaxFaults /\ torn' = TRUE /\ faults' = faults + 1

(* Slip: what earlier calls emitted is written again.                      *)
PieceFromStart == content
(* Blocks emitted since the context was last called.                       *)
Piece == SubSeq(content, w.mark + 1, Len(content))

-----------------------------------------------------------------------------
(* WriteFile::open: a buffer for what one block's worth of data may make,  *)
(* and the frame's header.  Without preferences the bound is the one for   *)
(* both checksums.                                                         *)
Worst == [NoPrefs EXCEPT !.contentChecksum = TRUE, !.blockChecksum = TRUE]
BlockSizeOf(p) == GetBlockSize(WithDefaultSize(p).blockSizeID)

DstBufMax(p, asked) == CompressBound(BlockSizeOf(p), IF asked THEN p ELSE Worst)

WriteOpenBadSize(p) ==
  /\ w.op = "none" /\ ~ValidBlockSizeId(WithDefaultSize(p).blockSizeID)
  /\ w' = Closed /\ answer' = "maxBlockSizeInvalid"
  /\ UNCHANGED <<vars, dstCap, failed, accepted, file>>

WriteOpen(p, asked) ==
  /\ w.op = "none" /\ (asked \/ p = NoPrefs)
  /\ dstCap' = DstBufMax(p, asked)
  /\ Begin(p, 0, DstBufMax(p, asked))
  /\ \/ Written /\ w' = Opened /\ answer' = "ok"
     \/ Short /\ w' = Closed /\ answer' = "ioWrite"
  /\ UNCHANGED <<failed, accepted, disk, footer>>

-----------------------------------------------------------------------------
(* WriteFile::write: chunk by chunk, each through update and into the file.*)

Write(n) ==
  /\ w.op = "open" /\ totalInSize + n <= MaxFed
  /\ w' = [op |-> "writing", want |-> n, sp |-> 0, mark |-> 0]
  /\ UNCHANGED <<vars, dstCap, failed, answer, accepted, file>>

(* Slips: one turn too many, and the whole piece at once.                  *)
OneMore == w.sp <= w.want
WholePiece == w.want - w.sp
MoreToWrite == w.sp < w.want
Chunk == Smaller(w.want - w.sp, maxBlockSize)

GiveUp(e) == w' = Opened /\ failed' = TRUE /\ answer' = e

UpdateChunk ==
  /\ w.op = "writing" /\ MoreToWrite /\ Ready
  /\ IF dstCap >= CompressBoundInternal(Chunk, prefs, Len(tmp))
     THEN /\ UpdateCall(Chunk, "compressed", dstCap)
          /\ w' = [w EXCEPT !.op = "updating", !.mark = Len(content)]
          /\ UNCHANGED <<failed, answer>>
     ELSE Reject("dstMaxSizeTooSmall") /\ GiveUp("dstMaxSizeTooSmall")
  /\ UNCHANGED <<dstCap, accepted, file>>

EncoderStep ==
  w.op \in {"updating", "closing"} /\ Step /\ UNCHANGED <<writer, file>>

SpAfter(n) == w.sp + n

WriteChunk ==
  /\ w.op = "updating" /\ Ready
  /\ \/ /\ Written /\ disk' = disk \o Piece
        /\ w' = [w EXCEPT !.op = "writing", !.sp = SpAfter(Chunk)]
        /\ UNCHANGED <<failed, answer>>
     \/ /\ Piece # <<>> /\ Short /\ GiveUp("ioWrite")
        /\ UNCHANGED disk
  /\ UNCHANGED <<vars, dstCap, accepted, footer>>

WriteDone ==
  /\ w.op = "writing" /\ ~MoreToWrite
  /\ w' = Opened /\ answer' = "ok" /\ accepted' = accepted + w.want
  /\ UNCHANGED <<vars, dstCap, failed, file>>

-----------------------------------------------------------------------------
(* WriteFile::close: the end of the frame, unless a write failed.          *)
Finishes == ~failed

CloseBroken ==
  /\ w.op = "open" /\ ~Finishes
  /\ w' = Closed /\ answer' = "ok"
  /\ UNCHANGED <<vars, dstCap, failed, accepted, file>>

CloseEnd ==
  /\ w.op = "open" /\ Finishes
  /\ EndCall(dstCap)
  /\ w' = [w EXCEPT !.op = "closing", !.mark = Len(content)]
  /\ UNCHANGED <<dstCap, failed, answer, accepted, file>>

(* When end fails, what it flushed before is not written.                  *)
CloseWrite ==
  /\ w.op = "closing" /\ Ready
  /\ w' = Closed
  /\ \/ /\ res = "ok" /\ Written
        /\ disk' = disk \o Piece /\ footer' = TRUE /\ answer' = "ok"
     \/ /\ res = "ok" /\ Short /\ answer' = "ioWrite" /\ UNCHANGED <<disk, footer>>
     \/ res # "ok" /\ answer' = res /\ UNCHANGED file
  /\ UNCHANGED <<vars, dstCap, failed, accepted>>

Gone == w.op = "closed" /\ UNCHANGED fileVars

-----------------------------------------------------------------------------
FileInit ==
  /\ Init /\ w = NotOpen /\ dstCap = 0 /\ failed = FALSE /\ faults = 0
  /\ answer = "ok" /\ accepted = 0
  /\ disk = <<>> /\ torn = FALSE /\ footer = FALSE

Working == UpdateChunk \/ EncoderStep \/ WriteChunk \/ WriteDone \/ CloseWrite

FileNext ==
  \/ \E p \in PrefSet : WriteOpenBadSize(p) \/ \E asked \in BOOLEAN : WriteOpen(p, asked)
  \/ \E n \in SrcSizes : Write(n)
  \/ CloseBroken \/ CloseEnd
  \/ Working
  \/ Gone

(* A call runs to its end.                                                 *)
FileSpec == FileInit /\ [][FileNext]_fileVars /\ WF_fileVars(Working)

-----------------------------------------------------------------------------
(* Properties.                                                             *)

(* The buffer made at open is never too small, for any chunk, for what is  *)
(* buffered before it, or for the end of the frame (file.rs 136, 157, 183):*)
(* feeding chunks of one block is what makes compress_bound of one block   *)
(* enough.                                                                 *)
NeverRefused ==
  /\ answer # "dstMaxSizeTooSmall" /\ res # "dstMaxSizeTooSmall"
  /\ call.at <= dstCap

(* Until a write falls short, the file is the blocks emitted so far, in    *)
(* order and without a gap, and the writes that succeeded account for all  *)
(* the context was fed (file.rs 155-174).                                  *)
DiskInOrder ==
  ~failed /\ ~torn /\ w.op \in {"open", "writing"} =>
    /\ disk = content
    /\ w.op = "open" => accepted = totalInSize

(* A file that has the end of a frame is a whole frame of all the data     *)
(* that writes accepted: after a short write close leaves the frame open,  *)
(* and goes on doing so whatever is written meanwhile (file.rs 179-188).   *)
FooterMeansWhole ==
  footer =>
    /\ ~torn /\ sealed /\ Len(disk) = accepted
    /\ \A i \in 1..Len(disk) : disk[i][1] = i
==============================================================================
