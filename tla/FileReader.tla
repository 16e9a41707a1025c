------------------------------ MODULE FileReader ------------------------------
(***************************************************************************)
(* The reading half of src/file.rs: LZ4F_readOpen, LZ4F_read and           *)
(* LZ4F_readClose, which pull compressed bytes from a FILE through a       *)
(* buffer and push them through a decompression context, here the one of   *)
(* FrameDecoder with every pass of its loop.                               *)
(*                                                                         *)
(* A file holds frames one after the other and may be cut short; an fread  *)
(* may give less than asked and set the stream's error flag, which stays   *)
(* set.                                                                    *)
(***************************************************************************)
EXTENDS FrameDecoder

CONSTANTS
  Files,      \* the files to read, each [frames, length]: the frames laid in
              \* it, and how many of their bytes it has
  Sizes,      \* how many bytes a read asks for
  ShortReads, \* what an fread that fails still gives
  MaxFaults   \* bound: freads that fail

ASSUME ReadsNatural == /\ Sizes \subseteq Nat /\ ShortReads \subseteq Nat
                       /\ MaxFaults \in Nat

VARIABLES
  file,
  taken,      \* bytes fread so far: the stream's position
  ferror, faults,
  bufSize,    \* src_buf.len()
  held,       \* src_buf_size - src_buf_next
  rd,         \* the running read: [op, want, from, mark], the last two as they
              \* were when it last called the decoder
  buf,        \* what it has put in the caller's buffer: buf[..total]
  last,       \* what the last call returned
  given,      \* ghost: the bytes of the reads that succeeded, in order
  hole        \* ghost: a read failed with bytes already in its buffer

stream == <<taken, ferror, faults>>
handle == <<bufSize, held>>
reader == <<rd, buf, last, given, hole>>
fileVars == <<vars, file, stream, handle, reader>>

-----------------------------------------------------------------------------
ContentUpTo(frames) ==
  LET upto[k \in 0..Len(frames)] ==
        IF k = 0 THEN <<>>
        ELSE upto[k - 1] \o [i \in 1..frames[k].content |-> i]
  IN  upto

BytesUpTo(frames) ==
  LET upto[k \in 0..Len(frames)] ==
        IF k = 0 THEN 0 ELSE upto[k - 1] + LengthOf(frames[k].laid)
  IN  upto

(* CFile::read: n bytes of the want that were asked for.                   *)
Available(want) == Smaller(want, file.length - taken)
Fread(want, n) ==
  /\ taken' = taken + n
  /\ \/ n = Available(want) /\ UNCHANGED <<ferror, faults>>
     \/ /\ n \in ShortReads /\ n < Available(want) /\ faults < MaxFaults
        /\ ferror' = TRUE /\ faults' = faults + 1

Rest == [op |-> "ready", want |-> 0, from |-> 0, mark |-> 0]
Broken == [Rest EXCEPT !.op = "broken"]

-----------------------------------------------------------------------------
(* ReadFile::open: up to a whole header of the largest size, what is left  *)
(* of it kept for the first read.                                          *)

Leftover(n) == n - pos'

(* Room for a block, and for all that was read past the header.            *)
BufSizeFor(n) == CHOOSE m \in {GetBlockSize(info'.blockSizeID), Leftover(n)} :
                   m >= GetBlockSize(info'.blockSizeID) /\ m >= Leftover(n)

OpenShort(n) ==
  /\ n < HeaderSizeMin + 4
  /\ rd' = Broken /\ last' = "ioRead" /\ UNCHANGED <<handle, vars>>

OpenInfo(n) ==
  /\ n >= HeaderSizeMin + 4
  /\ GetFrameInfoRefused(n) \/ GetFrameInfoHeader(n)
  /\ IF res' = "ok"
     THEN /\ held' = Leftover(n)
          /\ bufSize' = BufSizeFor(n)
          /\ rd' = Rest /\ last' = "opened"
     ELSE rd' = Broken /\ last' = "frameError" /\ UNCHANGED handle

Open ==
  /\ rd.op = "closed"
  /\ \E n \in 0..HeaderSizeMax : Fread(HeaderSizeMax, n) /\ (OpenShort(n) \/ OpenInfo(n))
  /\ UNCHANGED <<file, buf, given, hole>>

-----------------------------------------------------------------------------
(* ReadFile::read: its loop, one action for each thing a turn can do.      *)

Read(size) ==
  /\ rd.op = "ready"
  /\ rd' = [op |-> "reading", want |-> size, from |-> 0, mark |-> 0] /\ buf' = <<>>
  /\ UNCHANGED <<vars, file, stream, handle, last, given, hole>>

Turn == rd.op = "reading" /\ Len(buf) < rd.want

(* What the call gives its caller.                                         *)
Return(short) ==
  /\ rd' = Rest /\ last' = (IF short THEN "short" ELSE "full")
  /\ given' = given \o buf /\ UNCHANGED <<buf, hole>>
Lose(op, why) ==
  /\ rd' = [Rest EXCEPT !.op = op] /\ last' = why
  /\ hole' = (hole \/ buf # <<>>) /\ UNCHANGED <<buf, given>>

Filled ==
  /\ rd.op = "reading" /\ Len(buf) = rd.want
  /\ Return(FALSE) /\ UNCHANGED <<vars, file, stream, handle>>

(* Slips: a refill over bytes still held; the end of the file not seen, or *)
(* an error taken for it.                                                  *)
RefillEarly == held < BHSize
AtEndRetries == UNCHANGED reader
ErrorIsEnd == Return(TRUE)

NeedsRefill == held = 0
AtEnd == IF ferror' THEN Lose("ready", "ioRead") ELSE Return(TRUE)

Refill ==
  /\ Turn /\ NeedsRefill
  /\ \E n \in 0..bufSize :
       /\ Fread(bufSize, n)
       /\ IF n = 0 THEN AtEnd /\ UNCHANGED held
          ELSE held' = n /\ UNCHANGED reader
  /\ UNCHANGED <<vars, file, bufSize>>

Decode ==
  /\ Turn /\ ~NeedsRefill
  /\ Decompress(held, rd.want - Len(buf), FALSE)
  /\ rd' = [rd EXCEPT !.op = "decoding", !.from = pos, !.mark = Len(out)]
  /\ UNCHANGED <<file, stream, handle, buf, last, given, hole>>

DecoderPass ==
  rd.op = "decoding" /\ Pass /\ UNCHANGED <<file, stream, handle, reader>>

(* What the call made of the buffer.  A frame that is complete leaves the  *)
(* context at the beginning of the next one.                               *)
Consumed == pos - rd.from
Written == SubSeq(out, rd.mark + 1, Len(out))

(* Slips: the cursor stays, and a later piece goes over an earlier one.    *)
HeldStays == held
PlacedOver(total) == Written \o SubSeq(total, Len(Written) + 1, Len(total))

HeldAfter == held - Consumed
Placed(total) == total \o Written

FollowingFrame ==
  IF verdict = "complete" /\ opened < Len(file.frames)
  THEN NextFrame /\ frame' = file.frames[opened + 1]
  ELSE UNCHANGED vars

CallOver == rd.op = "decoding" /\ Idle

DecodeFailed ==
  /\ CallOver /\ verdict = "rejected"
  /\ Lose("broken", "frameError") /\ UNCHANGED <<vars, file, stream, handle>>

(* Neither side moved: the read returns what it has.                       *)
Stuck == Consumed = 0 /\ Written = <<>>

Absorb ==
  /\ CallOver /\ verdict # "rejected"
  /\ held' = HeldAfter
  /\ IF Stuck THEN Return(TRUE)
     ELSE /\ rd' = [rd EXCEPT !.op = "reading"] /\ buf' = Placed(buf)
          /\ UNCHANGED <<last, given, hole>>
  /\ FollowingFrame
  /\ UNCHANGED <<file, stream, bufSize>>

(* LZ4F_readClose frees the handle and does nothing else.                  *)
ReadClose == rd.op \in {"ready", "broken"} /\ UNCHANGED fileVars

-----------------------------------------------------------------------------
UnreadFile ==
  /\ taken = 0 /\ ferror = FALSE /\ faults = 0
  /\ bufSize = 0 /\ held = 0 /\ rd = [Rest EXCEPT !.op = "closed"]
  /\ buf = <<>> /\ last = "none" /\ given = <<>> /\ hole = FALSE
FileInit ==
  file \in Files /\ UnreadFile /\ Init /\ frame = file.frames[1]

Working == Filled \/ Refill \/ Decode \/ DecoderPass \/ DecodeFailed \/ Absorb

FileNext == Open \/ (\E size \in Sizes : Read(size)) \/ Working \/ ReadClose

(* A read, once called, runs.                                              *)
FileSpec == FileInit /\ [][FileNext]_fileVars /\ WF_fileVars(Working)

-----------------------------------------------------------------------------
(* Properties.                                                             *)

(* Src_buf, its cursor and the context agree on where in the file they     *)
(* are: whatever was over-read with the header (file.rs 62-64), left by a  *)
(* call (103) or belongs to the next frame, the decoder is offered the     *)
(* byte after the last one it consumed.                                    *)
CursorAgrees ==
  rd.op \in {"ready", "reading"} =>
    taken - held = BytesUpTo(file.frames)[opened - 1] + pos

(* The cursor agrees, and as long as no read failed with bytes already in  *)
(* its buffer, the reads that succeeded give the file's content in order,  *)
(* whatever they asked for and however fread cut it (file.rs 76-114); a    *)
(* damaged body may still give other bytes before its checksum is reached. *)
ReadInOrder ==
  LET whole == ContentUpTo(file.frames)[Len(file.frames)] IN
  /\ CursorAgrees
  /\ ~hole /\ (\A i \in 1..opened : file.frames[i].fault # "body") =>
       /\ Len(given) <= Len(whole)
       /\ given = SubSeq(whole, 1, Len(given))

(* "A short return means end of input, not an error" (file.rs 74-75): the  *)
(* stream is at its end with no error, nothing is held back in src_buf,    *)
(* and from a file that is all there and sound everything was given.       *)
ShortMeansEnd ==
  last = "short" /\ rd.op = "ready" =>
    /\ taken = file.length /\ held = 0 /\ ~ferror
    /\ file.length = BytesUpTo(file.frames)[Len(file.frames)]
         /\ (\A i \in 1..Len(file.frames) : file.frames[i].fault = "none") /\ ~hole
         => given = ContentUpTo(file.frames)[Len(file.frames)]

(* Every read returns (file.rs 76-114).                                    *)
ReadReturns == (rd.op \in {"reading", "decoding"}) ~> (rd.op \in {"ready", "broken"})
=============================================================================
