----------------------------- MODULE FrameDecoder -----------------------------
(***************************************************************************)
(* The frame decompressor of src/frame.rs: the context Dctx and the calls  *)
(* LZ4F_decompress, LZ4F_getFrameInfo and LZ4F_resetDecompressionContext.  *)
(*                                                                         *)
(* A decompress call runs a loop over the decoder's stage until it runs    *)
(* out of source, of room in its destination, or of frame.  One action     *)
(* models one pass of that loop; variable call holds what is left of the   *)
(* source and the destination, so a frame can be cut between calls at any  *)
(* byte.  The client feeds one frame at a time, in order, and may offer    *)
(* bytes of what follows it.                                               *)
(***************************************************************************)
EXTENDS FrameFormat

CONSTANTS
  K64,          \* 64 KB: the smallest block size and the history window
  Frames,       \* the frames a client may feed, each [laid, content, fault,
                \* guarded, dictionary]: its items, how many content bytes it
                \* holds, what is wrong with it (see FrameDelivery), whether a
                \* block checksum covers that before it is decoded, and whether
                \* the frame needs the dictionary
  DictLength,   \* length of the client's dictionary
  Pieces,       \* how many bytes of source a call offers
  Rooms,        \* how much room its destination has
  MaxFrames,    \* bound: frames opened by one client
  MaxAsks       \* bound: getFrameInfo calls per frame

ASSUME BlockUnitPositive == K64 \in Nat \ {0}
ASSUME OffersNatural == /\ Pieces \subseteq Nat /\ Rooms \subseteq Nat
                        /\ DictLength \in Nat /\ MaxFrames \in Nat \ {0}
                        /\ MaxAsks \in Nat

VARIABLES
  stage, info, remaining, maxBlockSize,
  maxBufferSize,  \* length of tmp_out_buffer, and what Init compares with
  tmpInRoom,      \* length of tmp_in
  store,          \* tmp_in[..tmp_in_size] or header[..tmp_in_size]
  target,         \* tmp_in_target
  tmpOut,         \* decoded bytes not yet handed over
  dict, xxh,
  blockXxh,       \* bytes fed to the block checksum
  skip,           \* skip_checksum
  call,           \* the running call: [op, left, room]
  res, hint,      \* what the last call returned
  frame, pos,     \* the client's: the frame it feeds, and how far it is
  out,            \* ghost: content delivered of that frame
  verdict,        \* ghost: "open", "complete" or "rejected"
  lenient,        \* ghost: a call for this frame asked to skip checksums
  opened, asks    \* bounded counters

dctx == <<stage, info, remaining, maxBlockSize, maxBufferSize, tmpInRoom, store,
          target, tmpOut, dict, xxh, blockXxh, skip>>
client == <<frame, lenient, opened, asks>>
vars == <<dctx, call, res, hint, pos, out, verdict, client>>

-----------------------------------------------------------------------------
Smaller(a, b) == IF a < b THEN a ELSE b
LastBytes(s, n) == IF Len(s) <= n THEN s ELSE SubSeq(s, Len(s) - n + 1, Len(s))

laid == frame.laid
NoInfo == [blockSizeID |-> 0, linked |-> TRUE, contentChecksum |-> FALSE,
           blockChecksum |-> FALSE, contentSize |-> 0, dictID |-> FALSE]

GetBlockSize(id) == IF id = 5 THEN 4 * K64 ELSE IF id = 6 THEN 16 * K64
                    ELSE IF id = 7 THEN 64 * K64 ELSE K64

CrcSize == IF info.blockChecksum THEN BFSize ELSE 0
Dictionary == [i \in 1..DictLength |-> i - DictLength]

(* The next k bytes of the source, and as many of them as the field being  *)
(* stored still wants.                                                     *)
Src(k) == [i \in 1..k |-> pos + i]
FieldRest(size) == Smaller(size - Len(store), call.left)
Wanted == FieldRest(target)
Stored(k) == store \o Src(k)

(* Slip: each block replaces the history.                                  *)
BlockAlone(block) == LastBytes(block, K64)
(* update_dict: history is the last 64 KB handed to the caller.            *)
DictAfter(block) == LastBytes(dict \o block, K64)
KeepHistory(block) == dict' = IF info.linked THEN DictAfter(block) ELSE dict

(* Bytes taken off a declared content size (0: none declared).  Below zero *)
(* stands for a wrapped-around u64.                                        *)
Left(n) == IF info.contentSize # 0 THEN remaining - n ELSE remaining
Hashed(block) == IF info.contentChecksum /\ ~skip THEN xxh \o block ELSE xxh

-----------------------------------------------------------------------------
(* How a pass of the loop ends: with another pass, having consumed k bytes *)
(* and written w; with the call's return; or with an error, after which    *)
(* the client must reset the context.                                      *)

NoCall == [op |-> "none", left |-> 0, room |-> 0]
At(s) == call.op # "none" /\ stage = s

Again(k, w) ==
  /\ pos' = pos + k
  /\ call' = [call EXCEPT !.left = @ - k, !.room = @ - w]
  /\ UNCHANGED <<res, hint, verdict, client>>

Stop(k, h) ==
  /\ pos' = pos + k /\ call' = NoCall /\ res' = "ok" /\ hint' = h
  /\ UNCHANGED <<verdict, client>>

Fail(e) ==
  /\ call' = NoCall /\ res' = e /\ verdict' = "rejected"
  /\ UNCHANGED <<hint, pos, out, client>>

(* Slip: what was left of an abandoned frame stays.                        *)
ResetKeepsRemaining == stage' = "GetFrameHeader" /\ dict' = <<>> /\ skip' = FALSE /\ UNCHANGED remaining

(* Dctx::reset: all it clears.                                             *)
ResetDctx == stage' = "GetFrameHeader" /\ dict' = <<>> /\ skip' = FALSE /\ remaining' = 0

(* The last pass over a frame.                                             *)
Complete(k) ==
  /\ ResetDctx
  /\ pos' = pos + k /\ call' = NoCall /\ res' = "ok" /\ hint' = 0
  /\ verdict' = "complete" /\ UNCHANGED <<out, client>>

-----------------------------------------------------------------------------
(* The frame header.                                                       *)

HeaderState == <<stage, info, remaining, maxBlockSize, store, target>>
BufferState == <<maxBufferSize, tmpInRoom, tmpOut, dict, xxh, blockXxh, skip>>

Skippable(bytes) == StartsFrame(bytes) /\ laid[1].item.kind = "skippableMagic"
Descriptor(bytes) == StartsFrame(bytes) /\ laid[1].item.kind = "header"

(* decode_header, on at least the 7 bytes that give a header's length.     *)
HeaderBad(bytes) ==
  \/ ~Skippable(bytes) /\ ~Descriptor(bytes)
  \/ Descriptor(bytes) /\ Len(bytes) >= laid[1].item.size /\ ~laid[1].item.sound
HeaderError(bytes) ==
  IF Descriptor(bytes) THEN "headerChecksumInvalid" ELSE "frameTypeUnknown"
HeaderUsed(bytes) ==
  IF Skippable(bytes) THEN Word ELSE Smaller(Len(bytes), laid[1].item.size)

DecodeHeader(bytes, fromHeader) ==
  \/ /\ Skippable(bytes)
     /\ info' = NoInfo
     /\ IF fromHeader
        THEN stage' = "StoreSFrameSize" /\ store' = bytes /\ target' = 8
        ELSE stage' = "GetSFrameSize" /\ UNCHANGED <<store, target>>
     /\ UNCHANGED <<remaining, maxBlockSize>>
  \/ /\ Descriptor(bytes) /\ Len(bytes) < laid[1].item.size
     /\ info' = NoInfo
     /\ stage' = "StoreFrameHeader" /\ store' = bytes /\ target' = laid[1].item.size
     /\ UNCHANGED <<remaining, maxBlockSize>>
  \/ /\ Descriptor(bytes) /\ Len(bytes) >= laid[1].item.size /\ laid[1].item.sound
     /\ info' = laid[1].item.info
     /\ stage' = "Init"
     /\ maxBlockSize' = GetBlockSize(info'.blockSizeID)
     /\ remaining' = IF info'.contentSize # 0 THEN info'.contentSize ELSE remaining
     /\ store' = IF fromHeader THEN bytes ELSE store
     /\ UNCHANGED target

HeaderFails(bytes) ==
  /\ HeaderBad(bytes)
  /\ info' = NoInfo
  /\ Fail(HeaderError(bytes))
  /\ UNCHANGED <<stage, remaining, maxBlockSize, BufferState>>

GetFrameHeader ==
  /\ At("GetFrameHeader")
  /\ \/ /\ call.left >= HeaderSizeMax
        /\ \/ HeaderFails(Src(call.left)) /\ UNCHANGED <<store, target>>
           \/ DecodeHeader(Src(call.left), FALSE) /\ Again(HeaderUsed(Src(call.left)), 0)
              /\ UNCHANGED <<BufferState, out>>
     \/ /\ call.left = 0
        /\ store' = <<>> /\ Stop(0, HeaderSizeMin)
        /\ UNCHANGED <<stage, info, remaining, maxBlockSize, target, BufferState, out>>
     \/ /\ call.left \in 1..(HeaderSizeMax - 1)
        /\ store' = <<>> /\ target' = HeaderSizeMin /\ stage' = "StoreFrameHeader"
        /\ Again(0, 0)
        /\ UNCHANGED <<info, remaining, maxBlockSize, BufferState, out>>

StoreFrameHeader == \E k \in {Wanted} : \E bytes \in {Stored(k)} :
  /\ At("StoreFrameHeader")
  /\ \/ /\ Len(bytes) < target
        /\ store' = bytes /\ Stop(k, target - Len(bytes) + BHSize)
        /\ UNCHANGED <<stage, info, remaining, maxBlockSize, target, BufferState, out>>
     \/ /\ Len(bytes) >= target
        /\ \/ HeaderFails(bytes) /\ store' = bytes /\ UNCHANGED target
           \/ /\ DecodeHeader(bytes, TRUE) /\ Again(k, 0)
              /\ UNCHANGED <<BufferState, out>>

-----------------------------------------------------------------------------
(* Buffers.  They are kept from frame to frame, and grown when a frame     *)
(* needs more than the last allocation provided for.                       *)

(* Slip: no room for a block's checksum.                                   *)
TmpInUnchecksummed == maxBlockSize
TmpInSize == maxBlockSize + BFSize
BufferNeeded == maxBlockSize + (IF info.linked THEN 2 * K64 ELSE 0)

InitFrame ==
  /\ At("Init")
  /\ xxh' = IF info.contentChecksum THEN <<>> ELSE xxh
  /\ IF BufferNeeded > maxBufferSize
     THEN maxBufferSize' = BufferNeeded /\ tmpInRoom' = TmpInSize
     ELSE UNCHANGED <<maxBufferSize, tmpInRoom>>
  /\ store' = <<>> /\ target' = 0 /\ tmpOut' = <<>>
  /\ stage' = "GetBlockHeader"
  /\ Again(0, 0)
  /\ UNCHANGED <<info, remaining, maxBlockSize, dict, blockXxh, skip, out>>

-----------------------------------------------------------------------------
(* Block headers.                                                          *)

BlockState == <<info, remaining, maxBlockSize, maxBufferSize, tmpInRoom, tmpOut,
                dict, xxh, skip>>

(* decode_block_header.                                                    *)
DecodeBlockHeader(bytes, k) == \E bh \in {Recover(laid, bytes).item} :
  \/ /\ bh.kind # "blockHeader" \/ bh.length > maxBlockSize
     /\ Fail("maxBlockSizeInvalid")
     /\ UNCHANGED <<stage, target, blockXxh, BlockState>>
  \/ /\ bh.kind = "blockHeader" /\ bh.length = 0 /\ ~bh.stored
     /\ stage' = "GetSuffix"
     /\ Again(k, 0)
     /\ UNCHANGED <<target, blockXxh, BlockState, out>>
  \/ /\ bh.kind = "blockHeader" /\ bh.stored /\ bh.length <= maxBlockSize
     /\ stage' = "CopyDirect" /\ target' = bh.length
     /\ blockXxh' = IF info.blockChecksum THEN <<>> ELSE blockXxh
     /\ Again(k, 0)
     /\ UNCHANGED <<BlockState, out>>
  \/ /\ bh.kind = "blockHeader" /\ ~bh.stored /\ bh.length \in 1..maxBlockSize
     /\ stage' = "GetCBlock" /\ target' = bh.length + CrcSize
     /\ IF call.room = 0 \/ call.left = k
        THEN Stop(k, BHSize + bh.length + CrcSize)
        ELSE Again(k, 0)
     /\ UNCHANGED <<blockXxh, BlockState, out>>

GetBlockHeader ==
  /\ At("GetBlockHeader")
  /\ \/ call.left >= BHSize /\ DecodeBlockHeader(Src(BHSize), BHSize) /\ UNCHANGED store
     \/ /\ call.left < BHSize
        /\ store' = <<>> /\ stage' = "StoreBlockHeader" /\ Again(0, 0)
        /\ UNCHANGED <<target, blockXxh, BlockState, out>>

StoreBlockHeader == \E k \in {FieldRest(BHSize)} : \E bytes \in {Stored(k)} :
  /\ At("StoreBlockHeader")
  /\ store' = bytes
  /\ \/ /\ Len(bytes) < BHSize
        /\ Stop(k, BHSize - Len(bytes))
        /\ UNCHANGED <<stage, target, blockXxh, BlockState, out>>
     \/ Len(bytes) >= BHSize /\ DecodeBlockHeader(bytes, k)

-----------------------------------------------------------------------------
(* Blocks.                                                                 *)

(* A stored block goes straight through, as far as both buffers allow.     *)
CopyDirect ==
  LET k == Smaller(target, Smaller(call.left, call.room))
      data == [i \in 1..k |-> StoredByte(laid, pos + i)] IN
  /\ At("CopyDirect")
  /\ out' = out \o data
  /\ blockXxh' = IF info.blockChecksum /\ ~skip THEN blockXxh \o Src(k) ELSE blockXxh
  /\ xxh' = Hashed(data) /\ remaining' = Left(k) /\ KeepHistory(data)
  /\ IF k = target
     THEN /\ IF info.blockChecksum THEN stage' = "GetBlockChecksum" /\ store' = <<>>
             ELSE stage' = "GetBlockHeader" /\ UNCHANGED store
          /\ Again(k, k)
          /\ UNCHANGED target
     ELSE /\ target' = target - k
          /\ Stop(k, target - k + CrcSize + BHSize)
          /\ UNCHANGED <<stage, store>>
  /\ UNCHANGED <<info, maxBlockSize, maxBufferSize, tmpInRoom, tmpOut, skip>>

(* The checksum of a stored block.                                         *)
GetBlockChecksum == \E k \in {FieldRest(BFSize)} : \E bytes \in {Stored(k)} :
  /\ At("GetBlockChecksum")
  /\ \/ /\ Len(bytes) < BFSize
        /\ store' = bytes /\ Stop(k, 1) /\ UNCHANGED <<stage, out>>
     \/ /\ Len(bytes) >= BFSize
        /\ store' = IF store = <<>> THEN store ELSE bytes
        /\ IF skip \/ BlockCrcMatches(laid, bytes, blockXxh)
           THEN stage' = "GetBlockHeader" /\ Again(k, 0) /\ UNCHANGED out
           ELSE Fail("blockChecksumInvalid") /\ UNCHANGED stage
  /\ UNCHANGED <<target, blockXxh, BlockState>>

(* The block decoder on a body of len bytes: history it has not got makes  *)
(* it fail, other history than it was made with gives other bytes, and a   *)
(* damaged body may do either.                                             *)
Decoded(body, cap) ==
  LET n == body.to - body.from
      history == [i \in 1..body.reach |-> body.base - body.reach + i]
      other == [i \in 1..n |-> 0]
  IN  IF body.kind # "body" THEN {}
      ELSE IF n > cap \/ body.reach > Len(dict) THEN {}
      ELSE IF body.sound /\ LastBytes(dict, body.reach) = history
           THEN {[i \in 1..n |-> body.from + i]} ELSE {other}
Undecodable(body, cap) == Decoded(body, cap) = {} \/ ~body.sound

(* decode_cblock: into the destination when it takes a whole block, else   *)
(* into tmp_out.                                                           *)
DecodeCBlock(block, k) == \E body \in {Recover(laid, SubSeq(block, 1, target - CrcSize)).item} :
  LET size == target - CrcSize
      direct == call.room >= maxBlockSize
      cap == IF direct THEN maxBlockSize ELSE Smaller(maxBlockSize, maxBufferSize)
      intact == ~info.blockChecksum \/ skip
                \/ BlockCrcMatches(laid, SubSeq(block, size + 1, Len(block)),
                                   SubSeq(block, 1, size)) IN
  /\ target' = size
  /\ \/ /\ ~intact
        /\ Fail("blockChecksumInvalid")
        /\ UNCHANGED <<stage, tmpOut, dict, xxh, remaining>>
     \/ /\ intact /\ Undecodable(body, cap)
        /\ Fail("decompressionFailed")
        /\ UNCHANGED <<stage, tmpOut, dict, xxh, remaining>>
     \/ /\ intact
        /\ \E data \in Decoded(body, cap) :
             /\ xxh' = Hashed(data) /\ remaining' = Left(Len(data))
             /\ IF direct
                THEN /\ out' = out \o data /\ KeepHistory(data)
                     /\ stage' = "GetBlockHeader"
                     /\ Again(k, Len(data))
                     /\ UNCHANGED tmpOut
                ELSE /\ tmpOut' = data /\ stage' = "FlushOut"
                     /\ Again(k, 0)
                     /\ UNCHANGED <<dict, out>>
  /\ UNCHANGED <<info, maxBlockSize, maxBufferSize, tmpInRoom, blockXxh, skip>>

GetCBlock ==
  /\ At("GetCBlock")
  /\ \/ /\ call.left < target
        /\ store' = <<>> /\ stage' = "StoreCBlock" /\ Again(0, 0)
        /\ UNCHANGED <<target, blockXxh, BlockState, out>>
     \/ call.left >= target /\ DecodeCBlock(Src(target), target) /\ UNCHANGED store

(* Slip: what is stored already is asked for again.                        *)
HintWholeBlock(stored) == target + CrcSize + BHSize
HintRestOfBlock(stored) == target - stored + CrcSize + BHSize

StoreCBlock == \E k \in {Wanted} : \E bytes \in {Stored(k)} :
  /\ At("StoreCBlock")
  /\ store' = bytes
  /\ \/ /\ Len(bytes) < target
        /\ Stop(k, HintRestOfBlock(Len(bytes)))
        /\ UNCHANGED <<stage, target, blockXxh, BlockState, out>>
     \/ Len(bytes) >= target /\ DecodeCBlock(bytes, k)

(* Slip: a block is handed over whole or not at all.                       *)
HandedWhole == IF call.room < Len(tmpOut) THEN 0 ELSE Len(tmpOut)
Handed == Smaller(Len(tmpOut), call.room)

FlushOut ==
  LET n == Handed IN
  /\ At("FlushOut")
  /\ out' = out \o SubSeq(tmpOut, 1, n) /\ KeepHistory(SubSeq(tmpOut, 1, n))
  /\ tmpOut' = SubSeq(tmpOut, n + 1, Len(tmpOut))
  /\ IF n = Len(tmpOut)
     THEN stage' = "GetBlockHeader" /\ Again(0, n)
     ELSE Stop(0, BHSize) /\ UNCHANGED stage
  /\ UNCHANGED <<info, remaining, maxBlockSize, maxBufferSize, tmpInRoom, store,
                 target, xxh, blockXxh, skip>>

-----------------------------------------------------------------------------
(* The end of a frame.                                                     *)

Untouched == <<info, maxBlockSize, maxBufferSize, tmpInRoom, tmpOut, xxh, blockXxh>>

CheckContentCrc(bytes, k) ==
  IF skip \/ ContentCrcMatches(laid, bytes, xxh) THEN Complete(k)
  ELSE Fail("contentChecksumInvalid") /\ UNCHANGED <<stage, dict, skip, remaining>>

GetSuffix ==
  /\ At("GetSuffix")
  /\ \/ /\ remaining # 0
        /\ Fail("frameSizeWrong") /\ UNCHANGED <<stage, dict, skip, remaining, store>>
     \/ remaining = 0 /\ ~info.contentChecksum /\ Complete(0) /\ UNCHANGED store
     \/ /\ remaining = 0 /\ info.contentChecksum /\ call.left < BFSize
        /\ store' = <<>> /\ stage' = "StoreSuffix" /\ Again(0, 0)
        /\ UNCHANGED <<dict, skip, remaining, out>>
     \/ /\ remaining = 0 /\ info.contentChecksum /\ call.left >= BFSize
        /\ CheckContentCrc(Src(BFSize), BFSize) /\ UNCHANGED store
  /\ UNCHANGED <<target, Untouched>>

StoreSuffix == \E k \in {FieldRest(BFSize)} : \E bytes \in {Stored(k)} :
  /\ At("StoreSuffix")
  /\ store' = bytes
  /\ \/ /\ Len(bytes) < BFSize
        /\ Stop(k, BFSize - Len(bytes))
        /\ UNCHANGED <<stage, dict, skip, remaining, out>>
     \/ Len(bytes) >= BFSize /\ CheckContentCrc(bytes, k)
  /\ UNCHANGED <<target, Untouched>>

-----------------------------------------------------------------------------
(* Skippable frames.                                                       *)

(* The size says how many bytes to skip; info.contentSize keeps it too.    *)
SFrameSize(bytes, k) ==
  LET l == Recover(laid, bytes).item IN
  /\ l.kind = "skippableSize"
  /\ target' = l.length /\ info' = [info EXCEPT !.contentSize = l.length]
  /\ stage' = "SkipSkippable"
  /\ Again(k, 0)

GetSFrameSize ==
  /\ At("GetSFrameSize")
  /\ \/ call.left >= Word /\ SFrameSize(Src(Word), Word) /\ UNCHANGED store
     \/ /\ call.left < Word
        /\ store' = <<0, 0, 0, 0>>      \* whatever header[..4] held
        /\ target' = 8 /\ stage' = "StoreSFrameSize" /\ Again(0, 0)
        /\ UNCHANGED info
  /\ UNCHANGED <<remaining, maxBlockSize, BufferState, out>>

StoreSFrameSize == \E k \in {Wanted} : \E bytes \in {Stored(k)} :
  /\ At("StoreSFrameSize")
  /\ store' = bytes
  /\ \/ /\ Len(bytes) < target
        /\ Stop(k, target - Len(bytes)) /\ UNCHANGED <<stage, target, info>>
     \/ Len(bytes) >= target /\ SFrameSize(SubSeq(bytes, Word + 1, Len(bytes)), k)
  /\ UNCHANGED <<remaining, maxBlockSize, BufferState, out>>

SkipSize == Smaller(target, call.left)

SkipSkippable ==
  LET k == SkipSize IN
  /\ At("SkipSkippable")
  /\ target' = target - k
  /\ IF target' = 0 THEN Complete(k)
     ELSE Stop(k, target') /\ UNCHANGED <<stage, dict, skip, remaining, out>>
  /\ UNCHANGED <<store, Untouched>>

-----------------------------------------------------------------------------
(* Calls.                                                                  *)

Idle == call.op = "none"

SkipAfter(asked) == skip \/ asked

(* LZ4F_decompress and LZ4F_decompress_usingDict: a client with a          *)
(* dictionary passes it to each call for a frame that needs it.            *)
Decompress(n, room, asked) ==
  /\ Idle /\ verdict = "open"
  /\ call' = [op |-> "decompress", left |-> n, room |-> room]
  /\ skip' = SkipAfter(asked) /\ lenient' = (lenient \/ asked)
  /\ dict' = IF /\ frame.dictionary
                /\ stage \in {"GetFrameHeader", "StoreFrameHeader", "Init"}
             THEN Dictionary ELSE dict
  /\ UNCHANGED <<stage, info, remaining, maxBlockSize, maxBufferSize, tmpInRoom, store,
                 target, tmpOut, xxh, blockXxh, res, hint, pos, out, verdict,
                 frame, opened, asks>>

(* LZ4F_getFrameInfo.  Before the header it needs the whole of it; in the  *)
(* middle of one it fails; after it, it runs a decompress call with        *)
(* nothing to read and nowhere to write, and without the dictionary.       *)
Ask == Idle /\ verdict = "open" /\ asks < MaxAsks /\ asks' = asks + 1

(* header_size, of the header the client is at.                            *)
HeaderSize == IF laid[1].item.kind = "header" THEN laid[1].item.size ELSE 2 * Word
KnowsHeaderSize(n) == n >= HeaderSizeMin - 2 /\ laid[1].item.kind # "unknown"

Refused(n) ==
  \/ stage = "StoreFrameHeader" /\ res' = "frameDecodingAlreadyStarted"
  \/ /\ stage = "GetFrameHeader" /\ n >= HeaderSizeMin - 2 /\ ~KnowsHeaderSize(n)
     /\ res' = "frameTypeUnknown"
  \/ /\ stage = "GetFrameHeader"
     /\ n < HeaderSizeMin - 2 \/ (KnowsHeaderSize(n) /\ n < HeaderSize)
     /\ res' = "frameHeaderIncomplete"

GetFrameInfoRefused(n) ==
  /\ Ask /\ Refused(n)
  /\ UNCHANGED <<dctx, call, hint, pos, out, verdict, frame, lenient, opened>>

GetFrameInfoHeader(n) ==
  /\ Ask /\ stage = "GetFrameHeader"
  /\ KnowsHeaderSize(n) /\ n >= HeaderSize
  /\ \/ /\ HeaderBad(Src(HeaderSize))
        /\ info' = NoInfo /\ res' = HeaderError(Src(HeaderSize)) /\ verdict' = "rejected"
        /\ UNCHANGED <<stage, remaining, maxBlockSize, store, target, pos, hint>>
     \/ /\ ~HeaderBad(Src(HeaderSize))
        /\ DecodeHeader(Src(HeaderSize), FALSE)
        /\ pos' = HeaderUsed(Src(HeaderSize)) /\ res' = "ok" /\ hint' = BHSize
        /\ UNCHANGED verdict
  /\ UNCHANGED <<BufferState, call, out, frame, lenient, opened>>

GetFrameInfoAfter ==
  /\ Ask /\ stage \notin {"GetFrameHeader", "StoreFrameHeader"}
  /\ call' = [op |-> "frameInfo", left |-> 0, room |-> 0]
  /\ UNCHANGED <<dctx, res, hint, pos, out, verdict, frame, lenient, opened>>

(* The client goes to another frame: after a complete one, or any time     *)
(* with a reset of the context.                                            *)
OpenFrame ==
  /\ Idle /\ opened < MaxFrames
  /\ opened' = opened + 1 /\ frame' \in Frames /\ pos' = 0
  /\ out' = <<>> /\ verdict' = "open" /\ lenient' = FALSE /\ asks' = 0
  /\ res' = "ok" /\ hint' = HeaderSizeMin
  /\ UNCHANGED call

NextFrame == OpenFrame /\ verdict = "complete" /\ UNCHANGED dctx

Reset ==
  /\ OpenFrame /\ verdict # "complete" /\ ResetDctx
  /\ UNCHANGED <<info, maxBlockSize, maxBufferSize, tmpInRoom, store, target, tmpOut,
                 xxh, blockXxh>>

-----------------------------------------------------------------------------
Init ==
  /\ stage = "GetFrameHeader" /\ info = NoInfo /\ remaining = 0
  /\ maxBlockSize = 0 /\ maxBufferSize = 0 /\ tmpInRoom = 0
  /\ store = <<>> /\ target = 0 /\ tmpOut = <<>> /\ dict = <<>>
  /\ xxh = <<>> /\ blockXxh = <<>> /\ skip = FALSE
  /\ call = NoCall /\ res = "ok" /\ hint = HeaderSizeMin
  /\ frame \in Frames /\ pos = 0
  /\ out = <<>> /\ verdict = "open" /\ lenient = FALSE
  /\ opened = 1 /\ asks = 0

Pass ==
  \/ GetFrameHeader \/ StoreFrameHeader \/ InitFrame
  \/ GetBlockHeader \/ StoreBlockHeader
  \/ CopyDirect \/ GetBlockChecksum \/ GetCBlock \/ StoreCBlock \/ FlushOut
  \/ GetSuffix \/ StoreSuffix
  \/ GetSFrameSize \/ StoreSFrameSize \/ SkipSkippable

(* The client stops: its last frame has a verdict.                         *)
Done == Idle /\ verdict # "open" /\ opened = MaxFrames /\ UNCHANGED vars

Next ==
  \/ Pass
  \/ \E n \in Pieces :
       \/ \E room \in Rooms, asked \in BOOLEAN : Decompress(n, room, asked)
       \/ GetFrameInfoRefused(n) \/ GetFrameInfoHeader(n)
  \/ GetFrameInfoAfter
  \/ NextFrame \/ Reset
  \/ Done

(* A call that offers both source and room.                                *)
Feed == \E n \in Pieces \ {0}, room \in Rooms \ {0}, asked \in BOOLEAN :
          Decompress(n, room, asked)

(* A call, once made, runs to its end; and a client that is still without  *)
(* a verdict goes on making calls that offer something, whatever empty     *)
(* calls it makes in between.                                              *)
Fairness == WF_vars(Pass) /\ SF_vars(Feed)

Spec == Init /\ [][Next]_vars /\ Fairness

-----------------------------------------------------------------------------
(* Properties.                                                             *)

Stages == {"GetFrameHeader", "StoreFrameHeader", "Init", "GetBlockHeader",
           "StoreBlockHeader", "CopyDirect", "GetBlockChecksum", "GetCBlock",
           "StoreCBlock", "FlushOut", "GetSuffix", "StoreSuffix", "GetSFrameSize",
           "StoreSFrameSize", "SkipSkippable"}

Infos == [blockSizeID : Nat, linked : BOOLEAN, contentChecksum : BOOLEAN,
          blockChecksum : BOOLEAN, contentSize : Nat, dictID : BOOLEAN]

(* What the items of the frames are: each with the fields of its kind, a   *)
(* header of one of the lengths a header can have.                         *)
ItemTyped(item) ==
  /\ item.size \in Nat
  /\ item.kind = "header" => item.info \in Infos /\ item.size \in HeaderSizeMin..HeaderSizeMax
  /\ item.kind \in {"blockHeader", "skippableSize"} => item.length \in Nat
  /\ item.kind = "body" => item.from \in Nat /\ item.to \in Nat /\ item.from <= item.to

FramesAssumption ==
  \A f \in Frames :
    /\ Len(f.laid) \in Nat \ {0}
    /\ \A i \in 1..Len(f.laid) : f.laid[i].at \in Nat /\ ItemTyped(f.laid[i].item)

(* How the items of the frames follow each other.  Before(f, i): how much  *)
(* content lies before the block header that is item i.                    *)
IsEndMark(bh) == bh.length = 0 /\ ~bh.stored
Before(f, i) ==
  IF i = 2 THEN 0
  ELSE f.laid[IF f.laid[1].item.info.blockChecksum THEN i - 2 ELSE i - 1].item.to

InPlace(f) ==
  /\ f.laid[1].at = 0
  /\ \A i, j \in 1..Len(f.laid) : i < j =>
       /\ f.laid[i].at + f.laid[i].item.size <= f.laid[j].at
       /\ j = i + 1 => f.laid[j].at = f.laid[i].at + f.laid[i].item.size

BlockFollows(f, i) ==
  LET info_ == f.laid[1].item.info
      bh == f.laid[i].item
      body == f.laid[i + 1].item
      crc == f.laid[i + 2].item
      next == IF info_.blockChecksum THEN i + 3 ELSE i + 2 IN
  /\ next <= Len(f.laid) /\ f.laid[next].item.kind = "blockHeader"
  /\ body.kind = "body" /\ body.size = bh.length
  /\ bh.stored => body.to - body.from = bh.length
  /\ body.from = Before(f, i) /\ body.to <= f.content
  /\ body.reach \in Nat /\ body.base = IF info_.linked THEN body.from ELSE 0
  /\ info_.blockChecksum => /\ crc.kind = "blockCrc" /\ crc.size = BFSize
                            /\ crc.covers = bh.length /\ crc.sound = body.sound

EndFollows(f, i) ==
  LET crc == f.laid[Len(f.laid)].item IN
  /\ Before(f, i) = f.content
  /\ IF f.laid[1].item.info.contentChecksum
     THEN Len(f.laid) = i + 1 /\ crc.kind = "contentCrc" /\ crc.size = BFSize /\ crc.covers = f.content
     ELSE Len(f.laid) = i

DataFollows(f) ==
  /\ Len(f.laid) >= 2 /\ f.laid[2].item.kind = "blockHeader"
  /\ \A i \in 2..Len(f.laid) : LET item == f.laid[i].item IN
       /\ item.kind = "blockHeader" =>
            item.size = BHSize /\ (IF IsEndMark(item) THEN EndFollows(f, i) ELSE BlockFollows(f, i))
       /\ item.kind = "body" =>
            /\ i > 2 /\ f.laid[i - 1].item.kind = "blockHeader"
            /\ ~IsEndMark(f.laid[i - 1].item)

(* What a fault says of the items, and no fault.                           *)
FaultShows(f) ==
  LET header == f.laid[1].item
      max == GetBlockSize(header.info.blockSizeID)
      bodies == { i \in 2..Len(f.laid) : f.laid[i].item.kind = "body" }
      blocks == { i \in 2..Len(f.laid) : f.laid[i].item.kind = "blockHeader" }
      seed == IF f.dictionary THEN DictLength ELSE 0 IN
  /\ f.fault \in {"none", "header", "block", "size", "body"}
  /\ f.fault = "header" <=> ~header.sound
  /\ f.fault = "size" => header.info.contentSize \notin {0, f.content}
  /\ f.fault = "block" => \E i \in blocks : f.laid[i].item.length > max
  /\ f.fault = "body" <=> \E i \in bodies : ~f.laid[i].item.sound
  /\ f.fault = "body" =>
       /\ header.info.blockChecksum \/ header.info.contentChecksum
       /\ \E i \in bodies : ~f.laid[i].item.sound /\ f.laid[i].item.from < f.laid[i].item.to
  /\ f.guarded =>
       /\ header.info.blockChecksum
       /\ \A i \in bodies : f.laid[i - 1].item.stored => f.laid[i].item.sound
  /\ f.fault = "none" =>
       /\ header.info.contentSize \in {0, f.content}
       /\ \A i \in blocks : f.laid[i].item.length <= max
       /\ \A i \in bodies : LET body == f.laid[i].item IN
            /\ body.to - body.from <= max
            /\ body.reach <= Smaller(K64, seed + body.base)

(* A frame is one some compressor wrote or a skippable one, or what one of *)
(* the faults has made of it.                                              *)
WellFormed(f) ==
  /\ InPlace(f) /\ f.content \in Nat
  /\ \/ f.laid[1].item.kind = "unknown" /\ f.fault = "type" /\ f.laid[1].item.size >= HeaderSizeMin
     \/ /\ f.laid[1].item.kind = "skippableMagic" /\ f.fault = "none" /\ f.content = 0
        /\ Len(f.laid) = 3 /\ f.laid[2].item.kind = "skippableSize"
        /\ f.laid[1].item.size = Word /\ f.laid[2].item.size = Word
        /\ f.laid[3].item.size = f.laid[2].item.length
     \/ f.laid[1].item.kind = "header" /\ DataFollows(f) /\ FaultShows(f)

FramesWellFormed == \A f \in Frames : WellFormed(f)

(* A client that has a dictionary asks about a frame at most once: a       *)
(* second question would run the pass Init without it.                     *)
AskedOnce == \A f \in Frames : f.dictionary => MaxAsks <= 1

(* The buffers kept from earlier frames, and grown only when a frame needs *)
(* more than was asked for then (frame.rs 1142-1149), are large enough for *)
(* what is being gathered in them.                                         *)
BuffersFit ==
  /\ stage = "StoreCBlock" => target <= tmpInRoom
  /\ stage \in {"StoreBlockHeader", "StoreSuffix"} => tmpInRoom >= BHSize
  /\ stage \in {"StoreFrameHeader", "StoreSFrameSize"} => target <= HeaderSizeMax
  /\ stage \notin {"GetFrameHeader", "StoreFrameHeader", "Init", "GetSFrameSize",
                   "StoreSFrameSize", "SkipSkippable"} => maxBlockSize <= maxBufferSize

(* Every variable has its type, and the buffers fit.                       *)
TypeOK ==
  /\ stage \in Stages /\ info \in Infos /\ remaining \in Int
  /\ maxBlockSize \in Nat /\ maxBufferSize \in Nat /\ tmpInRoom \in Nat
  /\ store \in Seq(Nat) /\ target \in Nat /\ tmpOut \in Seq(Nat)
  /\ dict \in Seq(Int) /\ xxh \in Seq(Nat) /\ blockXxh \in Seq(Nat)
  /\ skip \in BOOLEAN /\ lenient \in BOOLEAN
  /\ call \in [op : {"none", "decompress", "frameInfo"}, left : Nat, room : Nat]
  /\ hint \in Nat /\ frame \in Frames /\ pos \in Nat
  /\ out \in Seq(Nat) /\ verdict \in {"open", "complete", "rejected"}
  /\ opened \in 1..MaxFrames /\ asks \in 0..MaxAsks
  /\ BuffersFit

(* What the decoder promises its client, as a specification of its own     *)
(* (FrameDelivery): content in order, and a verdict on each frame that     *)
(* depends neither on how the frame was cut into calls nor on what was     *)
(* decoded before it.                                                      *)
Delivery == INSTANCE FrameDelivery
              WITH frame <- frame, out <- out, verdict <- verdict, lenient <- lenient,
                   Frames <- Frames
DeliversInOrder == Delivery!Spec

(* A call never consumes bytes beyond the frame, whatever was offered, and *)
(* its hint is 0 exactly when the frame is complete; otherwise the bytes   *)
(* it asks for are all the frame's own, so that a client reading just them *)
(* never waits for bytes that do not come.  The exception is a block in    *)
(* pieces under a checksum: StoreCBlock counts the checksum twice, and     *)
(* what it asks for may lie 4 bytes beyond the frame.                      *)
StaysInFrame ==
  /\ pos <= LengthOf(laid)
  /\ Idle /\ res = "ok" /\ verdict # "rejected" =>
       /\ hint = 0 <=> verdict = "complete"
       /\ frame.fault = "none" /\ laid[1].item.kind = "header"
            => pos + hint <= LengthOf(laid) + (IF stage = "StoreCBlock" THEN CrcSize ELSE 0)

(* From its first block on, a frame is decoded against the dictionary and  *)
(* the content delivered so far: as much of their end as the window holds  *)
(* (frame.rs 1083-1090, 1554-1566).  A client that asks about a frame      *)
(* twice before it decodes any of it is excepted: the second getFrameInfo  *)
(* runs the pass Init, after which a dictionary is not taken (1041-1046).  *)
HistorySeeded ==
  LET seed == IF frame.dictionary THEN Dictionary ELSE <<>>
      past == IF info.linked THEN seed \o out ELSE seed IN
  /\ stage \in {"CopyDirect", "GetCBlock", "StoreCBlock", "FlushOut"} /\ verdict = "open"
  /\ frame.dictionary => asks <= 1
  =>
    /\ Len(dict) >= Smaller(Len(past), K64)
    /\ LastBytes(past, Len(dict)) = dict
=============================================================================
