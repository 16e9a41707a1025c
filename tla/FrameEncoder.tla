---------------------------- MODULE FrameEncoder ----------------------------
(***************************************************************************)
(* The frame compressor of src/frame.rs: the context Cctx and the calls    *)
(* begin, update, flush and end that write one LZ4 frame block by block.   *)
(*                                                                         *)
(* A call may emit several blocks.  Its loop is modelled with one step per *)
(* phase of the code: variable call says where the running call is, and    *)
(* no other call starts before it returns (the library has no threads).    *)
(*                                                                         *)
(* Bytes are <<number, mode>>: the position of the byte in the data fed to *)
(* the frame, and the block mode of the call that fed it.  Dictionary      *)
(* bytes have numbers <= 0.  How well a block compresses is a choice: it   *)
(* takes c bytes with 1 <= c <= its size, and c equal to the size stands   *)
(* for a block stored verbatim.                                            *)
(***************************************************************************)
EXTENDS Integers, Sequences

CONSTANTS
  K64,          \* 64 KB: the smallest block size and the history window
  HashUnit,     \* sizeof(reg_t): load_dict drops a shorter dictionary
  Modes,        \* the block modes callers use: "compressed", "uncompressed"
  PrefSet,      \* the preferences callers pass to begin
  DictLengths,  \* lengths of the dictionaries passed to begin, 0 for none
  SrcSizes,     \* sizes of the pieces passed to update
  Caps,         \* destination capacities
  MaxFed        \* bound: bytes accepted by one frame

Prefs == [blockSizeID : Nat, linked : BOOLEAN, autoFlush : BOOLEAN,
          contentChecksum : BOOLEAN, blockChecksum : BOOLEAN,
          contentSize : Nat]

ASSUME K64Positive == K64 \in Nat \ {0}
ASSUME HashUnitPositive == HashUnit \in Nat \ {0}
ASSUME ModesKnown == Modes \subseteq {"compressed", "uncompressed"}
ASSUME PrefSetTyped == PrefSet \subseteq Prefs
ASSUME SizesNatural == /\ DictLengths \subseteq Nat /\ SrcSizes \subseteq Nat
                       /\ Caps \subseteq Nat /\ MaxFed \in Nat

VARIABLES
  stage,          \* 0 uninitialized, 1 header written and accepting input
  prefs,
  maxBlockSize,
  tmp,            \* tmp[..tmp_in_size]: input not yet forming a whole block
  totalInSize,
  blockMode,      \* block_compress_mode
  dict,           \* history the codec is given with the next block
  frameDict,      \* the frame's dictionary
  dictSize,       \* stream.dict_size: how much history the codec believes in
  xxh,            \* bytes fed to the content checksum
  call,           \* the running call
  res,            \* what the last call returned
  header,         \* ghost: preferences the current frame's header announces
  content,        \* ghost: bytes in the blocks of the current frame
  sealed,         \* ghost: end returned the size of a complete frame
  clean           \* ghost: no failed call has damaged the current frame

cctx == <<stage, prefs, maxBlockSize, tmp, totalInSize, blockMode, dict,
          frameDict, dictSize, xxh>>
vars == <<cctx, call, res, header, content, sealed, clean>>

-----------------------------------------------------------------------------
(* Sizes and bounds.                                                       *)

Smaller(a, b) == IF a < b THEN a ELSE b

HeaderSizeMax == 19
BHSize == 4
BFSize == 4
BlockSizeIdDefault == 4

(* get_block_size, with the 64 KB compress_bound_internal falls back to    *)
(* when the identifier is not one of the four valid ones.                  *)
ValidBlockSizeId(id) == id \in 4..7
GetBlockSize(id) == IF id = 5 THEN 4 * K64 ELSE IF id = 6 THEN 16 * K64
                    ELSE IF id = 7 THEN 64 * K64 ELSE K64

CrcSize(p) == IF p.blockChecksum THEN BFSize ELSE 0

(* Slip: the blocks' checksums are left out of the bound.                  *)
BoundWithoutBlockCrc(srcSize, p, alreadyBuffered) ==
  LET blockSize == GetBlockSize(p.blockSizeID)
      total     == srcSize + Smaller(alreadyBuffered, blockSize - 1)
      last      == IF p.autoFlush \/ srcSize = 0 THEN total % blockSize ELSE 0
      nbFull    == total \div blockSize
  IN  BHSize * (nbFull + (IF last > 0 THEN 1 ELSE 0)) + blockSize * nbFull + last
        + BHSize + (IF p.contentChecksum THEN BFSize ELSE 0)

(* What update demands of its destination: every block the call may emit,  *)
(* stored verbatim, and room to end the frame.                             *)
CompressBoundInternal(srcSize, p, alreadyBuffered) ==
  LET blockSize == GetBlockSize(p.blockSizeID)
      buffered  == Smaller(alreadyBuffered, blockSize - 1)
      nbFull    == (srcSize + buffered) \div blockSize
      partial   == (srcSize + buffered) % blockSize
      last      == IF p.autoFlush \/ srcSize = 0 THEN partial ELSE 0
      nbBlocks  == nbFull + (IF last > 0 THEN 1 ELSE 0)
  IN  (BHSize + CrcSize(p)) * nbBlocks + blockSize * nbFull + last
        + BHSize + (IF p.contentChecksum THEN BFSize ELSE 0)

(* Slip: no allowance for bytes an earlier update left in the buffer.      *)
BoundOfEmptyBuffer(srcSize, p) == CompressBoundInternal(srcSize, p, 0)

(* LZ4F_compressBound: what callers are told to allocate for any update of *)
(* srcSize bytes.  usize::MAX buffered bytes are clamped to a full buffer. *)
CompressBound(srcSize, p) ==
  CompressBoundInternal(srcSize, p,
    IF p.autoFlush THEN 0 ELSE GetBlockSize(p.blockSizeID))

-----------------------------------------------------------------------------
(* History.                                                                *)

LastBytes(s, n) == IF Len(s) <= n THEN s ELSE SubSeq(s, Len(s) - n + 1, Len(s))

(* A dictionary of d bytes, and what stream.load_dict keeps of it.         *)
Dictionary(d) == [i \in 1..d |-> <<i - d, "dict">>]
KeptDict(d) == IF d < HashUnit THEN <<>> ELSE LastBytes(Dictionary(d), K64)

(* compress_continue grows dict_size by the block before it parses it; an  *)
(* uncompressed block never reaches the codec.                             *)
CodecDictSize(block, mode) ==
  IF mode = "uncompressed" THEN dictSize
  ELSE IF prefs.linked THEN dictSize + Len(block)
  ELSE IF frameDict = <<>> THEN dictSize
  ELSE Len(frameDict) + Len(block)

(* set_history: keep the last 64 KB and tell the codec how much survived.  *)
DictAfter(block) == IF prefs.linked THEN LastBytes(dict \o block, K64) ELSE dict
(* Slips: set_history does not tell the codec, or takes a whole window off *)
(* dict_size whether or not the window was full.                           *)
DictSizeUnsaved(block, mode) == CodecDictSize(block, mode)
DictSizeOverdropped(block, mode) == CodecDictSize(block, mode) - K64

DictSizeAfter(block, mode) ==
  IF prefs.linked
  THEN Smaller(Len(DictAfter(block)), CodecDictSize(block, mode))
  ELSE CodecDictSize(block, mode)

(* make_block and set_history: emit block in c bytes at call.at.           *)
EmitBlock(block, mode, c) ==
  /\ c \in 1..Len(block)
  /\ mode = "uncompressed" => c = Len(block)
  /\ content' = content \o block
  /\ dict' = DictAfter(block)
  /\ dictSize' = DictSizeAfter(block, mode)

BlockEnd(c) == call.at + BHSize + c + CrcSize(prefs)

-----------------------------------------------------------------------------
(* Calls.                                                                  *)

Idle == [op |-> "none", phase |-> "idle", src |-> <<>>, fed |-> <<>>,
         mode |-> "compressed", cap |-> 0, at |-> 0]

NoPrefs == [blockSizeID |-> BlockSizeIdDefault, linked |-> TRUE,
            autoFlush |-> FALSE, contentChecksum |-> FALSE,
            blockChecksum |-> FALSE, contentSize |-> 0]

Init ==
  /\ stage = 0 /\ prefs = NoPrefs /\ maxBlockSize = 0
  /\ tmp = <<>> /\ totalInSize = 0 /\ blockMode = "compressed"
  /\ dict = <<>> /\ frameDict = <<>> /\ dictSize = 0 /\ xxh = <<>>
  /\ call = Idle /\ res = "ok"
  /\ header = NoPrefs /\ content = <<>> /\ sealed = FALSE /\ clean = FALSE

(* The bound check of slices: a write past the end of dst aborts, so a     *)
(* call that overran its destination takes no further step.                *)
Ready == call.op = "none"
InPhase(phase) == call.phase = phase /\ call.at <= call.cap

Return(r) == call' = Idle /\ res' = r

(* A call refused before it changed anything.                              *)
Reject(r) == Ready /\ Return(r) /\ UNCHANGED <<cctx, header, content, sealed, clean>>

(* LZ4F_compressBegin: dst too small, an unknown block size (preferences   *)
(* are already overwritten then), or a frame header.                       *)
BeginTooSmall(cap) == cap < HeaderSizeMax /\ Reject("dstMaxSizeTooSmall")

WithDefaultSize(p) ==
  IF p.blockSizeID = 0 THEN [p EXCEPT !.blockSizeID = BlockSizeIdDefault] ELSE p

BeginBadBlockSize(p, cap) ==
  /\ Ready /\ cap >= HeaderSizeMax
  /\ ~ValidBlockSizeId(WithDefaultSize(p).blockSizeID)
  /\ prefs' = p
  /\ clean' = FALSE
  /\ Return("maxBlockSizeInvalid")
  /\ UNCHANGED <<stage, maxBlockSize, tmp, totalInSize, blockMode, dict,
                 frameDict, dictSize, xxh, header, content, sealed>>

Begin(p, d, cap) ==
  /\ Ready /\ cap >= HeaderSizeMax
  /\ ValidBlockSizeId(WithDefaultSize(p).blockSizeID)
  /\ prefs' = WithDefaultSize(p)
  /\ maxBlockSize' = GetBlockSize(WithDefaultSize(p).blockSizeID)
  /\ tmp' = <<>> /\ totalInSize' = 0 /\ xxh' = <<>>
  /\ blockMode' = "compressed"
  /\ frameDict' = KeptDict(d) /\ dict' = KeptDict(d) /\ dictSize' = Len(KeptDict(d))
  /\ stage' = 1
  /\ header' = WithDefaultSize(p) /\ content' = <<>> /\ sealed' = FALSE /\ clean' = TRUE
  /\ Return("ok")

(* LZ4F_compressUpdate and LZ4F_uncompressedUpdate.                        *)
UpdateUninitialized == stage # 1 /\ Reject("stateUninitialized")

UpdateTooSmall(n, mode, cap) ==
  /\ stage = 1
  /\ \/ cap < CompressBoundInternal(n, prefs, Len(tmp))
     \/ mode = "uncompressed" /\ cap < n
  /\ Reject("dstMaxSizeTooSmall")

(* Slip: bytes of two modes share the staging buffer.                      *)
NeverFlushFirst(mode) == "fill"
(* Switching the block mode flushes what is buffered first.                *)
FirstPhase(mode) == IF blockMode # mode THEN "flush" ELSE "fill"

UpdateCall(n, mode, cap) ==
  LET src == [i \in 1..n |-> <<totalInSize + i, mode>>] IN
  /\ Ready /\ stage = 1
  /\ totalInSize + n <= MaxFed
  /\ cap >= CompressBoundInternal(n, prefs, Len(tmp))
  /\ mode = "uncompressed" => cap >= n
  /\ call' = [op |-> "update", phase |-> FirstPhase(mode),
              src |-> src, fed |-> src, mode |-> mode, cap |-> cap, at |-> 0]
  /\ UNCHANGED <<cctx, res, header, content, sealed, clean>>

FlushCall(cap) ==
  /\ Ready
  /\ call' = [Idle EXCEPT !.op = "flush", !.phase = "flush", !.cap = cap]
  /\ UNCHANGED <<cctx, res, header, content, sealed, clean>>

EndCall(cap) ==
  /\ Ready
  /\ call' = [Idle EXCEPT !.op = "end", !.phase = "flush", !.cap = cap]
  /\ UNCHANGED <<cctx, res, header, content, sealed, clean>>

-----------------------------------------------------------------------------
(* The body of a call.                                                     *)

(* Slip: an update that flushed goes back to flushing.                     *)
FlushAgain == IF call.op = "update" THEN "flush" ELSE "mark"
(* flush, on its own or at the start of end and of an update that changes  *)
(* the block mode: what follows it depends on who called it.               *)
PhaseAfterFlush == IF call.op = "update" THEN "fill" ELSE "mark"

AfterFlush(at) ==
  /\ blockMode' = IF call.op = "update" THEN call.mode ELSE blockMode
  /\ IF call.op = "flush" THEN Return("ok")
     ELSE /\ call' = [call EXCEPT !.at = at, !.phase = PhaseAfterFlush]
          /\ UNCHANGED res

FlushNothing ==
  /\ InPhase("flush") /\ tmp = <<>>
  /\ AfterFlush(0)
  /\ UNCHANGED <<stage, prefs, maxBlockSize, tmp, totalInSize, dict, frameDict,
                 dictSize, xxh, header, content, sealed, clean>>

(* flush tests the stage as well, after the buffer: a buffer with bytes in *)
(* it belongs to an open frame (Buffer, in FrameEncoder_proofs), so that   *)
(* test never fails.                                                       *)
FlushTooSmall ==
  /\ InPhase("flush") /\ tmp # <<>>
  /\ call.cap < Len(tmp) + BHSize + BFSize
  /\ Return("dstMaxSizeTooSmall")
  /\ UNCHANGED <<cctx, header, content, sealed, clean>>

FlushBlock ==
  /\ InPhase("flush") /\ tmp # <<>>
  /\ call.cap >= Len(tmp) + BHSize + BFSize
  /\ \E c \in 1..Len(tmp) : EmitBlock(tmp, blockMode, c) /\ AfterFlush(BlockEnd(c))
  /\ tmp' = <<>>
  /\ UNCHANGED <<stage, prefs, maxBlockSize, totalInSize, frameDict, xxh,
                 header, sealed, clean>>

(* update: complete a partially filled buffer, or find it empty.           *)
(* Slip: a buffer just filled waits for the next call.                     *)
StaysBelowOrFull == Len(tmp) + Len(call.src) <= maxBlockSize
StaysBelowBlock == Len(tmp) + Len(call.src) < maxBlockSize

(* Slip: the last byte taken is taken again.                               *)
UnreadRepeatingOne(n) == SubSeq(call.src, n, Len(call.src))
(* What is left of src after its first n bytes.                            *)
Unread(n) == SubSeq(call.src, n + 1, Len(call.src))

FillNothing ==
  /\ InPhase("fill") /\ tmp = <<>>
  /\ call' = [call EXCEPT !.phase = "blocks"]
  /\ UNCHANGED <<cctx, res, header, content, sealed, clean>>

FillPartly ==
  /\ InPhase("fill") /\ tmp # <<>>
  /\ StaysBelowBlock
  /\ tmp' = tmp \o call.src
  /\ call' = [call EXCEPT !.phase = "blocks", !.src = <<>>]
  /\ UNCHANGED <<stage, prefs, maxBlockSize, totalInSize, blockMode, dict,
                 frameDict, dictSize, xxh, res, header, content, sealed, clean>>

FillBlock ==
  LET sizeToCopy == maxBlockSize - Len(tmp)
      block      == tmp \o SubSeq(call.src, 1, sizeToCopy)
  IN
  /\ InPhase("fill") /\ tmp # <<>>
  /\ ~StaysBelowBlock
  /\ tmp' = <<>>
  /\ \E c \in 1..Len(block) :
       /\ EmitBlock(block, call.mode, c)
       /\ call' = [call EXCEPT !.phase = "blocks", !.at = BlockEnd(c),
                               !.src = Unread(sizeToCopy)]
  /\ UNCHANGED <<stage, prefs, maxBlockSize, totalInSize, blockMode, frameDict,
                 xxh, res, header, sealed, clean>>

(* update: a whole block straight from src, or the short tail of an        *)
(* autoFlush frame.                                                        *)
TakeFromSrc(n) ==
  LET block == SubSeq(call.src, 1, n) IN
  /\ \E c \in 1..n :
       /\ EmitBlock(block, call.mode, c)
       /\ call' = [call EXCEPT !.at = BlockEnd(c), !.src = Unread(n)]
  /\ UNCHANGED <<stage, prefs, maxBlockSize, tmp, totalInSize, blockMode,
                 frameDict, xxh, res, header, sealed, clean>>

WholeBlock == InPhase("blocks") /\ Len(call.src) >= maxBlockSize /\ TakeFromSrc(maxBlockSize)

AutoFlushTail ==
  /\ InPhase("blocks") /\ prefs.autoFlush
  /\ Len(call.src) \in 1..(maxBlockSize - 1)
  /\ TakeFromSrc(Len(call.src))

(* Slip: the checksum covers only what was left over.                      *)
HashedLeftover == IF prefs.contentChecksum THEN xxh \o call.src ELSE xxh
(* update: buffer what is left, hash the whole piece, return.              *)
Hashed == IF prefs.contentChecksum THEN xxh \o call.fed ELSE xxh

UpdateReturn ==
  /\ InPhase("blocks") /\ Len(call.src) < maxBlockSize
  /\ prefs.autoFlush => call.src = <<>>
  /\ tmp' = IF call.src = <<>> THEN tmp ELSE call.src
  /\ xxh' = Hashed
  /\ totalInSize' = totalInSize + Len(call.fed)
  /\ Return("ok")
  /\ UNCHANGED <<stage, prefs, maxBlockSize, blockMode, dict, frameDict,
                 dictSize, header, content, sealed, clean>>

(* end: the end mark and the content checksum.  A block just flushed is    *)
(* lost to the caller when there is no room for them, or when the declared *)
(* content size turns out wrong.                                           *)
EndRoom == BHSize + (IF prefs.contentChecksum THEN BFSize ELSE 0)

EndTooSmall ==
  /\ InPhase("mark") /\ call.cap - call.at < EndRoom
  /\ clean' = (clean /\ call.at = 0)
  /\ Return("dstMaxSizeTooSmall")
  /\ UNCHANGED <<cctx, header, content, sealed>>

EndMark ==
  LET sizeWrong == prefs.contentSize # 0 /\ prefs.contentSize # totalInSize IN
  /\ InPhase("mark") /\ call.cap - call.at >= EndRoom
  /\ stage' = 0
  /\ sealed' = (stage = 1 /\ ~sizeWrong)
  /\ Return(IF sizeWrong THEN "frameSizeWrong" ELSE "ok")
  /\ UNCHANGED <<prefs, maxBlockSize, tmp, totalInSize, blockMode, dict,
                 frameDict, dictSize, xxh, header, content, clean>>

-----------------------------------------------------------------------------

NewCall ==
  \/ \E cap \in Caps :
       \/ BeginTooSmall(cap) \/ FlushCall(cap) \/ EndCall(cap)
       \/ \E p \in PrefSet : \/ BeginBadBlockSize(p, cap)
                             \/ \E d \in DictLengths : Begin(p, d, cap)
       \/ \E n \in SrcSizes, m \in Modes : UpdateTooSmall(n, m, cap) \/ UpdateCall(n, m, cap)
  \/ UpdateUninitialized

Step ==
  \/ FlushNothing \/ FlushTooSmall \/ FlushBlock
  \/ FillNothing \/ FillPartly \/ FillBlock
  \/ WholeBlock \/ AutoFlushTail \/ UpdateReturn
  \/ EndTooSmall \/ EndMark

Next == NewCall \/ Step

(* A call runs to its end on the thread that made it.                      *)
Spec == Init /\ [][Next]_vars /\ WF_vars(Step)

-----------------------------------------------------------------------------
(* Properties.                                                             *)

Byte == Int \X {"compressed", "uncompressed", "dict"}

Call == [op : {"none", "update", "flush", "end"},
         phase : {"idle", "flush", "fill", "blocks", "mark"},
         src : Seq(Byte), fed : Seq(Byte),
         mode : {"compressed", "uncompressed"}, cap : Nat, at : Nat]

TypeOK ==
  /\ stage \in {0, 1} /\ prefs \in Prefs /\ maxBlockSize \in Nat
  /\ tmp \in Seq(Byte) /\ totalInSize \in Nat
  /\ blockMode \in {"compressed", "uncompressed"}
  /\ dict \in Seq(Byte) /\ frameDict \in Seq(Byte) /\ dictSize \in Nat
  /\ xxh \in Seq(Byte)
  /\ call \in Call
  /\ res \in {"ok", "dstMaxSizeTooSmall", "stateUninitialized",
              "maxBlockSizeInvalid", "frameSizeWrong"}
  /\ header \in Prefs /\ content \in Seq(Byte)
  /\ sealed \in BOOLEAN /\ clean \in BOOLEAN

(* No call writes past the destination it was given: the bound update      *)
(* checks once, before its loop, covers every block the loop emits, and    *)
(* the checks of flush and end cover what they emit (frame.rs:648, 727,    *)
(* 746, 753).                                                              *)
CapacityRespected == clean => call.at <= call.cap

(* Nothing fed to a frame is lost, repeated or reordered: emitted blocks,  *)
(* then the staging buffer, then the unread rest of the running update are *)
(* the bytes fed so far, in order.                                         *)
InOrder ==
  clean =>
    /\ \A i \in 1..Len(content) : content[i][1] = i
    /\ \A i \in 1..Len(tmp) : tmp[i][1] = Len(content) + i
    /\ \A i \in 1..Len(call.src) : call.src[i][1] = Len(content) + Len(tmp) + i
    /\ Len(content) + Len(tmp) + Len(call.src) = totalInSize + Len(call.fed)

(* The frame end reports as complete holds every byte update accepted, its *)
(* checksum covers exactly those bytes, and a size its header declares is  *)
(* the size it has.                                                        *)
SealedComplete ==
  sealed /\ clean =>
    /\ Len(content) = totalInSize /\ tmp = <<>>
    /\ header.contentChecksum => xxh = content
    /\ header.contentSize # 0 => Len(content) = header.contentSize

(* What the codec takes for the last dictSize bytes of history really is   *)
(* the end of what a decoder will have produced, so every distance the     *)
(* encoder measures means the same byte to the decoder (frame.rs:630-635). *)
HistoryAligned ==
  stage = 1 /\ prefs.linked /\ clean =>
    LET decoded == frameDict \o content IN
    /\ dictSize <= Len(dict)
    /\ \A d \in 1..dictSize : /\ d <= Len(decoded)
                              /\ dict[dictSize - d + 1] = decoded[Len(decoded) - d + 1]

(* Blocks are made by the rules the frame's header announced.              *)
HeaderHonoured == stage = 1 /\ clean => prefs = header /\ Len(tmp) < maxBlockSize

(* A destination of compressBound(n) bytes is never refused, whatever the  *)
(* frame has buffered (frame.rs:252-262): in particular a frame with       *)
(* autoFlush, for which compressBound counts no buffered byte, has none.   *)
BoundAccepted ==
  stage = 1 /\ clean /\ Ready =>
    \A n \in SrcSizes : CompressBoundInternal(n, prefs, Len(tmp)) <= CompressBound(n, prefs)

(* A block holds bytes of one call mode only (frame.rs:657-658), and never *)
(* more of them than the header's block size.                              *)
BlockUnmixed ==
  clean /\ Len(content') > Len(content) =>
    /\ \E m \in {"compressed", "uncompressed"} :
         \A i \in (Len(content) + 1)..Len(content') : content'[i][2] = m
    /\ Len(content') - Len(content) <= GetBlockSize(header.blockSizeID)
BlocksUnmixed == [][BlockUnmixed]_vars

(* Every call returns: each pass of update's loops consumes input.         *)
CallReturns == (call.op # "none") ~> (call.op = "none")
=============================================================================
