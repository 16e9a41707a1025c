-------------------------- MODULE FrameDecoder_proofs --------------------------
(***************************************************************************)
(* Proofs about the frame decompressor: its variables have their types,    *)
(* the buffers it keeps from frame to frame are large enough for what is   *)
(* gathered in them, and a block is decoded against the dictionary and the *)
(* content before it.                                                      *)
(***************************************************************************)
EXTENDS FrameDecoder, SequenceTheorems, TLAPS

-----------------------------------------------------------------------------
(* The inductive invariant of the buffers.                                 *)

BlockSizes == {K64, 4 * K64, 16 * K64, 64 * K64}
HeaderStages == {"GetFrameHeader", "StoreFrameHeader", "GetSFrameSize",
                 "StoreSFrameSize", "SkipSkippable"}

(* Both buffers were allocated together, for a frame of some block size.   *)
(* The sizes differ by more than the window of a linked frame, so that a   *)
(* larger block never fits in what was allocated for a smaller one.        *)
Allocated ==
  \/ maxBufferSize = 0 /\ tmpInRoom = 0
  \/ \E m \in BlockSizes : tmpInRoom = m + BFSize /\ maxBufferSize \in {m, m + 2 * K64}

(* Past Init, the running frame has room.                                  *)
Provided ==
  /\ stage \notin HeaderStages => maxBlockSize \in BlockSizes
  /\ stage \notin HeaderStages /\ stage # "Init" => BufferNeeded <= maxBufferSize

(* No more is gathered than the field being gathered holds.                *)
Gathered ==
  /\ stage = "StoreFrameHeader" =>
       \/ target = HeaderSizeMin
       \/ laid[1].item.kind = "header" /\ target = laid[1].item.size
  /\ stage = "StoreSFrameSize" => target = 8
  /\ verdict = "open" =>
       /\ stage \in {"StoreFrameHeader", "StoreCBlock", "StoreSFrameSize"} => Len(store) <= target
       /\ stage \in {"StoreBlockHeader", "GetBlockChecksum", "StoreSuffix"} => Len(store) <= BHSize
       /\ stage \in {"GetCBlock", "StoreCBlock"} =>
            target \in (CrcSize + 1)..(maxBlockSize + CrcSize)

(* A frame with a verdict is left alone.                                   *)
Settled == verdict # "open" => Idle

(* After a whole frame the context is as it was before it.                 *)
Rested == verdict = "complete" => stage = "GetFrameHeader" /\ dict = <<>>

DecoderInv == TypeOK /\ Allocated /\ Provided /\ Gathered /\ Settled

-----------------------------------------------------------------------------
(* Lemmas about what a frame is made of.                                   *)

(* Whatever bytes a reader takes for an item, what it makes of them has    *)
(* the fields of its kind.                                                 *)
LEMMA RecoveredType ==
  ASSUME FramesAssumption, frame \in Frames, NEW s
  PROVE  LET item == Recover(laid, s).item IN
         /\ item.kind \in {"blockHeader", "skippableSize"} => item.length \in Nat
         /\ item.kind = "body" => item.from \in Nat /\ item.to \in Nat /\ item.from <= item.to
<1> DEFINE whole == { i \in 1..Len(laid) :
                        s # <<>> /\ s = [k \in 1..laid[i].item.size |-> laid[i].at + k] }
           item == Recover(laid, s).item
<1>1. CASE whole = {}
  <2>1. item.kind = "garbled"
    BY <1>1 DEF Recover, Garbled
  <2>2. QED  BY <2>1
<1>2. CASE whole # {}
  <2>1. PICK i \in whole : item = laid[i].item
    BY <1>2, Zenon DEF Recover
  <2>2. ItemTyped(laid[i].item)
    BY DEF FramesAssumption, laid
  <2>3. QED  BY <2>1, <2>2 DEF ItemTyped
<1>3. QED  BY <1>1, <1>2

(* The content byte at a position has a number.                            *)
LEMMA StoredByteType ==
  ASSUME FramesAssumption, frame \in Frames, NEW p \in Nat
  PROVE  StoredByte(laid, p) \in Nat
<1> DEFINE here == { i \in 1..Len(laid) :
                       p \in (laid[i].at + 1)..(laid[i].at + laid[i].item.size) }
<1>1. CASE here = {}
  BY <1>1 DEF StoredByte
<1>2. CASE here # {}
  <2>1. PICK i \in here : StoredByte(laid, p) =
          IF laid[i].item.kind = "body" /\ laid[i].item.sound
          THEN laid[i].item.from + (p - laid[i].at) ELSE 0
    BY <1>2, Zenon DEF StoredByte
  <2>2. ItemTyped(laid[i].item) /\ laid[i].at \in Nat
    BY DEF FramesAssumption, laid
  <2> DEFINE body == laid[i].item
             rest == p - laid[i].at
  <2>3. rest \in Nat
    BY <2>1, <2>2 DEF ItemTyped
  <2>4. body.kind = "body" => body.from \in Nat
    BY <2>2 DEF ItemTyped
  <2>5. StoredByte(laid, p) = IF body.kind = "body" /\ body.sound THEN body.from + rest ELSE 0
    BY <2>1
  <2> HIDE DEF body, rest
  <2>6. QED  BY <2>3, <2>4, <2>5
<1>3. QED  BY <1>1, <1>2

(* The first item.                                                         *)
LEMMA FirstItemTyped ==
  ASSUME FramesAssumption, frame \in Frames
  PROVE  ItemTyped(laid[1].item)
<1>1. 1 \in 1..Len(laid)
  BY DEF FramesAssumption, laid
<1>2. QED  BY <1>1 DEF FramesAssumption, laid

LEMMA BlockSizesDiffer ==
  /\ BlockSizes \subseteq Nat \ {0}
  /\ \A id : GetBlockSize(id) \in BlockSizes
  /\ \A m, n \in BlockSizes : m > n => m > n + 2 * K64
<1>1. K64 \in Nat \ {0}
  BY BlockUnitPositive
<1>2. BlockSizes \subseteq Nat \ {0}
  BY <1>1 DEF BlockSizes
<1>3. \A id : GetBlockSize(id) \in BlockSizes
  BY DEF BlockSizes, GetBlockSize
<1>4. ASSUME NEW m \in BlockSizes, NEW n \in BlockSizes, m > n
      PROVE  m > n + 2 * K64
  BY <1>1, <1>4 DEF BlockSizes
<1>5. QED  BY <1>2, <1>3, <1>4

(* The bytes a pass takes from the source.                                 *)
LEMMA SrcType ==
  ASSUME pos \in Nat, NEW k \in Nat
  PROVE  Src(k) \in Seq(Nat) /\ Len(Src(k)) = k
BY DEF Src

(* Gathering: never more than is offered, than the field wants.            *)
LEMMA FieldRestType ==
  ASSUME TypeOK, NEW size \in Nat, Len(store) <= size
  PROVE  /\ FieldRest(size) \in Nat /\ FieldRest(size) <= call.left
         /\ Stored(FieldRest(size)) \in Seq(Nat)
         /\ Len(Stored(FieldRest(size))) = Len(store) + FieldRest(size)
         /\ Len(Stored(FieldRest(size))) <= size
<1>1. store \in Seq(Nat) /\ call.left \in Nat /\ pos \in Nat
  BY DEF TypeOK
<1>2. Len(store) \in Nat
  BY <1>1
<1> DEFINE k == FieldRest(size)
<1>3. k \in Nat /\ k <= call.left /\ Len(store) + k <= size
  BY <1>1, <1>2 DEF FieldRest, Smaller
<1> HIDE DEF k
<1>4. Src(k) \in Seq(Nat) /\ Len(Src(k)) = k
  BY <1>1, <1>3, SrcType
<1>5. Stored(k) \in Seq(Nat) /\ Len(Stored(k)) = Len(store) + k
  BY <1>1, <1>4, ConcatProperties, Zenon DEF Stored
<1>6. QED  BY <1>3, <1>5 DEF k

(* Past Init, what is allocated holds a block with its checksum.           *)
LEMMA RoomForBlock ==
  ASSUME TypeOK, Allocated, Provided, stage \notin HeaderStages, stage # "Init"
  PROVE  maxBlockSize + BFSize <= tmpInRoom /\ maxBlockSize <= maxBufferSize
<1>1. K64 \in Nat \ {0} /\ maxBlockSize \in BlockSizes /\ maxBlockSize \in Nat \ {0}
  BY BlockUnitPositive, BlockSizesDiffer, Zenon DEF Provided
<1>2. maxBlockSize <= maxBufferSize
  BY <1>1 DEF Provided, BufferNeeded, TypeOK
<1>3. PICK m \in BlockSizes : tmpInRoom = m + BFSize /\ maxBufferSize \in {m, m + 2 * K64}
  BY <1>1, <1>2 DEF Allocated
<1>4. m \in Nat /\ ~(maxBlockSize > m + 2 * K64)
  BY <1>1, <1>2, <1>3, BlockSizesDiffer
<1>5. ~(maxBlockSize > m)
  BY <1>1, <1>3, <1>4, BlockSizesDiffer
<1>6. maxBlockSize + BFSize <= tmpInRoom
  BY <1>1, <1>3, <1>4, <1>5 DEF BFSize
<1>7. QED  BY <1>2, <1>6

-----------------------------------------------------------------------------
(* The two halves of the type invariant: what a pass's ending sets, and    *)
(* the rest.                                                               *)

CallTyped ==
  /\ call \in [op : {"none", "decompress", "frameInfo"}, left : Nat, room : Nat]
  /\ pos \in Nat /\ hint \in Nat /\ verdict \in {"open", "complete", "rejected"}
  /\ frame \in Frames /\ lenient \in BOOLEAN
  /\ opened \in 1..MaxFrames /\ asks \in 0..MaxAsks
  /\ Settled

StateTyped ==
  /\ stage \in Stages /\ info \in Infos /\ remaining \in Int
  /\ maxBlockSize \in Nat /\ maxBufferSize \in Nat /\ tmpInRoom \in Nat
  /\ store \in Seq(Nat) /\ target \in Nat /\ tmpOut \in Seq(Nat)
  /\ dict \in Seq(Int) /\ xxh \in Seq(Nat) /\ blockXxh \in Seq(Nat)
  /\ skip \in BOOLEAN /\ out \in Seq(Nat)

Fitting == StateTyped /\ Allocated /\ Provided /\ Gathered

LEMMA InvParts ==
  ASSUME DecoderInv PROVE TypeOK /\ CallTyped /\ Fitting /\ BuffersFit
BY DEF DecoderInv, TypeOK, CallTyped, StateTyped, Fitting

(* The buffers fit once the rest is as it should be.                       *)
LEMMA InvWhole ==
  ASSUME CallTyped', Fitting', BuffersFit' PROVE DecoderInv'
BY DEF DecoderInv, TypeOK, CallTyped, StateTyped, Fitting

(* How a pass ends, and what it leaves of the call.                        *)
LEMMA AgainTyped ==
  ASSUME CallTyped, ~Idle, NEW k \in Nat, NEW w \in Nat, k <= call.left, w <= call.room,
         Again(k, w)
  PROVE  /\ CallTyped' /\ verdict' = verdict /\ verdict = "open" /\ frame' = frame
         /\ asks' = asks /\ call'.op = call.op
<1>1. /\ pos' = pos + k
      /\ call' = [call EXCEPT !.left = call.left - k, !.room = call.room - w]
      /\ UNCHANGED <<hint, verdict, client>>
  BY DEF Again
<1>2. call.left \in Nat /\ call.room \in Nat
  BY DEF CallTyped
<1>3. call.left - k \in Nat /\ call.room - w \in Nat
  BY <1>2
<1>4. /\ call' \in [op : {"none", "decompress", "frameInfo"}, left : Nat, room : Nat]
      /\ call'.op = call.op
  BY <1>1, <1>3, Zenon DEF CallTyped
<1>5. verdict = "open"
  BY DEF CallTyped, Settled
<1>6. QED  BY <1>1, <1>4, <1>5 DEF CallTyped, Settled, client

LEMMA StopTyped ==
  ASSUME CallTyped, ~Idle, NEW k \in Nat, NEW h \in Nat, Stop(k, h)
  PROVE  /\ CallTyped' /\ verdict' = verdict /\ verdict = "open" /\ frame' = frame
         /\ asks' = asks /\ call'.op = "none"
BY DEF CallTyped, Settled, Idle, Stop, client, NoCall

LEMMA FailTyped ==
  ASSUME CallTyped, NEW e, Fail(e)
  PROVE  CallTyped' /\ verdict' = "rejected" /\ frame' = frame /\ out' = out
BY DEF CallTyped, Settled, Idle, Fail, client, NoCall

LEMMA CompleteTyped ==
  ASSUME CallTyped, NEW k \in Nat, Complete(k)
  PROVE  /\ CallTyped' /\ verdict' = "complete" /\ frame' = frame /\ out' = out
         /\ stage' = "GetFrameHeader" /\ dict' = <<>> /\ skip' = FALSE /\ remaining' = 0
         /\ stage' \in Stages /\ dict' \in Seq(Int) /\ skip' \in BOOLEAN /\ remaining' \in Int
<1>1. CallTyped' /\ verdict' = "complete" /\ frame' = frame /\ out' = out
  BY DEF CallTyped, Settled, Idle, Complete, client, NoCall
<1>2. stage' = "GetFrameHeader" /\ dict' = <<>> /\ skip' = FALSE /\ remaining' = 0
  BY DEF Complete, ResetDctx
<1>3. <<>> \in Seq(Int)
  OBVIOUS
<1>4. dict' \in Seq(Int)
  BY <1>2, <1>3
<1>5. stage' \in Stages /\ remaining' \in Int
  BY <1>2 DEF Stages
<1>6. skip' \in BOOLEAN
  BY <1>2, Zenon
<1>7. QED  BY <1>1, <1>2, <1>4, <1>5, <1>6

-----------------------------------------------------------------------------
(* The passes over a frame's header.                                       *)

LEMMA HeaderRead ==
  ASSUME DecoderInv, FramesAssumption, NEW bytes \in Seq(Nat), NEW fromHeader \in BOOLEAN,
         stage = IF fromHeader THEN "StoreFrameHeader" ELSE "GetFrameHeader",
         Len(bytes) >= HeaderSizeMin, fromHeader => Len(bytes) <= target,
         DecodeHeader(bytes, fromHeader), verdict' = "open", frame' = frame,
         UNCHANGED BufferState, out' = out
  PROVE  Fitting' /\ BuffersFit'
<1>1. ItemTyped(laid[1].item)
  BY FirstItemTyped, InvParts DEF CallTyped
<1>2. laid' = laid
  BY DEF laid
<1>3. NoInfo \in Infos
  BY DEF NoInfo, Infos
<1>4. StateTyped /\ Allocated /\ Gathered
  BY InvParts DEF Fitting
<1>5. CASE Skippable(bytes)
  <2>1. /\ info' = NoInfo /\ UNCHANGED <<remaining, maxBlockSize>>
        /\ IF fromHeader
           THEN stage' = "StoreSFrameSize" /\ store' = bytes /\ target' = 8
           ELSE stage' = "GetSFrameSize" /\ UNCHANGED <<store, target>>
    BY <1>5 DEF DecodeHeader, Skippable, Descriptor
  <2>2. fromHeader => Len(bytes) <= 7
    BY <1>4, <1>5 DEF Gathered, Skippable, HeaderSizeMin
  <2>3. StateTyped'
    BY <1>3, <1>4, <2>1 DEF StateTyped, BufferState, Stages
  <2>4. Allocated' /\ Provided' /\ Gathered'
    BY <1>4, <2>1, <2>2 DEF Allocated, Provided, Gathered, BufferState, HeaderStages
  <2>5. BuffersFit'
    BY <2>1 DEF BuffersFit, HeaderSizeMax
  <2>6. QED  BY <2>3, <2>4, <2>5 DEF Fitting
<1>6. CASE Descriptor(bytes) /\ Len(bytes) < laid[1].item.size
  <2>1. /\ info' = NoInfo /\ UNCHANGED <<remaining, maxBlockSize>>
        /\ stage' = "StoreFrameHeader" /\ store' = bytes /\ target' = laid[1].item.size
    <3>1. Len(bytes) \in Nat /\ laid[1].item.size \in Nat
      BY <1>1 DEF ItemTyped
    <3>2. ~(Len(bytes) >= laid[1].item.size)
      BY <1>6, <3>1
    <3>3. QED  BY <1>6, <3>2 DEF DecodeHeader, Skippable, Descriptor
  <2>2. target' \in Nat /\ target' <= HeaderSizeMax /\ laid[1].item.kind = "header"
    <3>1. laid[1].item.kind = "header"
      BY <1>6 DEF Descriptor
    <3>2. laid[1].item.size \in HeaderSizeMin..HeaderSizeMax
      BY <1>1, <3>1 DEF ItemTyped
    <3>3. target' \in HeaderSizeMin..HeaderSizeMax
      BY <2>1, <3>2
    <3>4. QED  BY <3>1, <3>3 DEF HeaderSizeMin, HeaderSizeMax
  <2>3. StateTyped'
    BY <1>3, <1>4, <2>1, <2>2 DEF StateTyped, BufferState, Stages
  <2>4. Allocated' /\ Provided' /\ Gathered'
    BY <1>2, <1>4, <1>6, <2>1, <2>2
    DEF Allocated, Provided, Gathered, BufferState, HeaderStages
  <2>5. BuffersFit'
    BY <2>1, <2>2 DEF BuffersFit
  <2>6. QED  BY <2>3, <2>4, <2>5 DEF Fitting
<1>7. CASE Descriptor(bytes) /\ Len(bytes) >= laid[1].item.size
  <2>1. /\ info' = laid[1].item.info /\ stage' = "Init"
        /\ maxBlockSize' = GetBlockSize(info'.blockSizeID)
        /\ remaining' = IF info'.contentSize # 0 THEN info'.contentSize ELSE remaining
        /\ store' = IF fromHeader THEN bytes ELSE store
        /\ UNCHANGED target
    <3>1. Len(bytes) \in Nat /\ laid[1].item.size \in Nat
      BY <1>1 DEF ItemTyped
    <3>2. ~(Len(bytes) < laid[1].item.size)
      BY <1>7, <3>1
    <3>3. QED  BY <1>7, <3>2 DEF DecodeHeader, Skippable, Descriptor
  <2>2. info' \in Infos /\ info'.contentSize \in Int
    BY <1>1, <1>7, <2>1 DEF ItemTyped, Descriptor, Infos
  <2>3. maxBlockSize' \in BlockSizes /\ maxBlockSize' \in Nat
    BY <2>1, BlockSizesDiffer, Zenon
  <2>4. store' \in Seq(Nat) /\ remaining' \in Int
    BY <1>4, <2>1, <2>2 DEF StateTyped
  <2>5. StateTyped'
    BY <1>4, <2>1, <2>2, <2>3, <2>4 DEF StateTyped, BufferState, Stages
  <2>6. Allocated' /\ Provided' /\ Gathered'
    BY <1>4, <2>1, <2>3 DEF Allocated, Provided, Gathered, BufferState, HeaderStages
  <2>7. BuffersFit'
    BY <2>1 DEF BuffersFit
  <2>8. QED  BY <2>5, <2>6, <2>7 DEF Fitting
<1>8. QED  BY <1>5, <1>6, <1>7 DEF DecodeHeader

LEMMA HeaderUsedType ==
  ASSUME FramesAssumption, frame \in Frames, NEW bytes \in Seq(Nat),
         Len(bytes) >= HeaderSizeMin, ~HeaderBad(bytes)
  PROVE  HeaderUsed(bytes) \in Nat /\ HeaderUsed(bytes) <= Len(bytes)
<1>1. Len(bytes) \in Nat
  OBVIOUS
<1>2. CASE Skippable(bytes)
  BY <1>1, <1>2 DEF HeaderUsed, Word, HeaderSizeMin
<1>3. CASE ~Skippable(bytes)
  <2>1. laid[1].item.kind = "header"
    BY <1>3 DEF HeaderBad, Descriptor
  <2>2. laid[1].item.size \in Nat
    BY <2>1, FirstItemTyped DEF ItemTyped
  <2>3. HeaderUsed(bytes) = Smaller(Len(bytes), laid[1].item.size)
    BY <1>3 DEF HeaderUsed
  <2> DEFINE size == laid[1].item.size
  <2> HIDE DEF size
  <2>4. QED  BY <1>1, <2>2, <2>3 DEF size, Smaller
<1>4. QED  BY <1>2, <1>3

(* A header that is taken is not a bad one.                                *)
LEMMA TakenIsGood ==
  ASSUME NEW bytes, NEW fromHeader, DecodeHeader(bytes, fromHeader),
         FramesAssumption, frame \in Frames, Len(bytes) \in Nat
  PROVE  ~HeaderBad(bytes)
<1>1. laid[1].item.size \in Nat
  BY FirstItemTyped DEF ItemTyped
<1>2. ~(Len(bytes) < laid[1].item.size /\ Len(bytes) >= laid[1].item.size)
  BY <1>1
<1>3. QED  BY <1>2 DEF DecodeHeader, HeaderBad, Skippable, Descriptor

(* A header that is refused leaves the buffers as they are.                *)
LEMMA HeaderRefused ==
  ASSUME DecoderInv, stage \in {"GetFrameHeader", "StoreFrameHeader"},
         info' = NoInfo, stage' = stage, store' \in Seq(Nat), target' = target,
         UNCHANGED <<remaining, maxBlockSize, BufferState, frame, out>>,
         verdict' = "rejected"
  PROVE  Fitting' /\ BuffersFit'
<1>1. StateTyped /\ Allocated /\ Gathered /\ BuffersFit
  BY InvParts DEF Fitting
<1>2. NoInfo \in Infos
  BY DEF NoInfo, Infos
<1>3. StateTyped'
  BY <1>1, <1>2 DEF StateTyped, BufferState
<1>4. laid' = laid
  BY DEF laid
<1>5. Allocated' /\ Provided' /\ Gathered' /\ BuffersFit'
  BY <1>1, <1>4 DEF Allocated, Provided, Gathered, BuffersFit, BufferState, HeaderStages
<1>6. QED  BY <1>3, <1>5 DEF Fitting

(* A pass that only moves on to gather a field, or returns.                *)
LEMMA HeaderPass ==
  ASSUME DecoderInv, FramesAssumption, GetFrameHeader \/ StoreFrameHeader
  PROVE  DecoderInv'
<1>0. /\ TypeOK /\ CallTyped /\ Fitting /\ BuffersFit /\ StateTyped /\ Gathered /\ Allocated
      /\ frame \in Frames /\ ~Idle /\ verdict = "open" /\ pos \in Nat /\ call.left \in Nat
  BY InvParts, Zenon DEF Fitting, CallTyped, Settled, GetFrameHeader, StoreFrameHeader, At, Idle
<1>1. CASE GetFrameHeader
  <2>1. Src(call.left) \in Seq(Nat) /\ Len(Src(call.left)) = call.left
    BY <1>0, SrcType
  <2> DEFINE bytes == Src(call.left)
  <2> HIDE DEF bytes
  <2>2. bytes \in Seq(Nat) /\ Len(bytes) = call.left /\ stage = "GetFrameHeader"
    BY <1>1, <2>1 DEF bytes, GetFrameHeader, At
  <2>3. CASE HeaderFails(bytes) /\ UNCHANGED <<store, target>>
    <3>1. CallTyped' /\ verdict' = "rejected" /\ frame' = frame /\ out' = out
      BY <1>0, <2>3, FailTyped DEF HeaderFails
    <3>2. Fitting' /\ BuffersFit'
      BY <1>0, <2>2, <2>3, <3>1, HeaderRefused DEF HeaderFails, StateTyped
    <3>3. QED  BY <3>1, <3>2, InvWhole
  <2>4. CASE /\ call.left >= HeaderSizeMax
             /\ DecodeHeader(bytes, FALSE) /\ Again(HeaderUsed(bytes), 0)
             /\ UNCHANGED <<BufferState, out>>
    <3>1. Len(bytes) >= HeaderSizeMin /\ Len(bytes) \in Nat
      BY <1>0, <2>2, <2>4 DEF HeaderSizeMin, HeaderSizeMax
    <3>2. HeaderUsed(bytes) \in Nat /\ HeaderUsed(bytes) <= call.left
      BY <1>0, <2>2, <2>4, <3>1, TakenIsGood, HeaderUsedType, Zenon
    <3>3. 0 \in Nat /\ 0 <= call.room
      BY <1>0 DEF CallTyped
    <3>4. CallTyped' /\ verdict' = verdict /\ frame' = frame
      BY <1>0, <2>4, <3>2, <3>3, AgainTyped
    <3>5. Fitting' /\ BuffersFit'
      BY <1>0, <2>2, <2>4, <3>1, <3>4, HeaderRead, Zenon
    <3>6. QED  BY <3>4, <3>5, InvWhole
  <2>5. CASE /\ store' = <<>> /\ Stop(0, HeaderSizeMin)
             /\ UNCHANGED <<stage, info, remaining, maxBlockSize, target, BufferState, out>>
    <3>1. CallTyped' /\ verdict' = verdict /\ frame' = frame
      BY <1>0, <2>5, StopTyped DEF HeaderSizeMin
    <3>2. StateTyped'
      BY <1>0, <2>5 DEF StateTyped, BufferState
    <3>3. Allocated' /\ Provided' /\ Gathered' /\ BuffersFit'
      BY <1>0, <2>2, <2>5
      DEF Allocated, Provided, Gathered, BuffersFit, BufferState, HeaderStages
    <3>4. QED  BY <3>1, <3>2, <3>3, InvWhole DEF Fitting
  <2>6. CASE /\ store' = <<>> /\ target' = HeaderSizeMin /\ stage' = "StoreFrameHeader"
             /\ Again(0, 0)
             /\ UNCHANGED <<info, remaining, maxBlockSize, BufferState, out>>
    <3>1. 0 \in Nat /\ 0 <= call.room /\ 0 <= call.left
      BY <1>0 DEF CallTyped
    <3>2. CallTyped' /\ verdict' = verdict /\ frame' = frame
      BY <1>0, <2>6, <3>1, AgainTyped
    <3>3. StateTyped'
      BY <1>0, <2>6 DEF StateTyped, BufferState, Stages, HeaderSizeMin
    <3>4. Allocated' /\ Provided' /\ Gathered' /\ BuffersFit'
      BY <1>0, <2>6 DEF Allocated, Provided, Gathered, BuffersFit, BufferState,
                        HeaderStages, HeaderSizeMin, HeaderSizeMax
    <3>5. QED  BY <3>2, <3>3, <3>4, InvWhole DEF Fitting
  <2>7. QED  BY <1>1, <2>3, <2>4, <2>5, <2>6, Zenon DEF GetFrameHeader, bytes
<1>2. CASE StoreFrameHeader
  <2>1. stage = "StoreFrameHeader" /\ target \in Nat /\ Len(store) <= target
    BY <1>0, <1>2 DEF StoreFrameHeader, At, Gathered, StateTyped
  <2> DEFINE k == Wanted
             bytes == Stored(k)
  <2>2. /\ k \in Nat /\ k <= call.left /\ bytes \in Seq(Nat)
        /\ Len(bytes) \in Nat /\ Len(bytes) <= target
    <3>1. k = FieldRest(target)
      BY DEF Wanted
    <3>2. bytes \in Seq(Nat) /\ Len(bytes) <= target /\ k \in Nat /\ k <= call.left
      BY <1>0, <2>1, <3>1, FieldRestType
    <3> HIDE DEF bytes
    <3>3. QED  BY <3>2
  <2> HIDE DEF k, bytes
  <2>3. target >= HeaderSizeMin
    <3>1. laid[1].item.kind = "header" => laid[1].item.size \in HeaderSizeMin..HeaderSizeMax
      BY <1>0, FirstItemTyped DEF ItemTyped
    <3>2. CASE target = laid[1].item.size /\ laid[1].item.kind = "header"
      <4>1. target \in HeaderSizeMin..HeaderSizeMax
        BY <3>1, <3>2
      <4>2. QED  BY <4>1 DEF HeaderSizeMin, HeaderSizeMax
    <3>3. QED  BY <1>0, <2>1, <3>2 DEF Gathered, HeaderSizeMin
  <2>4. CASE /\ Len(bytes) < target
             /\ store' = bytes /\ Stop(k, target - Len(bytes) + BHSize)
             /\ UNCHANGED <<stage, info, remaining, maxBlockSize, target, BufferState, out>>
    <3>1. target - Len(bytes) + BHSize \in Nat
      BY <2>1, <2>2, <2>4 DEF BHSize
    <3>2. CallTyped' /\ verdict' = verdict /\ frame' = frame
      BY <1>0, <2>2, <2>4, <3>1, StopTyped
    <3>3. StateTyped'
      BY <1>0, <2>2, <2>4 DEF StateTyped, BufferState
    <3>4. laid' = laid
      BY <3>2 DEF laid
    <3>5. Allocated' /\ Provided' /\ Gathered' /\ BuffersFit'
      BY <1>0, <2>1, <2>2, <2>4, <3>4
      DEF Allocated, Provided, Gathered, BuffersFit, BufferState, HeaderStages
    <3>6. QED  BY <3>2, <3>3, <3>5, InvWhole DEF Fitting
  <2>5. CASE HeaderFails(bytes) /\ store' = bytes /\ UNCHANGED target
    <3>1. CallTyped' /\ verdict' = "rejected" /\ frame' = frame /\ out' = out
      BY <1>0, <2>5, FailTyped DEF HeaderFails
    <3>2. Fitting' /\ BuffersFit'
      BY <1>0, <2>1, <2>2, <2>5, <3>1, HeaderRefused DEF HeaderFails
    <3>3. QED  BY <3>1, <3>2, InvWhole
  <2>6. CASE /\ Len(bytes) >= target
             /\ DecodeHeader(bytes, TRUE) /\ Again(k, 0) /\ UNCHANGED <<BufferState, out>>
    <3>1. Len(bytes) >= HeaderSizeMin
      BY <2>1, <2>2, <2>3, <2>6 DEF HeaderSizeMin
    <3>2. 0 \in Nat /\ 0 <= call.room
      BY <1>0 DEF CallTyped
    <3>3. CallTyped' /\ verdict' = verdict /\ frame' = frame
      BY <1>0, <2>2, <2>6, <3>2, AgainTyped
    <3>4. Fitting' /\ BuffersFit'
      BY <1>0, <2>1, <2>2, <2>6, <3>1, <3>3, HeaderRead, Zenon
    <3>5. QED  BY <3>3, <3>4, InvWhole
  <2>7. QED  BY <1>2, <2>4, <2>5, <2>6, Zenon DEF StoreFrameHeader, k, bytes
<1>3. QED  BY <1>1, <1>2

-----------------------------------------------------------------------------
(* The passes over blocks.                                                 *)

(* The buffers are replaced whenever this frame needs more than they were  *)
(* allocated for.                                                          *)
LEMMA InitFramePass ==
  ASSUME DecoderInv, InitFrame PROVE DecoderInv'
<1>1. /\ CallTyped /\ Allocated /\ StateTyped /\ stage = "Init" /\ ~Idle
      /\ maxBlockSize \in BlockSizes /\ K64 \in Nat \ {0}
  BY InvParts, BlockUnitPositive
  DEF Fitting, InitFrame, At, Idle, Provided, HeaderStages
<1>2. 0 \in Nat /\ 0 <= call.left /\ 0 <= call.room
  BY <1>1 DEF CallTyped
<1>3. CallTyped' /\ verdict' = verdict
  BY <1>1, <1>2, AgainTyped DEF InitFrame
<1>4. /\ BufferNeeded \in Nat /\ BufferNeeded \in {maxBlockSize, maxBlockSize + 2 * K64}
      /\ TmpInSize = maxBlockSize + BFSize /\ TmpInSize \in Nat
  BY <1>1 DEF BufferNeeded, TmpInSize, StateTyped, BFSize
<1>5. StateTyped'
  BY <1>1, <1>4 DEF StateTyped, InitFrame, Stages
<1>6. BufferNeeded' = BufferNeeded
  BY DEF InitFrame, BufferNeeded
<1>7. Allocated' /\ BufferNeeded <= maxBufferSize'
  <2>1. CASE BufferNeeded > maxBufferSize
    BY <1>1, <1>4, <2>1 DEF Allocated, InitFrame
  <2>2. CASE ~(BufferNeeded > maxBufferSize)
    BY <1>1, <1>4, <2>2 DEF Allocated, InitFrame, StateTyped
  <2>3. QED  BY <2>1, <2>2
<1>8. Provided' /\ Gathered'
  BY <1>1, <1>6, <1>7 DEF Provided, Gathered, InitFrame
<1>9. BuffersFit'
  <2>1. maxBlockSize' <= maxBufferSize'
    BY <1>1, <1>4, <1>5, <1>7 DEF InitFrame, StateTyped
  <2>2. QED  BY <2>1 DEF BuffersFit, InitFrame
<1>10. QED  BY <1>3, <1>5, <1>7, <1>8, <1>9, InvWhole DEF Fitting

(* A pass over blocks that leaves the sizes of the frame and the buffers:  *)
(* what remains to show is the types of what it changes and the sizes of   *)
(* what is gathered.                                                       *)
BlockStages == Stages \ (HeaderStages \cup {"Init"})
Sizes == <<info, maxBlockSize, maxBufferSize, tmpInRoom>>

LEMMA BlockPass ==
  ASSUME DecoderInv, stage \in BlockStages, UNCHANGED Sizes,
         StateTyped', Gathered', CallTyped',
         \/ stage' \in BlockStages /\ (stage' = "StoreCBlock" => target' <= maxBlockSize + BFSize)
         \/ stage' = "GetFrameHeader"
  PROVE  DecoderInv'
<1>1. /\ TypeOK /\ Allocated /\ Provided /\ StateTyped
      /\ stage \notin HeaderStages /\ stage # "Init"
  BY InvParts DEF Fitting, BlockStages
<1>2. maxBlockSize + BFSize <= tmpInRoom /\ maxBlockSize <= maxBufferSize
  BY <1>1, RoomForBlock
<1>3. maxBlockSize \in Nat /\ tmpInRoom \in Nat
  BY <1>1 DEF StateTyped
<1>4. BufferNeeded' = BufferNeeded
  BY DEF BufferNeeded, Sizes
<1>5. Allocated' /\ Provided'
  BY <1>1, <1>4 DEF Allocated, Provided, Sizes, BlockStages, HeaderStages
<1>6. BuffersFit'
  <2>1. CASE stage' = "GetFrameHeader"
    BY <2>1 DEF BuffersFit
  <2>2. CASE stage' \in BlockStages /\ (stage' = "StoreCBlock" => target' <= maxBlockSize + BFSize)
    <3>1. stage' = "StoreCBlock" => target' <= tmpInRoom'
      BY <1>2, <1>3, <2>2 DEF Sizes, BFSize, StateTyped
    <3>2. tmpInRoom' >= BHSize
      BY <1>2, <1>3 DEF BHSize, BFSize, Sizes
    <3>3. stage' \notin {"StoreFrameHeader", "StoreSFrameSize"}
      BY <2>2 DEF BlockStages, HeaderStages
    <3>4. QED  BY <1>2, <3>1, <3>2, <3>3 DEF BuffersFit, Sizes
  <2>3. QED  BY <2>1, <2>2
<1>7. QED  BY <1>5, <1>6, InvWhole DEF Fitting

(* What a pass over blocks may assume.                                     *)
LEMMA InBlock ==
  ASSUME DecoderInv, NEW s \in BlockStages, At(s)
  PROVE  /\ TypeOK /\ CallTyped /\ StateTyped /\ Gathered /\ ~Idle /\ verdict = "open"
         /\ stage = s /\ stage \in BlockStages /\ frame \in Frames
         /\ pos \in Nat /\ call.left \in Nat /\ call.room \in Nat
         /\ CrcSize \in {0, BFSize}
BY InvParts DEF Fitting, CallTyped, Settled, At, Idle, CrcSize

LEMMA BlockHeaderDecoded ==
  ASSUME DecoderInv, FramesAssumption, NEW bytes, NEW k \in Nat, k <= call.left,
         NEW s \in {"GetBlockHeader", "StoreBlockHeader"}, At(s),
         DecodeBlockHeader(bytes, k), store' \in Seq(Nat)
  PROVE  DecoderInv'
<1>0. s \in BlockStages
  BY DEF BlockStages, Stages, HeaderStages
<1>1. /\ TypeOK /\ CallTyped /\ StateTyped /\ Gathered /\ ~Idle /\ verdict = "open"
      /\ stage = s /\ stage \in BlockStages /\ frame \in Frames
      /\ call.left \in Nat /\ call.room \in Nat
      /\ CrcSize \in {0, BFSize}
  BY <1>0, InBlock
<1> DEFINE bh == Recover(laid, bytes).item
<1>2. bh.kind = "blockHeader" => bh.length \in Nat
  BY <1>1, RecoveredType
<1> HIDE DEF bh
<1>3. 0 \in Nat /\ 0 <= call.room
  BY <1>1
<1>4. CASE /\ Fail("maxBlockSizeInvalid")
           /\ UNCHANGED <<stage, target, blockXxh, BlockState>>
  <2>1. CallTyped' /\ verdict' = "rejected" /\ frame' = frame /\ out' = out
    BY <1>1, <1>4, FailTyped
  <2>2. StateTyped'
    BY <1>1, <1>4, <2>1 DEF StateTyped, BlockState
  <2>3. Gathered'
    BY <1>1, <1>4, <2>1 DEF Gathered
  <2>4. stage' \in BlockStages /\ stage' # "StoreCBlock" /\ UNCHANGED Sizes
    BY <1>1, <1>4 DEF Sizes, BlockState
  <2>5. QED  BY <1>1, <2>1, <2>2, <2>3, <2>4, BlockPass
<1>5. CASE /\ bh.kind = "blockHeader" /\ stage' = "GetSuffix"
           /\ Again(k, 0)
           /\ UNCHANGED <<target, blockXxh, BlockState, out>>
  <2>1. CallTyped' /\ verdict' = verdict /\ frame' = frame
    BY <1>1, <1>3, <1>5, AgainTyped
  <2>2. StateTyped'
    BY <1>1, <1>5 DEF StateTyped, BlockState, Stages
  <2>3. Gathered'
    BY <1>5 DEF Gathered
  <2>4. stage' \in BlockStages /\ stage' # "StoreCBlock" /\ UNCHANGED Sizes
    BY <1>5 DEF Sizes, BlockState, BlockStages, Stages, HeaderStages
  <2>5. QED  BY <1>1, <2>1, <2>2, <2>3, <2>4, BlockPass
<1>6. CASE /\ bh.kind = "blockHeader" /\ stage' = "CopyDirect" /\ target' = bh.length
           /\ blockXxh' = IF info.blockChecksum THEN <<>> ELSE blockXxh
           /\ Again(k, 0)
           /\ UNCHANGED <<BlockState, out>>
  <2>1. CallTyped' /\ verdict' = verdict /\ frame' = frame
    BY <1>1, <1>3, <1>6, AgainTyped
  <2>2. StateTyped'
    BY <1>1, <1>2, <1>6 DEF StateTyped, BlockState, Stages
  <2>3. Gathered'
    BY <1>6 DEF Gathered
  <2>4. stage' \in BlockStages /\ stage' # "StoreCBlock" /\ UNCHANGED Sizes
    BY <1>6 DEF Sizes, BlockState, BlockStages, Stages, HeaderStages
  <2>5. QED  BY <1>1, <2>1, <2>2, <2>3, <2>4, BlockPass
<1>7. CASE /\ bh.kind = "blockHeader" /\ bh.length \in 1..maxBlockSize
           /\ stage' = "GetCBlock" /\ target' = bh.length + CrcSize
           /\ Stop(k, BHSize + bh.length + CrcSize) \/ Again(k, 0)
           /\ UNCHANGED <<blockXxh, BlockState, out>>
  <2>1. CallTyped' /\ verdict' = verdict /\ frame' = frame
    <3>1. CASE Again(k, 0)
      BY <1>1, <1>3, <3>1, AgainTyped
    <3>2. CASE Stop(k, BHSize + bh.length + CrcSize)
      <4>1. BHSize + bh.length + CrcSize \in Nat
        BY <1>1, <1>2, <1>7 DEF BHSize, BFSize
      <4>2. QED  BY <1>1, <3>2, <4>1, StopTyped
    <3>3. QED  BY <1>7, <3>1, <3>2
  <2>2. /\ target' \in Nat /\ maxBlockSize \in Nat
        /\ target' \in (CrcSize + 1)..(maxBlockSize + CrcSize)
    <3> DEFINE n == bh.length
    <3>1. n \in 1..maxBlockSize /\ target' = n + CrcSize /\ maxBlockSize \in Nat
      BY <1>1, <1>7 DEF StateTyped
    <3>2. CrcSize \in Nat
      BY <1>1 DEF BFSize
    <3> HIDE DEF n
    <3>3. QED  BY <3>1, <3>2
  <2>3. StateTyped'
    BY <1>1, <1>7, <2>2 DEF StateTyped, BlockState, Stages
  <2>4. Gathered'
    BY <1>7, <2>2 DEF Gathered, CrcSize, BlockState
  <2>5. stage' \in BlockStages /\ stage' # "StoreCBlock" /\ UNCHANGED Sizes
    BY <1>7 DEF Sizes, BlockState, BlockStages, Stages, HeaderStages
  <2>6. QED  BY <1>1, <2>1, <2>3, <2>4, <2>5, BlockPass
<1>8. QED  BY <1>4, <1>5, <1>6, <1>7 DEF DecodeBlockHeader, bh

LEMMA BlockHeaderPass ==
  ASSUME DecoderInv, FramesAssumption, GetBlockHeader \/ StoreBlockHeader
  PROVE  DecoderInv'
<1>1. CASE GetBlockHeader
  <2>0. "GetBlockHeader" \in BlockStages /\ At("GetBlockHeader")
    BY <1>1 DEF BlockStages, Stages, HeaderStages, GetBlockHeader
  <2>1. /\ TypeOK /\ CallTyped /\ StateTyped /\ Gathered /\ ~Idle /\ verdict = "open"
        /\ stage = "GetBlockHeader" /\ stage \in BlockStages
        /\ call.left \in Nat /\ call.room \in Nat
    BY <2>0, InBlock
  <2>2. CASE call.left >= BHSize /\ DecodeBlockHeader(Src(BHSize), BHSize) /\ UNCHANGED store
    BY <2>0, <2>1, <2>2, BlockHeaderDecoded DEF BHSize, StateTyped
  <2>3. CASE /\ store' = <<>> /\ stage' = "StoreBlockHeader" /\ Again(0, 0)
             /\ UNCHANGED <<target, blockXxh, BlockState, out>>
    <3>1. CallTyped' /\ verdict' = verdict /\ frame' = frame
      BY <2>1, <2>3, AgainTyped
    <3>2. StateTyped'
      BY <2>1, <2>3 DEF StateTyped, BlockState, Stages
    <3>3. Gathered'
      BY <2>3 DEF Gathered, BHSize
    <3>4. stage' \in BlockStages /\ stage' # "StoreCBlock" /\ UNCHANGED Sizes
      BY <2>3 DEF Sizes, BlockState, BlockStages, Stages, HeaderStages
    <3>5. QED  BY <2>1, <3>1, <3>2, <3>3, <3>4, BlockPass
  <2>4. QED  BY <1>1, <2>2, <2>3 DEF GetBlockHeader
<1>2. CASE StoreBlockHeader
  <2>0. "StoreBlockHeader" \in BlockStages /\ At("StoreBlockHeader")
    BY <1>2 DEF BlockStages, Stages, HeaderStages, StoreBlockHeader
  <2>1. /\ TypeOK /\ CallTyped /\ StateTyped /\ Gathered /\ ~Idle /\ verdict = "open"
        /\ stage = "StoreBlockHeader" /\ stage \in BlockStages
        /\ call.left \in Nat /\ call.room \in Nat
    BY <2>0, InBlock
  <2> DEFINE k == FieldRest(BHSize)
             bytes == Stored(k)
  <2>2. Len(store) <= BHSize /\ BHSize \in Nat
    BY <2>1 DEF Gathered, BHSize
  <2>3. /\ k \in Nat /\ k <= call.left /\ bytes \in Seq(Nat)
        /\ Len(bytes) <= BHSize
    BY <2>1, <2>2, FieldRestType
  <2> HIDE DEF k, bytes
  <2>4. CASE /\ store' = bytes /\ Len(bytes) < BHSize
             /\ Stop(k, BHSize - Len(bytes))
             /\ UNCHANGED <<stage, target, blockXxh, BlockState, out>>
    <3>1. BHSize - Len(bytes) \in Nat
      BY <2>3, <2>4 DEF BHSize
    <3>2. CallTyped' /\ verdict' = verdict /\ frame' = frame
      BY <2>1, <2>3, <2>4, <3>1, StopTyped
    <3>3. StateTyped'
      BY <2>1, <2>3, <2>4 DEF StateTyped, BlockState
    <3>4. Gathered'
      BY <2>1, <2>3, <2>4 DEF Gathered
    <3>5. stage' \in BlockStages /\ stage' # "StoreCBlock" /\ UNCHANGED Sizes
      BY <2>1, <2>4 DEF Sizes, BlockState
    <3>6. QED  BY <2>1, <3>2, <3>3, <3>4, <3>5, BlockPass
  <2>5. CASE store' = bytes /\ DecodeBlockHeader(bytes, k)
    BY <2>0, <2>3, <2>5, BlockHeaderDecoded
  <2>6. QED  BY <1>2, <2>4, <2>5 DEF StoreBlockHeader, k, bytes
<1>3. QED  BY <1>1, <1>2

(* What goes into a checksum, into the history and to the caller.          *)
LEMMA JoinedType ==
  ASSUME NEW S, NEW s \in Seq(S), NEW t \in Seq(S)
  PROVE  s \o t \in Seq(S) /\ Len(s \o t) = Len(s) + Len(t)
BY ConcatProperties

LEMMA LastBytesType ==
  ASSUME NEW S, NEW s \in Seq(S), NEW n \in Nat
  PROVE  /\ LastBytes(s, n) \in Seq(S)
         /\ Len(LastBytes(s, n)) = Smaller(Len(s), n)
         /\ \A i \in 1..Len(LastBytes(s, n)) :
              LastBytes(s, n)[i] = s[Len(s) - Len(LastBytes(s, n)) + i]
<1>1. Len(s) \in Nat
  OBVIOUS
<1>2. CASE Len(s) <= n
  BY <1>1, <1>2 DEF LastBytes, Smaller
<1>3. CASE ~(Len(s) <= n)
  <2>1. LastBytes(s, n) = SubSeq(s, Len(s) - n + 1, Len(s))
    BY <1>3 DEF LastBytes
  <2>2. /\ SubSeq(s, Len(s) - n + 1, Len(s)) \in Seq(S)
        /\ Len(SubSeq(s, Len(s) - n + 1, Len(s))) = n
        /\ \A i \in 1..n : SubSeq(s, Len(s) - n + 1, Len(s))[i] = s[Len(s) - n + i]
    BY <1>1, <1>3
  <2>3. Smaller(Len(s), n) = n
    BY <1>1, <1>3 DEF Smaller
  <2>4. QED  BY <2>1, <2>2, <2>3, Zenon
<1>4. QED  BY <1>2, <1>3

LEMMA HandedType ==
  ASSUME TypeOK, NEW data \in Seq(Nat)
  PROVE  /\ Hashed(data) \in Seq(Nat) /\ out \o data \in Seq(Nat)
         /\ Left(Len(data)) \in Int
         /\ KeepHistory(data) => dict' \in Seq(Int)
<1>1. /\ out \in Seq(Nat) /\ xxh \in Seq(Nat) /\ dict \in Seq(Int) /\ remaining \in Int
      /\ Len(data) \in Nat /\ K64 \in Nat
  BY BlockUnitPositive DEF TypeOK
<1>2. out \o data \in Seq(Nat) /\ xxh \o data \in Seq(Nat)
  BY <1>1, JoinedType
<1>3. data \in Seq(Int)
  OBVIOUS
<1>4. dict \o data \in Seq(Int)
  BY <1>1, <1>3, JoinedType
<1>5. DictAfter(data) \in Seq(Int)
  BY <1>1, <1>4, LastBytesType, Zenon DEF DictAfter
<1>6. QED  BY <1>1, <1>2, <1>5 DEF Hashed, Left, KeepHistory

LEMMA CopyDirectPass ==
  ASSUME DecoderInv, FramesAssumption, CopyDirect PROVE DecoderInv'
<1>0. "CopyDirect" \in BlockStages /\ At("CopyDirect")
  BY DEF BlockStages, Stages, HeaderStages, CopyDirect
<1>1. /\ TypeOK /\ CallTyped /\ StateTyped /\ Gathered /\ ~Idle /\ verdict = "open"
      /\ stage = "CopyDirect" /\ stage \in BlockStages /\ frame \in Frames
      /\ pos \in Nat /\ call.left \in Nat /\ call.room \in Nat
      /\ CrcSize \in {0, BFSize} /\ target \in Nat
  BY <1>0, InBlock DEF TypeOK
<1> DEFINE k == Smaller(target, Smaller(call.left, call.room))
           data == [i \in 1..k |-> StoredByte(laid, pos + i)]
<1>2. k \in Nat /\ k <= target /\ k <= call.left /\ k <= call.room
  BY <1>1 DEF Smaller
<1>3. /\ out' = out \o data
      /\ blockXxh' = IF info.blockChecksum /\ ~skip THEN blockXxh \o Src(k) ELSE blockXxh
      /\ xxh' = Hashed(data) /\ remaining' = Left(k) /\ KeepHistory(data)
      /\ IF k = target
         THEN /\ IF info.blockChecksum THEN stage' = "GetBlockChecksum" /\ store' = <<>>
                 ELSE stage' = "GetBlockHeader" /\ UNCHANGED store
              /\ Again(k, k)
              /\ UNCHANGED target
         ELSE /\ target' = target - k
              /\ Stop(k, target - k + CrcSize + BHSize)
              /\ UNCHANGED <<stage, store>>
      /\ UNCHANGED <<info, maxBlockSize, maxBufferSize, tmpInRoom, tmpOut, skip>>
  BY DEF CopyDirect
<1>4. data \in Seq(Nat) /\ Len(data) = k
  <2> HIDE DEF k
  <2>1. \A i \in 1..k : StoredByte(laid, pos + i) \in Nat
    <3>1. TAKE i \in 1..k
    <3>2. pos + i \in Nat
      BY <1>1, <1>2
    <3>3. QED  BY <1>1, <3>2, StoredByteType
  <2>2. QED  BY <1>2, <2>1
<1>5. Src(k) \in Seq(Nat) /\ blockXxh \o Src(k) \in Seq(Nat)
  <2> HIDE DEF k
  <2>1. Src(k) \in Seq(Nat)
    BY <1>1, <1>2, SrcType
  <2>2. QED  BY <1>1, <2>1, JoinedType DEF StateTyped
<1> HIDE DEF k, data
<1>6. CallTyped' /\ verdict' = verdict /\ frame' = frame
  <2>1. CASE k = target
    BY <1>1, <1>2, <1>3, <2>1, AgainTyped
  <2>2. CASE k # target
    <3>1. target - k + CrcSize + BHSize \in Nat
      BY <1>1, <1>2 DEF BFSize, BHSize
    <3>2. QED  BY <1>1, <1>2, <1>3, <2>2, <3>1, StopTyped
  <2>3. QED  BY <2>1, <2>2
<1>7. StateTyped'
  <2>1. target' \in Nat /\ store' \in Seq(Nat) /\ stage' \in Stages
    <3>1. store \in Seq(Nat) /\ <<>> \in Seq(Nat)
      BY <1>1 DEF StateTyped
    <3>2. target' \in {target, target - k} /\ store' \in {store, <<>>}
      BY <1>3
    <3>3. stage' \in {"CopyDirect", "GetBlockChecksum", "GetBlockHeader"}
      BY <1>1, <1>3
    <3>4. target - k \in Nat
      BY <1>1, <1>2
    <3>5. QED  BY <1>1, <3>1, <3>2, <3>3, <3>4, Zenon DEF Stages
  <2>2. blockXxh' \in Seq(Nat)
    BY <1>1, <1>3, <1>5 DEF StateTyped
  <2>3. xxh' \in Seq(Nat) /\ out' \in Seq(Nat) /\ dict' \in Seq(Int) /\ remaining' \in Int
    BY <1>1, <1>3, <1>4, HandedType
  <2>4. QED  BY <1>1, <1>3, <2>1, <2>2, <2>3 DEF StateTyped
<1>8. Gathered'
  BY <1>1, <1>3 DEF Gathered, BHSize
<1>9. stage' \in BlockStages /\ stage' # "StoreCBlock" /\ UNCHANGED Sizes
  BY <1>1, <1>3 DEF Sizes, BlockStages, Stages, HeaderStages
<1>10. QED  BY <1>1, <1>6, <1>7, <1>8, <1>9, BlockPass

LEMMA GetBlockChecksumPass ==
  ASSUME DecoderInv, GetBlockChecksum PROVE DecoderInv'
<1>0. "GetBlockChecksum" \in BlockStages /\ At("GetBlockChecksum")
  BY DEF BlockStages, Stages, HeaderStages, GetBlockChecksum
<1>1. /\ TypeOK /\ CallTyped /\ StateTyped /\ Gathered /\ ~Idle /\ verdict = "open"
      /\ stage = "GetBlockChecksum" /\ stage \in BlockStages
      /\ call.left \in Nat /\ call.room \in Nat
  BY <1>0, InBlock
<1> DEFINE k == FieldRest(BFSize)
           bytes == Stored(k)
<1>2. k \in Nat /\ k <= call.left /\ bytes \in Seq(Nat) /\ Len(bytes) <= BFSize
  BY <1>1, FieldRestType DEF Gathered, BHSize, BFSize
<1> HIDE DEF k, bytes
<1>3. UNCHANGED <<target, blockXxh, BlockState>> /\ UNCHANGED Sizes
  BY DEF GetBlockChecksum, BlockState, Sizes
<1>4. CASE store' = bytes /\ Stop(k, 1) /\ UNCHANGED <<stage, out>>
  <2>1. CallTyped' /\ verdict' = verdict
    BY <1>1, <1>2, <1>4, StopTyped
  <2>2. StateTyped'
    BY <1>1, <1>2, <1>3, <1>4 DEF StateTyped, BlockState
  <2>3. Gathered'
    BY <1>1, <1>2, <1>4 DEF Gathered, BHSize, BFSize
  <2>4. QED  BY <1>1, <1>3, <1>4, <2>1, <2>2, <2>3, BlockPass
<1>5. CASE /\ store' = IF store = <<>> THEN store ELSE bytes
           /\ stage' = "GetBlockHeader" /\ Again(k, 0) /\ UNCHANGED out
  <2>1. CallTyped' /\ verdict' = verdict
    BY <1>1, <1>2, <1>5, AgainTyped
  <2>2. StateTyped'
    BY <1>1, <1>2, <1>3, <1>5 DEF StateTyped, BlockState, Stages
  <2>3. Gathered'
    BY <1>5 DEF Gathered
  <2>4. stage' \in BlockStages /\ stage' # "StoreCBlock"
    BY <1>5 DEF BlockStages, Stages, HeaderStages
  <2>5. QED  BY <1>1, <1>3, <2>1, <2>2, <2>3, <2>4, BlockPass
<1>6. CASE /\ store' = IF store = <<>> THEN store ELSE bytes
           /\ Fail("blockChecksumInvalid") /\ UNCHANGED stage
  <2>1. CallTyped' /\ verdict' = "rejected" /\ out' = out
    BY <1>1, <1>6, FailTyped
  <2>2. StateTyped'
    BY <1>1, <1>2, <1>3, <1>6, <2>1 DEF StateTyped, BlockState
  <2>3. Gathered'
    BY <1>1, <1>6, <2>1 DEF Gathered
  <2>4. QED  BY <1>1, <1>3, <1>6, <2>1, <2>2, <2>3, BlockPass
<1>7. QED  BY <1>4, <1>5, <1>6 DEF GetBlockChecksum, k, bytes

(* What the block decoder gives fits what it was given room for.           *)
LEMMA DecodedType ==
  ASSUME FramesAssumption, frame \in Frames, NEW s, NEW cap \in Nat,
         NEW data \in Decoded(Recover(laid, s).item, cap)
  PROVE  data \in Seq(Nat) /\ Len(data) \in 0..cap
<1> DEFINE body == Recover(laid, s).item
           n == body.to - body.from
           other == [i \in 1..n |-> 0]
           right == [i \in 1..n |-> body.from + i]
<1>1. /\ body.kind = "body" /\ ~(n > cap) /\ data \in {right, other}
  BY DEF Decoded
<1>2. body.from \in Nat /\ body.to \in Nat /\ body.from <= body.to
  BY <1>1, RecoveredType
<1>3. n \in 0..cap
  <2> DEFINE from == body.from
             to == body.to
  <2>1. from \in Nat /\ to \in Nat /\ from <= to /\ ~(to - from > cap)
    BY <1>1, <1>2
  <2> HIDE DEF from, to
  <2>2. to - from \in 0..cap
    BY <2>1
  <2>3. QED  BY <2>2 DEF from, to
<1>4. right \in Seq(Nat) /\ other \in Seq(Nat) /\ Len(right) = n /\ Len(other) = n
  <2> DEFINE from == body.from
  <2>1. from \in Nat /\ right = [i \in 1..n |-> from + i]
    BY <1>2
  <2> HIDE DEF from, n
  <2>2. n \in Nat
    BY <1>3
  <2>3. [i \in 1..n |-> from + i] \in Seq(Nat) /\ Len([i \in 1..n |-> from + i]) = n
    BY <2>1, <2>2
  <2>4. other \in Seq(Nat) /\ Len(other) = n
    BY <2>2
  <2>5. QED  BY <2>1, <2>3, <2>4, Zenon
<1>5. QED  BY <1>1, <1>3, <1>4, Zenon

LEMMA BlockDecoded ==
  ASSUME DecoderInv, FramesAssumption, NEW block, NEW k \in Nat, k <= call.left,
         NEW s \in {"GetCBlock", "StoreCBlock"}, At(s),
         DecodeCBlock(block, k), store' \in Seq(Nat)
  PROVE  DecoderInv'
<1>0. s \in BlockStages
  BY DEF BlockStages, Stages, HeaderStages
<1>1. /\ TypeOK /\ CallTyped /\ StateTyped /\ Gathered /\ ~Idle /\ verdict = "open"
      /\ stage = s /\ stage \in BlockStages /\ frame \in Frames
      /\ call.left \in Nat /\ call.room \in Nat /\ CrcSize \in {0, BFSize}
      /\ maxBlockSize \in Nat /\ maxBufferSize \in Nat /\ target \in Nat
  BY <1>0, InBlock DEF TypeOK
<1> DEFINE size == target - CrcSize
           direct == call.room >= maxBlockSize
           cap == IF direct THEN maxBlockSize ELSE Smaller(maxBlockSize, maxBufferSize)
<1>2. /\ size \in Nat /\ size <= maxBlockSize
  BY <1>1 DEF Gathered, BFSize
<1>3. /\ cap \in Nat /\ (direct => cap <= call.room)
  BY <1>1 DEF Smaller
<1>4. target' = size /\ UNCHANGED <<info, maxBlockSize, maxBufferSize, tmpInRoom, blockXxh, skip>>
      /\ UNCHANGED Sizes
  BY DEF DecodeCBlock, Sizes
<1>5. CASE \E e : Fail(e) /\ UNCHANGED <<stage, tmpOut, dict, xxh, remaining>>
  <2>1. CallTyped' /\ verdict' = "rejected" /\ out' = out
    BY <1>1, <1>5, FailTyped
  <2>2. UNCHANGED <<stage, tmpOut, dict, xxh, remaining>>
    BY <1>5
  <2> HIDE DEF size
  <2>3. StateTyped'
    BY <1>1, <1>2, <1>4, <2>1, <2>2 DEF StateTyped
  <2>4. Gathered'
    BY <1>1, <2>1, <2>2 DEF Gathered
  <2>5. target' <= maxBlockSize + BFSize
    BY <1>1, <1>2, <1>4 DEF BFSize
  <2>6. QED  BY <1>1, <1>4, <2>1, <2>2, <2>3, <2>4, <2>5, BlockPass
<1>6. CASE \E data \in Decoded(Recover(laid, SubSeq(block, 1, size)).item, cap) :
             /\ xxh' = Hashed(data) /\ remaining' = Left(Len(data))
             /\ IF direct
                THEN /\ out' = out \o data /\ KeepHistory(data)
                     /\ stage' = "GetBlockHeader"
                     /\ Again(k, Len(data))
                     /\ UNCHANGED tmpOut
                ELSE /\ tmpOut' = data /\ stage' = "FlushOut"
                     /\ Again(k, 0)
                     /\ UNCHANGED <<dict, out>>
  <2> DEFINE read == SubSeq(block, 1, size)
  <2> HIDE DEF read
  <2>1. PICK data \in Decoded(Recover(laid, read).item, cap) :
             /\ xxh' = Hashed(data) /\ remaining' = Left(Len(data))
             /\ IF direct
                THEN /\ out' = out \o data /\ KeepHistory(data)
                     /\ stage' = "GetBlockHeader"
                     /\ Again(k, Len(data))
                     /\ UNCHANGED tmpOut
                ELSE /\ tmpOut' = data /\ stage' = "FlushOut"
                     /\ Again(k, 0)
                     /\ UNCHANGED <<dict, out>>
    BY <1>6 DEF read
  <2> HIDE DEF cap, size
  <2>2. data \in Seq(Nat) /\ Len(data) \in 0..cap
    BY <1>1, <1>3, DecodedType
  <2>3. CallTyped' /\ verdict' = verdict /\ frame' = frame
    <3>1. CASE direct
      <4>1. Len(data) \in Nat /\ Len(data) <= call.room
        BY <1>1, <1>3, <2>2, <3>1
      <4>2. QED  BY <1>1, <2>1, <3>1, <4>1, AgainTyped
    <3>2. CASE ~direct
      BY <1>1, <2>1, <3>2, AgainTyped
    <3>3. QED  BY <3>1, <3>2
  <2> HIDE DEF direct
  <2>4. /\ xxh' \in Seq(Nat) /\ remaining' \in Int
        /\ out' \in Seq(Nat) /\ dict' \in Seq(Int) /\ tmpOut' \in Seq(Nat)
    <3>1. xxh' \in Seq(Nat) /\ remaining' \in Int
      BY <1>1, <2>1, <2>2, HandedType
    <3>2. CASE direct
      BY <1>1, <2>1, <2>2, <3>1, <3>2, HandedType, Zenon DEF StateTyped
    <3>3. CASE ~direct
      BY <1>1, <2>1, <2>2, <3>1, <3>3 DEF StateTyped
    <3>4. QED  BY <3>2, <3>3
  <2>5. stage' \in {"GetBlockHeader", "FlushOut"}
    BY <2>1
  <2>6. StateTyped'
    BY <1>1, <1>2, <1>4, <2>4, <2>5 DEF StateTyped, Stages
  <2>7. Gathered'
    BY <2>5 DEF Gathered
  <2>8. stage' \in BlockStages /\ stage' # "StoreCBlock"
    BY <2>5 DEF BlockStages, Stages, HeaderStages
  <2>9. QED  BY <1>1, <1>4, <2>3, <2>6, <2>7, <2>8, BlockPass
<1>7. QED  BY <1>5, <1>6, Zenon DEF DecodeCBlock

LEMMA BlockBodyPass ==
  ASSUME DecoderInv, FramesAssumption, GetCBlock \/ StoreCBlock PROVE DecoderInv'
<1>1. CASE GetCBlock
  <2>0. "GetCBlock" \in BlockStages /\ At("GetCBlock")
    BY <1>1 DEF BlockStages, Stages, HeaderStages, GetCBlock
  <2>1. /\ TypeOK /\ CallTyped /\ StateTyped /\ Gathered /\ ~Idle /\ verdict = "open"
        /\ stage = "GetCBlock" /\ stage \in BlockStages
        /\ call.left \in Nat /\ call.room \in Nat /\ CrcSize \in {0, BFSize}
        /\ target \in Nat /\ maxBlockSize \in Nat
    BY <2>0, InBlock DEF TypeOK
  <2>2. target \in (CrcSize + 1)..(maxBlockSize + CrcSize) /\ target <= maxBlockSize + BFSize
    BY <2>1 DEF Gathered, BFSize
  <2>3. CASE /\ store' = <<>> /\ stage' = "StoreCBlock" /\ Again(0, 0)
             /\ UNCHANGED <<target, blockXxh, BlockState, out>>
    <3>1. CallTyped' /\ verdict' = verdict /\ frame' = frame
      BY <2>1, <2>3, AgainTyped
    <3>2. StateTyped'
      BY <2>1, <2>3 DEF StateTyped, BlockState, Stages
    <3>3. Gathered'
      BY <2>1, <2>2, <2>3 DEF Gathered, CrcSize, BlockState
    <3>4. stage' \in BlockStages /\ target' <= maxBlockSize + BFSize /\ UNCHANGED Sizes
      BY <2>2, <2>3 DEF Sizes, BlockState, BlockStages, Stages, HeaderStages
    <3>5. QED  BY <2>1, <3>1, <3>2, <3>3, <3>4, BlockPass
  <2>4. CASE call.left >= target /\ DecodeCBlock(Src(target), target) /\ UNCHANGED store
    <3>1. target <= call.left /\ store' \in Seq(Nat)
      BY <2>1, <2>4 DEF StateTyped
    <3>2. QED  BY <2>0, <2>1, <2>4, <3>1, BlockDecoded
  <2>5. QED  BY <1>1, <2>3, <2>4 DEF GetCBlock
<1>2. CASE StoreCBlock
  <2>0. "StoreCBlock" \in BlockStages /\ At("StoreCBlock")
    BY <1>2 DEF BlockStages, Stages, HeaderStages, StoreCBlock
  <2>1. /\ TypeOK /\ CallTyped /\ StateTyped /\ Gathered /\ ~Idle /\ verdict = "open"
        /\ stage = "StoreCBlock" /\ stage \in BlockStages
        /\ call.left \in Nat /\ call.room \in Nat /\ CrcSize \in {0, BFSize}
        /\ target \in Nat /\ maxBlockSize \in Nat /\ Len(store) <= target
    BY <2>0, InBlock DEF TypeOK, Gathered
  <2>2. target \in (CrcSize + 1)..(maxBlockSize + CrcSize) /\ target <= maxBlockSize + BFSize
    BY <2>1 DEF Gathered, BFSize
  <2> DEFINE k == Wanted
             bytes == Stored(k)
  <2>3. k \in Nat /\ k <= call.left /\ bytes \in Seq(Nat) /\ Len(bytes) <= target
    <3>1. k = FieldRest(target)
      BY DEF Wanted
    <3>2. QED  BY <2>1, <3>1, FieldRestType
  <2> HIDE DEF k, bytes
  <2>4. CASE /\ store' = bytes /\ Len(bytes) < target
             /\ Stop(k, HintRestOfBlock(Len(bytes)))
             /\ UNCHANGED <<stage, target, blockXxh, BlockState, out>>
    <3>1. HintRestOfBlock(Len(bytes)) \in Nat
      BY <2>1, <2>3 DEF HintRestOfBlock, BHSize, BFSize
    <3>2. CallTyped' /\ verdict' = verdict /\ frame' = frame
      BY <2>1, <2>3, <2>4, <3>1, StopTyped
    <3>3. StateTyped'
      BY <2>1, <2>3, <2>4 DEF StateTyped, BlockState
    <3>4. Gathered'
      BY <2>1, <2>2, <2>3, <2>4 DEF Gathered, CrcSize, BlockState
    <3>5. stage' \in BlockStages /\ target' <= maxBlockSize + BFSize /\ UNCHANGED Sizes
      BY <2>1, <2>2, <2>4 DEF Sizes, BlockState
    <3>6. QED  BY <2>1, <3>2, <3>3, <3>4, <3>5, BlockPass
  <2>5. CASE store' = bytes /\ DecodeCBlock(bytes, k)
    BY <2>0, <2>3, <2>5, BlockDecoded
  <2>6. QED  BY <1>2, <2>4, <2>5 DEF StoreCBlock, k, bytes
<1>3. QED  BY <1>1, <1>2

(* What is handed over and what stays.                                     *)
LEMMA HandedParts ==
  ASSUME TypeOK
  PROVE  /\ Handed \in Nat /\ Handed <= call.room /\ Handed <= Len(tmpOut)
         /\ SubSeq(tmpOut, 1, Handed) \in Seq(Nat) /\ Len(SubSeq(tmpOut, 1, Handed)) = Handed
         /\ SubSeq(tmpOut, Handed + 1, Len(tmpOut)) \in Seq(Nat)
<1>1. tmpOut \in Seq(Nat) /\ Len(tmpOut) \in Nat /\ call.room \in Nat
  BY DEF TypeOK
<1>2. Handed \in Nat /\ Handed <= call.room /\ Handed <= Len(tmpOut)
  BY <1>1 DEF Handed, Smaller
<1> HIDE DEF Handed
<1>3. QED  BY <1>1, <1>2

LEMMA FlushOutPass ==
  ASSUME DecoderInv, FlushOut PROVE DecoderInv'
<1>0. "FlushOut" \in BlockStages /\ At("FlushOut")
  BY DEF BlockStages, Stages, HeaderStages, FlushOut
<1>1. /\ TypeOK /\ CallTyped /\ StateTyped /\ Gathered /\ ~Idle /\ verdict = "open"
      /\ stage = "FlushOut" /\ stage \in BlockStages
      /\ call.left \in Nat /\ call.room \in Nat
  BY <1>0, InBlock
<1> DEFINE n == Handed
           data == SubSeq(tmpOut, 1, n)
           rest == SubSeq(tmpOut, n + 1, Len(tmpOut))
<1>2. n \in Nat /\ n <= call.room /\ data \in Seq(Nat) /\ rest \in Seq(Nat)
  BY <1>1, HandedParts
<1>3. /\ out' = out \o data /\ KeepHistory(data) /\ tmpOut' = rest
      /\ \/ stage' = "GetBlockHeader" /\ Again(0, n)
         \/ Stop(0, BHSize) /\ UNCHANGED stage
      /\ UNCHANGED <<info, remaining, maxBlockSize, maxBufferSize, tmpInRoom, store,
                     target, xxh, blockXxh, skip>>
  BY DEF FlushOut
<1> HIDE DEF n, data, rest
<1>4. CallTyped' /\ verdict' = verdict /\ frame' = frame
  <2>1. CASE Again(0, n)
    BY <1>1, <1>2, <2>1, AgainTyped
  <2>2. CASE Stop(0, BHSize)
    BY <1>1, <2>2, StopTyped DEF BHSize
  <2>3. QED  BY <1>3, <2>1, <2>2
<1>5. out' \in Seq(Nat) /\ dict' \in Seq(Int)
  BY <1>1, <1>2, <1>3, HandedType
<1>6. stage' \in {"GetBlockHeader", "FlushOut"}
  BY <1>1, <1>3
<1>7. StateTyped'
  BY <1>1, <1>2, <1>3, <1>5, <1>6 DEF StateTyped, Stages
<1>8. Gathered'
  BY <1>6 DEF Gathered
<1>9. stage' \in BlockStages /\ stage' # "StoreCBlock" /\ UNCHANGED Sizes
  BY <1>3, <1>6 DEF Sizes, BlockStages, Stages, HeaderStages
<1>10. QED  BY <1>1, <1>4, <1>7, <1>8, <1>9, BlockPass

-----------------------------------------------------------------------------
(* The passes that end a frame.                                            *)

LEMMA ContentChecked ==
  ASSUME DecoderInv, stage \in {"GetSuffix", "StoreSuffix"}, ~Idle, NEW bytes, NEW k \in Nat,
         CheckContentCrc(bytes, k), store' \in Seq(Nat), UNCHANGED <<target, Untouched>>
  PROVE  DecoderInv'
<1>1. CallTyped /\ StateTyped /\ Gathered /\ stage \in BlockStages
  BY InvParts DEF Fitting, BlockStages, Stages, HeaderStages
<1>2. UNCHANGED Sizes
  BY DEF Untouched, Sizes
<1>3. CASE Complete(k)
  <2>1. /\ CallTyped' /\ out' = out
        /\ stage' = "GetFrameHeader"
        /\ stage' \in Stages /\ dict' \in Seq(Int) /\ skip' \in BOOLEAN /\ remaining' \in Int
    BY <1>1, <1>3, CompleteTyped, Zenon
  <2>2. StateTyped'
    BY <1>1, <2>1 DEF StateTyped, Untouched
  <2>3. Gathered'
    BY <2>1 DEF Gathered
  <2>4. QED  BY <1>1, <1>2, <2>1, <2>2, <2>3, BlockPass
<1>4. CASE Fail("contentChecksumInvalid") /\ UNCHANGED <<stage, dict, skip, remaining>>
  <2>1. CallTyped' /\ verdict' = "rejected" /\ frame' = frame /\ out' = out
    BY <1>1, <1>4, FailTyped
  <2>2. StateTyped'
    BY <1>1, <1>4, <2>1 DEF StateTyped, Untouched
  <2>3. Gathered'
    BY <1>1, <1>4, <2>1 DEF Gathered, laid
  <2>4. QED  BY <1>1, <1>2, <1>4, <2>1, <2>2, <2>3, BlockPass
<1>5. QED  BY <1>3, <1>4 DEF CheckContentCrc

LEMMA SuffixPass ==
  ASSUME DecoderInv, GetSuffix \/ StoreSuffix PROVE DecoderInv'
<1>1. CASE GetSuffix
  <2>0. "GetSuffix" \in BlockStages /\ At("GetSuffix")
    BY <1>1 DEF BlockStages, Stages, HeaderStages, GetSuffix
  <2>1. /\ TypeOK /\ CallTyped /\ StateTyped /\ Gathered /\ ~Idle /\ verdict = "open"
        /\ stage = "GetSuffix" /\ stage \in BlockStages
        /\ call.left \in Nat /\ call.room \in Nat
    BY <2>0, InBlock
  <2>2. UNCHANGED <<target, Untouched>> /\ UNCHANGED Sizes
    BY <1>1 DEF GetSuffix, Untouched, Sizes
  <2>3. CASE Fail("frameSizeWrong") /\ UNCHANGED <<stage, dict, skip, remaining, store>>
    <3>1. CallTyped' /\ verdict' = "rejected" /\ frame' = frame /\ out' = out
      BY <2>1, <2>3, FailTyped
    <3>2. StateTyped'
      BY <2>1, <2>2, <2>3, <3>1 DEF StateTyped, Untouched
    <3>3. Gathered'
      BY <2>1, <2>3, <3>1 DEF Gathered
    <3>4. QED  BY <2>1, <2>2, <2>3, <3>1, <3>2, <3>3, BlockPass
  <2>4. CASE Complete(0) /\ UNCHANGED store
    <3>1. /\ CallTyped' /\ out' = out
          /\ stage' = "GetFrameHeader"
          /\ stage' \in Stages /\ dict' \in Seq(Int) /\ skip' \in BOOLEAN /\ remaining' \in Int
      BY <2>1, <2>4, CompleteTyped, Zenon
    <3>2. StateTyped'
      BY <2>1, <2>2, <2>4, <3>1 DEF StateTyped, Untouched
    <3>3. Gathered'
      BY <3>1 DEF Gathered
    <3>4. QED  BY <2>1, <2>2, <3>1, <3>2, <3>3, BlockPass
  <2>5. CASE /\ store' = <<>> /\ stage' = "StoreSuffix" /\ Again(0, 0)
             /\ UNCHANGED <<dict, skip, remaining, out>>
    <3>1. CallTyped' /\ verdict' = verdict /\ frame' = frame
      BY <2>1, <2>5, AgainTyped
    <3>2. stage' \in Stages /\ store' \in Seq(Nat)
      BY <2>5 DEF Stages
    <3>3. StateTyped'
      BY <2>1, <2>2, <2>5, <3>2 DEF StateTyped, Untouched
    <3>4. Gathered'
      BY <2>5 DEF Gathered, BHSize
    <3>5. stage' \in BlockStages /\ stage' # "StoreCBlock"
      BY <2>5 DEF BlockStages, Stages, HeaderStages
    <3>6. QED  BY <2>1, <2>2, <3>1, <3>3, <3>4, <3>5, BlockPass
  <2>6. CASE CheckContentCrc(Src(BFSize), BFSize) /\ UNCHANGED store
    BY <2>1, <2>2, <2>6, ContentChecked DEF BFSize, StateTyped
  <2>7. QED  BY <1>1, <2>3, <2>4, <2>5, <2>6 DEF GetSuffix
<1>2. CASE StoreSuffix
  <2>0. "StoreSuffix" \in BlockStages /\ At("StoreSuffix")
    BY <1>2 DEF BlockStages, Stages, HeaderStages, StoreSuffix
  <2>1. /\ TypeOK /\ CallTyped /\ StateTyped /\ Gathered /\ ~Idle /\ verdict = "open"
        /\ stage = "StoreSuffix" /\ stage \in BlockStages
        /\ call.left \in Nat /\ call.room \in Nat
    BY <2>0, InBlock
  <2>2. UNCHANGED <<target, Untouched>> /\ UNCHANGED Sizes
    BY <1>2 DEF StoreSuffix, Untouched, Sizes
  <2> DEFINE k == FieldRest(BFSize)
             bytes == Stored(k)
  <2>3. k \in Nat /\ k <= call.left /\ bytes \in Seq(Nat) /\ Len(bytes) <= BFSize
    BY <2>1, FieldRestType DEF Gathered, BHSize, BFSize
  <2> HIDE DEF k, bytes
  <2>4. CASE /\ store' = bytes /\ Len(bytes) < BFSize
             /\ Stop(k, BFSize - Len(bytes))
             /\ UNCHANGED <<stage, dict, skip, remaining, out>>
    <3>1. BFSize - Len(bytes) \in Nat
      BY <2>3, <2>4 DEF BFSize
    <3>2. CallTyped' /\ verdict' = verdict /\ frame' = frame
      BY <2>1, <2>3, <2>4, <3>1, StopTyped
    <3>3. StateTyped'
      BY <2>1, <2>2, <2>3, <2>4 DEF StateTyped, Untouched
    <3>4. Gathered'
      BY <2>1, <2>3, <2>4 DEF Gathered, BHSize, BFSize
    <3>5. QED  BY <2>1, <2>2, <2>4, <3>2, <3>3, <3>4, BlockPass
  <2>5. CASE store' = bytes /\ CheckContentCrc(bytes, k)
    BY <2>1, <2>2, <2>3, <2>5, ContentChecked
  <2>6. QED  BY <1>2, <2>4, <2>5 DEF StoreSuffix, k, bytes
<1>3. QED  BY <1>1, <1>2

-----------------------------------------------------------------------------
(* The passes over a skippable frame.                                      *)

(* Only the frame's own sizes are set; the buffers stay.                   *)
LEMMA SkippingPass ==
  ASSUME DecoderInv, stage \in HeaderStages,
         UNCHANGED <<maxBlockSize, maxBufferSize, tmpInRoom>>,
         StateTyped', Gathered', CallTyped', stage' \in HeaderStages \ {"StoreFrameHeader"}
  PROVE  DecoderInv'
<1>1. Allocated' /\ Provided'
  BY InvParts DEF Fitting, Allocated, Provided
<1>2. BuffersFit'
  BY DEF Gathered, BuffersFit, HeaderStages, HeaderSizeMax
<1>3. QED  BY <1>1, <1>2, InvWhole DEF Fitting

LEMMA InSkippable ==
  ASSUME DecoderInv, NEW s \in {"GetSFrameSize", "StoreSFrameSize", "SkipSkippable"}, At(s)
  PROVE  /\ TypeOK /\ CallTyped /\ StateTyped /\ Gathered /\ ~Idle /\ verdict = "open"
         /\ stage = s /\ stage \in HeaderStages /\ frame \in Frames
         /\ pos \in Nat /\ call.left \in Nat /\ call.room \in Nat /\ target \in Nat
         /\ 0 \in Nat /\ 0 <= call.room
BY InvParts DEF Fitting, CallTyped, StateTyped, Settled, At, Idle, HeaderStages

LEMMA SFrameSizeRead ==
  ASSUME DecoderInv, FramesAssumption, NEW bytes, NEW k \in Nat, k <= call.left,
         NEW s \in {"GetSFrameSize", "StoreSFrameSize"}, At(s),
         SFrameSize(bytes, k), store' \in Seq(Nat),
         UNCHANGED <<remaining, maxBlockSize, BufferState, out>>
  PROVE  DecoderInv'
<1>1. /\ TypeOK /\ CallTyped /\ StateTyped /\ ~Idle /\ stage \in HeaderStages /\ frame \in Frames
      /\ call.left \in Nat /\ call.room \in Nat /\ 0 \in Nat /\ 0 <= call.room
  BY InSkippable
<1> DEFINE l == Recover(laid, bytes).item
<1>2. /\ target' = l.length /\ info' = [info EXCEPT !.contentSize = l.length]
      /\ stage' = "SkipSkippable" /\ Again(k, 0) /\ l.kind = "skippableSize"
  BY DEF SFrameSize
<1>3. l.length \in Nat
  BY <1>1, <1>2, RecoveredType
<1> HIDE DEF l
<1>4. CallTyped'
  BY <1>1, <1>2, AgainTyped
<1>5. info' \in Infos
  BY <1>1, <1>2, <1>3, Zenon DEF StateTyped, Infos
<1>6. StateTyped'
  BY <1>1, <1>2, <1>3, <1>5 DEF StateTyped, BufferState, Stages
<1>7. Gathered'
  BY <1>2 DEF Gathered
<1>8. QED  BY <1>1, <1>2, <1>4, <1>6, <1>7, SkippingPass DEF BufferState, HeaderStages

LEMMA SkippablePass ==
  ASSUME DecoderInv, FramesAssumption, GetSFrameSize \/ StoreSFrameSize \/ SkipSkippable
  PROVE  DecoderInv'
<1>1. CASE GetSFrameSize
  <2>0. At("GetSFrameSize") /\ UNCHANGED <<remaining, maxBlockSize, BufferState, out>>
    BY <1>1 DEF GetSFrameSize
  <2>1. /\ TypeOK /\ CallTyped /\ StateTyped /\ ~Idle /\ stage \in HeaderStages
        /\ call.left \in Nat /\ call.room \in Nat /\ 0 \in Nat /\ 0 <= call.room
    BY <2>0, InSkippable
  <2>2. CASE call.left >= Word /\ SFrameSize(Src(Word), Word) /\ UNCHANGED store
    BY <2>0, <2>1, <2>2, SFrameSizeRead DEF Word, StateTyped
  <2>3. CASE /\ store' = <<0, 0, 0, 0>> /\ target' = 8 /\ stage' = "StoreSFrameSize"
             /\ Again(0, 0) /\ UNCHANGED info
    <3>1. CallTyped'
      BY <2>1, <2>3, AgainTyped
    <3>2. store' \in Seq(Nat) /\ Len(store') = 4
      BY <2>3
    <3>3. StateTyped'
      BY <2>0, <2>1, <2>3, <3>2 DEF StateTyped, BufferState, Stages
    <3>4. Gathered'
      BY <2>3, <3>2 DEF Gathered
    <3>5. QED  BY <2>0, <2>1, <2>3, <3>1, <3>3, <3>4, SkippingPass DEF BufferState, HeaderStages
  <2>4. QED  BY <1>1, <2>2, <2>3 DEF GetSFrameSize
<1>2. CASE StoreSFrameSize
  <2>0. At("StoreSFrameSize") /\ UNCHANGED <<remaining, maxBlockSize, BufferState, out>>
    BY <1>2 DEF StoreSFrameSize
  <2>1. /\ TypeOK /\ CallTyped /\ StateTyped /\ ~Idle /\ stage \in HeaderStages
        /\ call.left \in Nat /\ call.room \in Nat /\ 0 \in Nat /\ 0 <= call.room
        /\ target \in Nat /\ Len(store) <= target /\ stage = "StoreSFrameSize" /\ target = 8
        /\ verdict = "open"
    BY <2>0, InSkippable DEF Gathered
  <2> DEFINE k == Wanted
             bytes == Stored(k)
  <2>2. k \in Nat /\ k <= call.left /\ bytes \in Seq(Nat) /\ Len(bytes) <= target
    <3>1. k = FieldRest(target)
      BY DEF Wanted
    <3>2. QED  BY <2>1, <3>1, FieldRestType
  <2> HIDE DEF k, bytes
  <2>3. CASE /\ store' = bytes /\ Len(bytes) < target
             /\ Stop(k, target - Len(bytes)) /\ UNCHANGED <<stage, target, info>>
    <3>1. target - Len(bytes) \in Nat
      BY <2>1, <2>2, <2>3
    <3>2. CallTyped' /\ verdict' = verdict
      BY <2>1, <2>2, <2>3, <3>1, StopTyped
    <3>3. StateTyped'
      BY <2>0, <2>1, <2>2, <2>3 DEF StateTyped, BufferState
    <3>4. Gathered'
      BY <2>1, <2>2, <2>3 DEF Gathered
    <3>5. QED  BY <2>0, <2>1, <2>3, <3>2, <3>3, <3>4, SkippingPass DEF BufferState
  <2>4. CASE /\ store' = bytes
             /\ SFrameSize(SubSeq(bytes, Word + 1, Len(bytes)), k)
    BY <2>0, <2>1, <2>2, <2>4, SFrameSizeRead
  <2>5. QED  BY <1>2, <2>3, <2>4 DEF StoreSFrameSize, k, bytes
<1>3. CASE SkipSkippable
  <2>0. At("SkipSkippable")
    BY <1>3 DEF SkipSkippable
  <2>1. /\ TypeOK /\ CallTyped /\ StateTyped /\ ~Idle /\ stage \in HeaderStages
        /\ call.left \in Nat /\ target \in Nat /\ stage = "SkipSkippable"
    BY <2>0, InSkippable
  <2> DEFINE k == SkipSize
  <2>2. k \in Nat /\ k <= target /\ target - k \in Nat
    BY <2>1 DEF SkipSize, Smaller
  <2>3. /\ target' = target - k /\ UNCHANGED <<store, Untouched>>
        /\ \/ Complete(k)
           \/ Stop(k, target') /\ UNCHANGED <<stage, dict, skip, remaining, out>>
    BY <1>3 DEF SkipSkippable
  <2> HIDE DEF k
  <2>4. CASE Complete(k)
    <3>1. /\ CallTyped' /\ out' = out
          /\ stage' = "GetFrameHeader"
          /\ stage' \in Stages /\ dict' \in Seq(Int) /\ skip' \in BOOLEAN /\ remaining' \in Int
      BY <2>1, <2>2, <2>4, CompleteTyped, Zenon
    <3>2. target' \in Nat
      BY <2>2, <2>3
    <3>3. StateTyped'
      BY <2>1, <2>3, <3>1, <3>2 DEF StateTyped, Untouched
    <3>4. Gathered'
      BY <3>1 DEF Gathered
    <3>5. QED  BY <2>1, <2>3, <3>1, <3>3, <3>4, SkippingPass DEF Untouched, HeaderStages
  <2>5. CASE Stop(k, target') /\ UNCHANGED <<stage, dict, skip, remaining, out>>
    <3>1. target' \in Nat
      BY <2>2, <2>3
    <3>2. CallTyped'
      BY <2>1, <2>2, <2>5, <3>1, StopTyped
    <3>3. StateTyped'
      BY <2>1, <2>3, <2>5, <3>1 DEF StateTyped, Untouched
    <3>4. Gathered'
      BY <2>1, <2>5 DEF Gathered
    <3>5. QED  BY <2>1, <2>3, <2>5, <3>2, <3>3, <3>4, SkippingPass DEF Untouched
  <2>6. QED  BY <2>3, <2>4, <2>5
<1>4. QED  BY <1>1, <1>2, <1>3

-----------------------------------------------------------------------------
(* The calls.                                                              *)

(* A step between passes: the buffers and what is gathered stay.           *)
LEMMA BetweenPasses ==
  ASSUME DecoderInv, CallTyped', StateTyped', Gathered',
         UNCHANGED <<info, maxBlockSize, maxBufferSize, tmpInRoom, target>>,
         stage' \in {stage, "GetFrameHeader"}
  PROVE  DecoderInv'
<1>1. Allocated /\ Provided /\ BuffersFit /\ BufferNeeded' = BufferNeeded
  BY InvParts DEF Fitting, BufferNeeded
<1>2. Allocated'
  BY <1>1 DEF Allocated
<1>3. CASE stage' = stage
  BY <1>1, <1>2, <1>3, InvWhole DEF Provided, BuffersFit, Fitting
<1>4. CASE stage' = "GetFrameHeader"
  BY <1>1, <1>2, <1>4, InvWhole DEF Provided, BuffersFit, Fitting, HeaderStages
<1>5. QED  BY <1>3, <1>4

LEMMA DictionaryType == Dictionary \in Seq(Int) /\ Len(Dictionary) = DictLength
BY OffersNatural DEF Dictionary

LEMMA CallSteps ==
  ASSUME DecoderInv, FramesAssumption,
         \/ \E n \in Pieces :
              \/ \E room \in Rooms, asked \in BOOLEAN : Decompress(n, room, asked)
              \/ GetFrameInfoRefused(n)
         \/ GetFrameInfoAfter
  PROVE  DecoderInv'
<1>1. /\ CallTyped /\ StateTyped /\ Gathered
  BY InvParts DEF Fitting
<1>2. CASE \E n \in Pieces, room \in Rooms, asked \in BOOLEAN : Decompress(n, room, asked)
  <2>1. PICK n \in Pieces, room \in Rooms, asked \in BOOLEAN : Decompress(n, room, asked)
    BY <1>2
  <2>2. n \in Nat /\ room \in Nat
    BY OffersNatural
  <2>3. CallTyped'
    BY <1>1, <2>1, <2>2 DEF CallTyped, Settled, Idle, Decompress
  <2>4. dict' \in Seq(Int) /\ skip' \in BOOLEAN
    BY <1>1, <2>1, DictionaryType DEF Decompress, SkipAfter, StateTyped
  <2>5. StateTyped'
    BY <1>1, <2>1, <2>4 DEF StateTyped, Decompress
  <2>6. laid' = laid /\ CrcSize' = CrcSize
    BY <2>1 DEF laid, Decompress, CrcSize
  <2>7. Gathered'
    BY <1>1, <2>1, <2>6 DEF Gathered, Decompress
  <2>8. QED  BY <2>1, <2>3, <2>5, <2>7, BetweenPasses DEF Decompress
<1>3. ASSUME UNCHANGED <<dctx, verdict, frame, lenient, opened, pos, hint, out>>, Ask,
             call' \in {call, [op |-> "frameInfo", left |-> 0, room |-> 0]}
      PROVE  DecoderInv'
  <2>1. asks' \in 0..MaxAsks
    BY <1>1, <1>3, OffersNatural DEF Ask, CallTyped
  <2>2. CallTyped'
    <3>1. call' \in [op : {"none", "decompress", "frameInfo"}, left : Nat, room : Nat]
      BY <1>1, <1>3 DEF CallTyped
    <3>2. verdict = "open"
      BY <1>3 DEF Ask
    <3>3. QED  BY <1>1, <1>3, <2>1, <3>1, <3>2 DEF CallTyped, Settled
  <2>3. StateTyped'
    BY <1>1, <1>3 DEF StateTyped, dctx
  <2>4. laid' = laid /\ CrcSize' = CrcSize
    BY <1>3 DEF laid, dctx, CrcSize
  <2>5. Gathered'
    BY <1>1, <1>3, <2>4 DEF Gathered, dctx
  <2>6. QED  BY <1>3, <2>2, <2>3, <2>5, BetweenPasses DEF dctx
<1>4. CASE \E n \in Pieces : GetFrameInfoRefused(n)
  BY <1>3, <1>4 DEF GetFrameInfoRefused
<1>5. CASE GetFrameInfoAfter
  BY <1>3, <1>5 DEF GetFrameInfoAfter
<1>6. QED  BY <1>2, <1>4, <1>5

LEMMA HeaderAsked ==
  ASSUME DecoderInv, FramesAssumption, NEW n \in Pieces, GetFrameInfoHeader(n)
  PROVE  DecoderInv'
<1>1. /\ CallTyped /\ StateTyped /\ Gathered /\ frame \in Frames /\ pos \in Nat
      /\ stage = "GetFrameHeader" /\ verdict = "open" /\ frame' = frame
      /\ UNCHANGED BufferState /\ out' = out /\ n \in Nat
  BY InvParts, OffersNatural DEF Fitting, GetFrameInfoHeader, CallTyped, Ask
<1> DEFINE bytes == Src(HeaderSize)
<1>2. HeaderSize \in Nat /\ HeaderSize >= HeaderSizeMin
  <2>1. laid[1].item.kind = "header" => laid[1].item.size \in HeaderSizeMin..HeaderSizeMax
    BY <1>1, FirstItemTyped DEF ItemTyped
  <2>2. HeaderSize \in HeaderSizeMin..HeaderSizeMax
    BY <2>1 DEF HeaderSize, Word, HeaderSizeMin, HeaderSizeMax
  <2>3. QED  BY <2>2 DEF HeaderSizeMin, HeaderSizeMax
<1>3. bytes \in Seq(Nat) /\ Len(bytes) = HeaderSize
  <2> HIDE DEF bytes
  <2>1. QED  BY <1>1, <1>2, SrcType DEF bytes
<1> HIDE DEF bytes
<1>4. asks' \in 0..MaxAsks
  BY <1>1, OffersNatural DEF GetFrameInfoHeader, Ask, CallTyped
<1>5. Idle /\ call' = call
  BY DEF GetFrameInfoHeader, Ask
<1>6. CASE /\ info' = NoInfo /\ verdict' = "rejected"
           /\ UNCHANGED <<stage, remaining, maxBlockSize, store, target, pos, hint>>
  <2>1. CallTyped'
    BY <1>1, <1>4, <1>5, <1>6 DEF CallTyped, GetFrameInfoHeader, Settled, Idle
  <2>2. Fitting' /\ BuffersFit'
    <3>1. store' \in Seq(Nat)
      BY <1>1, <1>6 DEF StateTyped
    <3>2. QED  BY <1>1, <1>6, <3>1, HeaderRefused
  <2>3. QED  BY <2>1, <2>2, InvWhole
<1>7. CASE /\ ~HeaderBad(bytes) /\ DecodeHeader(bytes, FALSE)
           /\ pos' = HeaderUsed(bytes) /\ hint' = BHSize /\ UNCHANGED verdict
  <2>1. HeaderUsed(bytes) \in Nat
    BY <1>1, <1>2, <1>3, <1>7, HeaderUsedType
  <2>2. CallTyped'
    <3>1. pos' \in Nat /\ hint' \in Nat
      BY <1>7, <2>1 DEF BHSize
    <3>2. QED  BY <1>1, <1>4, <1>5, <1>7, <3>1 DEF CallTyped, GetFrameInfoHeader, Settled, Idle
  <2>3. Fitting' /\ BuffersFit'
    BY <1>1, <1>2, <1>3, <1>7, HeaderRead, Zenon
  <2>4. QED  BY <2>2, <2>3, InvWhole
<1>8. QED  BY <1>6, <1>7, Zenon DEF GetFrameInfoHeader, bytes

LEMMA FrameSteps ==
  ASSUME DecoderInv, Rested, NextFrame \/ Reset PROVE DecoderInv'
<1>1. /\ CallTyped /\ StateTyped
  BY InvParts DEF Fitting
<1>2. OpenFrame
  BY DEF NextFrame, Reset
<1>3. opened' \in 1..MaxFrames /\ asks' \in 0..MaxAsks /\ hint' \in Nat /\ out' \in Seq(Nat)
  <2>1. opened \in Nat /\ opened >= 1 /\ MaxFrames \in Nat /\ MaxAsks \in Nat
    BY <1>1, OffersNatural DEF CallTyped
  <2>2. opened' \in 1..MaxFrames /\ asks' \in 0..MaxAsks
    BY <1>2, <2>1 DEF OpenFrame
  <2>3. out' = <<>> /\ hint' \in Nat
    BY <1>2 DEF OpenFrame, HeaderSizeMin
  <2>4. QED  BY <2>2, <2>3
<1>4. CallTyped'
  BY <1>1, <1>2, <1>3, Zenon DEF CallTyped, OpenFrame, Settled
<1>5. stage' = "GetFrameHeader" /\ dict' \in Seq(Int) /\ skip' \in BOOLEAN /\ remaining' \in Int
  <2>1. CASE NextFrame
    BY <1>1, <2>1 DEF NextFrame, dctx, StateTyped, Rested
  <2>2. CASE Reset
    <3>1. stage' = "GetFrameHeader" /\ dict' = <<>> /\ skip' = FALSE /\ remaining' = 0
      BY <2>2 DEF Reset, ResetDctx
    <3>2. <<>> \in Seq(Int)
      OBVIOUS
    <3>3. dict' \in Seq(Int)
      BY <3>1, <3>2
    <3>4. skip' \in BOOLEAN
      BY <3>1, Zenon
    <3>5. QED  BY <3>1, <3>3, <3>4
  <2>3. QED  BY <2>1, <2>2
<1>6. UNCHANGED <<info, maxBlockSize, maxBufferSize, tmpInRoom, store, target, tmpOut,
                  xxh, blockXxh>>
  BY DEF NextFrame, dctx, Reset
<1>7. StateTyped'
  BY <1>1, <1>3, <1>5, <1>6 DEF StateTyped, Stages
<1>8. Gathered'
  BY <1>5 DEF Gathered
<1>9. QED  BY <1>4, <1>5, <1>6, <1>7, <1>8, BetweenPasses

-----------------------------------------------------------------------------
(* The invariant holds.                                                    *)

(* Only the last pass over a frame completes it.                           *)
LEMMA RestedStep ==
  ASSUME DecoderInv, Rested, [Next]_vars PROVE Rested'
<1>1. \A k : Complete(k) => Rested'
  BY DEF Complete, ResetDctx, Rested
<1>2. \A k, h : Stop(k, h) /\ ~Idle => Rested'
  BY InvParts DEF Stop, Rested, CallTyped, Settled
<1>3. \A k, w : Again(k, w) /\ ~Idle => Rested'
  BY InvParts DEF Again, Rested, CallTyped, Settled
<1>4. \A e : Fail(e) => Rested'
  BY DEF Fail, Rested
<1>5. ASSUME Pass PROVE Rested'
  <2>1. ~Idle
    BY <1>5, Zenon DEF Pass, GetFrameHeader, StoreFrameHeader, InitFrame, GetBlockHeader,
      StoreBlockHeader, CopyDirect, GetBlockChecksum, GetCBlock, StoreCBlock, FlushOut,
      GetSuffix, StoreSuffix, GetSFrameSize, StoreSFrameSize, SkipSkippable, At, Idle
  <2>2. CASE GetFrameHeader \/ StoreFrameHeader \/ InitFrame
    BY <1>2, <1>3, <1>4, <2>1, <2>2, Zenon
    DEF GetFrameHeader, StoreFrameHeader, InitFrame, HeaderFails
  <2>3. CASE GetBlockHeader \/ StoreBlockHeader
    BY <1>2, <1>3, <1>4, <2>1, <2>3 DEF GetBlockHeader, StoreBlockHeader, DecodeBlockHeader
  <2>4. CASE CopyDirect \/ GetBlockChecksum \/ FlushOut
    BY <1>2, <1>3, <1>4, <2>1, <2>4 DEF CopyDirect, GetBlockChecksum, FlushOut
  <2>5. CASE GetCBlock \/ StoreCBlock
    BY <1>2, <1>3, <1>4, <2>1, <2>5 DEF GetCBlock, StoreCBlock, DecodeCBlock
  <2>6. CASE GetSuffix \/ StoreSuffix
    BY <1>1, <1>2, <1>3, <1>4, <2>1, <2>6 DEF GetSuffix, StoreSuffix, CheckContentCrc
  <2>7. CASE GetSFrameSize \/ StoreSFrameSize \/ SkipSkippable
    BY <1>1, <1>2, <1>3, <2>1, <2>7
    DEF GetSFrameSize, StoreSFrameSize, SkipSkippable, SFrameSize
  <2>8. QED  BY <1>5, <2>2, <2>3, <2>4, <2>5, <2>6, <2>7 DEF Pass
<1>6. CASE OpenFrame
  BY <1>6 DEF OpenFrame, Rested
<1>7. ASSUME verdict = "open", verdict' \in {"open", "rejected"} PROVE Rested'
  BY <1>7 DEF Rested
<1>8. ASSUME NEW n, NEW room, NEW asked, Decompress(n, room, asked) PROVE Rested'
  BY <1>7, <1>8 DEF Decompress
<1>9. ASSUME NEW n, GetFrameInfoRefused(n) \/ GetFrameInfoHeader(n) \/ GetFrameInfoAfter
      PROVE  Rested'
  BY <1>7, <1>9, Zenon DEF GetFrameInfoRefused, GetFrameInfoHeader, GetFrameInfoAfter, Ask
<1>10. CASE UNCHANGED vars
  BY <1>10 DEF vars, dctx, Rested
<1>11. QED  BY <1>5, <1>6, <1>8, <1>9, <1>10 DEF Next, NextFrame, Reset, Done

LEMMA DecoderStep ==
  ASSUME DecoderInv, Rested, FramesAssumption, [Next]_vars PROVE DecoderInv'
<1>1. CASE Pass
  BY <1>1, HeaderPass, InitFramePass, BlockHeaderPass, CopyDirectPass,
     GetBlockChecksumPass, BlockBodyPass, FlushOutPass, SuffixPass, SkippablePass DEF Pass
<1>2. CASE \E n \in Pieces : GetFrameInfoHeader(n)
  BY <1>2, HeaderAsked
<1>3. CASE \/ \E n \in Pieces :
                \/ \E room \in Rooms, asked \in BOOLEAN : Decompress(n, room, asked)
                \/ GetFrameInfoRefused(n)
           \/ GetFrameInfoAfter
  BY <1>3, CallSteps
<1>4. CASE NextFrame \/ Reset
  BY <1>4, FrameSteps
<1>5. CASE UNCHANGED vars
  <2>1. CallTyped'
    BY <1>5, InvParts DEF CallTyped, vars, client, Settled, Idle
  <2>2. StateTyped'
    BY <1>5, InvParts DEF StateTyped, Fitting, vars, dctx
  <2>3. Gathered'
    BY <1>5, InvParts DEF Gathered, Fitting, vars, dctx, client, laid, CrcSize
  <2>4. QED  BY <1>5, <2>1, <2>2, <2>3, BetweenPasses DEF vars, dctx
<1>6. QED  BY <1>1, <1>2, <1>3, <1>4, <1>5 DEF Next, Done

LEMMA DecoderInit ==
  ASSUME Init PROVE DecoderInv /\ Rested
<1>1. CallTyped
  <2>1. 1 \in 1..MaxFrames /\ 0 \in 0..MaxAsks
    BY OffersNatural
  <2>2. lenient \in BOOLEAN
    BY Zenon DEF Init
  <2>3. QED  BY <2>1, <2>2 DEF Init, CallTyped, NoCall, HeaderSizeMin, Settled, Idle
<1>2. StateTyped
  <2>1. <<>> \in Seq(Nat) /\ <<>> \in Seq(Int)
    OBVIOUS
  <2>2. NoInfo \in Infos
    BY DEF NoInfo, Infos
  <2>3. /\ store \in Seq(Nat) /\ tmpOut \in Seq(Nat) /\ xxh \in Seq(Nat)
        /\ blockXxh \in Seq(Nat) /\ out \in Seq(Nat) /\ dict \in Seq(Int)
    BY <2>1 DEF Init
  <2>4. skip \in BOOLEAN
    BY Zenon DEF Init
  <2>5. QED  BY <2>2, <2>3, <2>4 DEF Init, StateTyped, Stages
<1>3. Allocated /\ Provided /\ Gathered /\ BuffersFit /\ Rested
  BY DEF Init, Allocated, Provided, Gathered, BuffersFit, Rested, HeaderStages
<1>4. QED  BY <1>1, <1>2, <1>3 DEF DecoderInv, TypeOK, CallTyped, StateTyped

LEMMA DecoderInvariant ==
  ASSUME FramesAssumption PROVE Spec => [](DecoderInv /\ Rested)
<1>1. Init => DecoderInv /\ Rested
  BY DecoderInit
<1>2. DecoderInv /\ Rested /\ [Next]_vars => (DecoderInv /\ Rested)'
  BY DecoderStep, RestedStep
<1>3. QED  BY <1>1, <1>2, PTL DEF Spec

(* The decoder's variables have their types, and the buffers kept from     *)
(* frame to frame are as large as what is gathered in them, whatever       *)
(* frames came before, however they ended and however they were cut into   *)
(* calls (frame.rs 1131-1157).                                             *)
THEOREM BuffersLargeEnough ==
  ASSUME FramesAssumption PROVE Spec => []TypeOK
<1>1. DecoderInv /\ Rested => TypeOK
  BY DEF DecoderInv
<1>2. QED  BY <1>1, DecoderInvariant, PTL

-----------------------------------------------------------------------------
(* The history a block is decoded against.                                 *)

Seed == IF frame.dictionary THEN Dictionary ELSE <<>>
Past == IF info.linked THEN Seed \o out ELSE Seed

(* d is the end of p, and all of it or at least a window's worth.          *)
Ends(d, p) == Len(d) >= Smaller(Len(p), K64) /\ LastBytes(p, Len(d)) = d

(* The inductive invariant: until the first block the history is the       *)
(* dictionary or about to be; from then on it is the end of what is past.  *)
Seeding ==
  /\ call.op = "frameInfo" => stage \notin {"GetFrameHeader", "StoreFrameHeader"}
  /\ verdict = "open" /\ stage \in {"GetFrameHeader", "StoreFrameHeader", "Init"} =>
       /\ out = <<>>
       /\ dict = Seed \/ (dict = <<>> /\ call.op # "decompress")
       /\ stage = "Init" /\ call.op = "none" => asks >= 1
       /\ stage = "Init" /\ call.op = "frameInfo" => asks >= 2
  /\ /\ verdict = "open" /\ stage \in BlockStages
     /\ frame.dictionary => asks <= 1
     => Ends(dict, Past)

(* Being the end of what is past survives a block: the window is cut from  *)
(* what was kept as it would be from all of it.                            *)
LEMMA EndsMoves ==
  ASSUME NEW S, NEW d \in Seq(S), NEW p \in Seq(S), NEW b \in Seq(S), Ends(d, p)
  PROVE  Ends(LastBytes(d \o b, K64), p \o b)
<1> DEFINE db == d \o b
           pb == p \o b
           e == LastBytes(db, K64)
           x == LastBytes(pb, Len(e))
<1>1. K64 \in Nat /\ Len(d) \in Nat /\ Len(p) \in Nat /\ Len(b) \in Nat
  BY BlockUnitPositive
<1>2. /\ db \in Seq(S) /\ Len(db) = Len(d) + Len(b)
      /\ pb \in Seq(S) /\ Len(pb) = Len(p) + Len(b)
      /\ \A i \in 1..(Len(d) + Len(b)) : db[i] = IF i <= Len(d) THEN d[i] ELSE b[i - Len(d)]
      /\ \A i \in 1..(Len(p) + Len(b)) : pb[i] = IF i <= Len(p) THEN p[i] ELSE b[i - Len(p)]
  BY ConcatProperties
<1>3. /\ Len(d) <= Len(p)
      /\ \A i \in 1..Len(d) : d[i] = p[Len(p) - Len(d) + i]
      /\ Len(d) >= Smaller(Len(p), K64)
  <2>1. /\ Len(LastBytes(p, Len(d))) = Smaller(Len(p), Len(d))
        /\ \A i \in 1..Len(LastBytes(p, Len(d))) :
             LastBytes(p, Len(d))[i] = p[Len(p) - Len(LastBytes(p, Len(d))) + i]
    BY <1>1, LastBytesType
  <2>2. LastBytes(p, Len(d)) = d /\ Len(d) >= Smaller(Len(p), K64)
    BY DEF Ends
  <2>3. Len(d) = Smaller(Len(p), Len(d))
    BY <2>1, <2>2
  <2>4. Len(d) <= Len(p)
    BY <1>1, <2>3 DEF Smaller
  <2>5. \A i \in 1..Len(d) : d[i] = p[Len(p) - Len(d) + i]
    BY <2>1, <2>2, Zenon
  <2>6. QED  BY <2>2, <2>4, <2>5
<1> HIDE DEF db, pb
<1>4. /\ e \in Seq(S) /\ Len(e) = Smaller(Len(d) + Len(b), K64)
      /\ \A i \in 1..Len(e) : e[i] = db[Len(db) - Len(e) + i]
  <2>1. db \in Seq(S) /\ Len(db) = Len(d) + Len(b)
    BY <1>2
  <2>2. /\ e \in Seq(S) /\ Len(e) = Smaller(Len(db), K64)
        /\ \A i \in 1..Len(e) : e[i] = db[Len(db) - Len(e) + i]
    BY <1>1, <2>1, LastBytesType, Zenon
  <2> HIDE DEF e
  <2>3. QED  BY <2>1, <2>2
<1> HIDE DEF e
<1> DEFINE m == Len(e)
<1>5. m \in Nat /\ m = Smaller(Len(d) + Len(b), K64)
  BY <1>4
<1>6. /\ x \in Seq(S) /\ Len(x) = Smaller(Len(p) + Len(b), m)
      /\ \A i \in 1..Len(x) : x[i] = pb[Len(pb) - Len(x) + i]
  <2>1. pb \in Seq(S) /\ Len(pb) = Len(p) + Len(b) /\ Len(e) \in Nat
    BY <1>2, <1>4
  <2>2. /\ x \in Seq(S) /\ Len(x) = Smaller(Len(pb), Len(e))
        /\ \A i \in 1..Len(x) : x[i] = pb[Len(pb) - Len(x) + i]
    BY <2>1, LastBytesType, Zenon
  <2> HIDE DEF x
  <2>3. QED  BY <2>1, <2>2
<1> HIDE DEF x, m
<1>7. m <= Len(p) + Len(b) /\ m <= Len(d) + Len(b)
  BY <1>1, <1>3, <1>5 DEF Smaller
<1>8. Len(x) = m /\ Len(e) = m
  BY <1>1, <1>5, <1>6, <1>7 DEF Smaller, m
<1>9. ASSUME NEW i \in 1..m PROVE x[i] = e[i]
  <2> DEFINE j == Len(d) + Len(b) - m + i
             l == Len(p) + Len(b) - m + i
  <2>1. e[i] = db[j] /\ x[i] = pb[l]
    <3>1. i \in 1..Len(e) /\ i \in 1..Len(x)
      BY <1>8
    <3>2. e[i] = db[Len(db) - Len(e) + i] /\ x[i] = pb[Len(pb) - Len(x) + i]
      BY <1>4, <1>6, <3>1
    <3>3. Len(db) - Len(e) + i = j /\ Len(pb) - Len(x) + i = l
      BY <1>2, <1>8
    <3> HIDE DEF j, l
    <3>4. QED  BY <3>2, <3>3
  <2>2. j \in 1..(Len(d) + Len(b)) /\ l \in 1..(Len(p) + Len(b)) /\ l = Len(p) - Len(d) + j
    BY <1>1, <1>3, <1>5, <1>7
  <2> HIDE DEF j, l
  <2>3. CASE j <= Len(d)
    <3>1. j \in 1..Len(d) /\ l <= Len(p)
      BY <1>1, <2>2, <2>3
    <3>2. db[j] = d[j] /\ pb[l] = p[l]
      BY <1>2, <2>2, <2>3, <3>1, Zenon
    <3>3. d[j] = p[l]
      BY <1>3, <2>2, <3>1
    <3>4. QED  BY <2>1, <3>2, <3>3
  <2>4. CASE ~(j <= Len(d))
    <3>1. ~(l <= Len(p)) /\ j - Len(d) = l - Len(p)
      BY <1>1, <2>2, <2>4
    <3>2. db[j] = b[j - Len(d)] /\ pb[l] = b[l - Len(p)]
      BY <1>2, <2>2, <2>4, <3>1, Zenon
    <3>3. QED  BY <2>1, <3>1, <3>2
  <2>5. QED  BY <2>3, <2>4
<1>10. x = e
  BY <1>4, <1>6, <1>8, <1>9, SeqEqual, Zenon
<1>11. m >= Smaller(Len(pb), K64)
  BY <1>1, <1>2, <1>3, <1>5 DEF Smaller
<1>12. Ends(e, pb)
  BY <1>8, <1>10, <1>11 DEF Ends, x
<1>13. QED  BY <1>12 DEF e, db, pb

(* Concatenation under a name, for the provers.                            *)
Joined(s, t) == s \o t

LEMMA JoinedAssociative ==
  ASSUME NEW S, NEW s \in Seq(S), NEW t \in Seq(S), NEW u \in Seq(S)
  PROVE  Joined(s, Joined(t, u)) = Joined(Joined(s, t), u)
BY ConcatAssociative, SMTT(60) DEF Joined

LEMMA EndsItself ==
  ASSUME NEW S, NEW s \in Seq(S) PROVE Ends(s, s)
<1>1. Len(s) \in Nat /\ K64 \in Nat
  BY BlockUnitPositive
<1>2. QED  BY <1>1 DEF Ends, LastBytes, Smaller

LEMMA PastType ==
  ASSUME TypeOK PROVE Seed \in Seq(Int) /\ Past \in Seq(Int)
<1>1. Seed \in Seq(Int)
  BY DictionaryType DEF Seed
<1>2. out \in Seq(Int)
  BY DEF TypeOK
<1>3. QED  BY <1>1, <1>2, JoinedType DEF Past

(* The three things a pass over blocks may do to the history.              *)
LEMMA SeedKept ==
  ASSUME Seeding, verdict = "open", stage \in BlockStages, stage' \in BlockStages,
         UNCHANGED <<dict, out, info, frame, asks>>
  PROVE  Seeding'
<1>1. Past' = Past /\ Seed' = Seed
  BY DEF Past, Seed
<1>2. QED  BY <1>1 DEF Seeding, BlockStages, HeaderStages

LEMMA SeedMoved ==
  ASSUME Seeding, TypeOK, verdict = "open", stage \in BlockStages, stage' \in BlockStages,
         NEW data \in Seq(Nat), KeepHistory(data), out' = out \o data,
         UNCHANGED <<info, frame, asks>>
  PROVE  Seeding'
<1>1. /\ dict \in Seq(Int) /\ out \in Seq(Int) /\ data \in Seq(Int)
      /\ Seed \in Seq(Int) /\ Past \in Seq(Int) /\ Seed' = Seed
  BY PastType, SMTT(60) DEF TypeOK, Seed
<1>2. ASSUME Ends(dict, Past) PROVE Ends(dict', Past')
  <2>1. CASE info.linked
    <3>1. dict' = LastBytes(dict \o data, K64)
      BY <2>1 DEF KeepHistory, DictAfter
    <3>2. Past = Seed \o out /\ Past' = Seed \o (out \o data)
      BY <1>1, <2>1, Zenon DEF Past
    <3>3. Past' = Past \o data
      <4>1. Joined(Seed, Joined(out, data)) = Joined(Joined(Seed, out), data)
        BY <1>1, JoinedAssociative
      <4>2. QED  BY <3>2, <4>1 DEF Joined
    <3>4. QED  BY <1>1, <1>2, <3>1, <3>3, EndsMoves
  <2>2. CASE ~info.linked
    BY <1>1, <1>2, <2>2 DEF KeepHistory, Past
  <2>3. QED  BY <2>1, <2>2
<1>3. QED  BY <1>2 DEF Seeding, BlockStages, HeaderStages

LEMMA SeedOver ==
  ASSUME verdict' # "open", call'.op = "none" PROVE Seeding'
BY DEF Seeding

(* The first pass past the header: the dictionary is there.                *)
LEMMA SeedFirst ==
  ASSUME Seeding, TypeOK, ~Idle, verdict = "open", InitFrame, UNCHANGED <<frame, asks>>
  PROVE  Seeding'
<1>1. stage = "Init" /\ stage' = "GetBlockHeader" /\ UNCHANGED <<dict, out, info>>
  BY DEF InitFrame, At
<1>2. out = <<>> /\ Seed' = Seed /\ Past' = Past
  BY <1>1 DEF Seeding, Seed, Past
<1>3. Past = Seed
  BY <1>2, PastType DEF Past
<1>4. ASSUME frame.dictionary => asks <= 1 PROVE dict = Seed
  <2>1. call.op \in {"decompress", "frameInfo"}
    BY DEF TypeOK, Idle
  <2>2. CASE call.op = "decompress"
    BY <1>1, <2>2 DEF Seeding
  <2>3. CASE call.op = "frameInfo"
    <3>1. asks >= 2 /\ asks \in Nat
      BY <1>1, <2>3, OffersNatural DEF Seeding, TypeOK
    <3>2. ~frame.dictionary
      BY <1>4, <3>1
    <3>3. Seed = <<>> /\ dict \in {Seed, <<>>}
      BY <1>1, <3>2 DEF Seeding, Seed
    <3>4. QED  BY <3>3
  <2>4. QED  BY <2>1, <2>2, <2>3
<1>5. Ends(Seed, Seed)
  BY PastType, EndsItself
<1>6. QED  BY <1>1, <1>2, <1>3, <1>4, <1>5 DEF Seeding

(* Up to there nothing touches it.                                         *)
LEMMA SeedHeader ==
  ASSUME Seeding, verdict = "open", ~Idle, call' = NoCall \/ call'.op = call.op,
         stage \in {"GetFrameHeader", "StoreFrameHeader"},
         UNCHANGED <<dict, out, frame, asks>>,
         \/ stage' \in {stage, "StoreFrameHeader"}
         \/ stage' \in {"GetSFrameSize", "StoreSFrameSize"}
         \/ stage' = "Init" /\ call'.op = call.op
  PROVE  Seeding'
<1>1. Seed' = Seed
  BY DEF Seed
<1>2. QED  BY <1>1 DEF Seeding, Idle, NoCall, BlockStages, HeaderStages

LEMMA Endings ==
  ASSUME TypeOK
  PROVE  /\ \A k, w : Again(k, w) =>
              call'.op = call.op /\ verdict' = verdict /\ UNCHANGED <<frame, asks>>
         /\ \A k, h : Stop(k, h) =>
              call' = NoCall /\ verdict' = verdict /\ UNCHANGED <<frame, asks>>
         /\ \A e : Fail(e) => verdict' # "open" /\ call'.op = "none"
         /\ \A k : Complete(k) => verdict' # "open" /\ call'.op = "none"
<1>1. ASSUME NEW k, NEW w, Again(k, w)
      PROVE  call'.op = call.op /\ verdict' = verdict /\ UNCHANGED <<frame, asks>>
  BY <1>1 DEF Again, client, TypeOK
<1>2. ASSUME NEW k, NEW h, Stop(k, h)
      PROVE  call' = NoCall /\ verdict' = verdict /\ UNCHANGED <<frame, asks>>
  BY <1>2 DEF Stop, client
<1>3. \A e : Fail(e) => verdict' # "open" /\ call'.op = "none"
  BY DEF Fail, NoCall
<1>4. \A k : Complete(k) => verdict' # "open" /\ call'.op = "none"
  BY DEF Complete, NoCall
<1>5. QED  BY <1>1, <1>2, <1>3, <1>4

LEMMA SeedSkipping ==
  ASSUME stage' \in {"GetSFrameSize", "StoreSFrameSize", "SkipSkippable"} PROVE Seeding'
BY DEF Seeding, BlockStages, HeaderStages

LEMMA SeedPass ==
  ASSUME DecoderInv, Seeding, FramesAssumption, Pass PROVE Seeding'
<1>0. /\ TypeOK /\ ~Idle /\ verdict = "open" /\ frame \in Frames /\ pos \in Nat
      /\ call.left \in Nat /\ call.room \in Nat
  <2>1. TypeOK /\ CallTyped
    BY InvParts
  <2>2. ~Idle
    BY Zenon DEF Pass, GetFrameHeader, StoreFrameHeader, InitFrame, GetBlockHeader,
      StoreBlockHeader, CopyDirect, GetBlockChecksum, GetCBlock, StoreCBlock, FlushOut,
      GetSuffix, StoreSuffix, GetSFrameSize, StoreSFrameSize, SkipSkippable, At, Idle
  <2>3. QED  BY <2>1, <2>2 DEF CallTyped, Settled
<1>1. /\ \A k, w : Again(k, w) =>
           call'.op = call.op /\ verdict' = verdict /\ UNCHANGED <<frame, asks>>
      /\ \A k, h : Stop(k, h) =>
           call' = NoCall /\ verdict' = verdict /\ UNCHANGED <<frame, asks>>
      /\ \A e : Fail(e) => Seeding'
      /\ \A k : Complete(k) => Seeding'
  BY <1>0, Endings, SeedOver
<1>2. ASSUME NEW bytes, NEW fromHeader, DecodeHeader(bytes, fromHeader)
      PROVE  stage' \in {"StoreFrameHeader", "GetSFrameSize", "StoreSFrameSize", "Init"}
  BY <1>2 DEF DecodeHeader
<1>3. CASE GetFrameHeader
  <2>1. stage = "GetFrameHeader"
    BY <1>3 DEF GetFrameHeader, At
  <2>2. CASE HeaderFails(Src(call.left))
    BY <1>1, <2>2 DEF HeaderFails
  <2>3. CASE DecodeHeader(Src(call.left), FALSE) /\ Again(HeaderUsed(Src(call.left)), 0)
             /\ UNCHANGED <<BufferState, out>>
    BY <1>0, <1>1, <1>2, <2>1, <2>3, SeedHeader, Zenon DEF BufferState
  <2>4. CASE Stop(0, HeaderSizeMin)
             /\ UNCHANGED <<stage, info, remaining, maxBlockSize, target, BufferState, out>>
    BY <1>0, <1>1, <2>1, <2>4, SeedHeader DEF BufferState
  <2>5. CASE stage' = "StoreFrameHeader" /\ Again(0, 0)
             /\ UNCHANGED <<info, remaining, maxBlockSize, BufferState, out>>
    BY <1>0, <1>1, <2>1, <2>5, SeedHeader DEF BufferState
  <2>6. QED  BY <1>3, <2>2, <2>3, <2>4, <2>5, Zenon DEF GetFrameHeader
<1>4. CASE StoreFrameHeader
  <2> DEFINE bytes == Stored(Wanted)
  <2>1. stage = "StoreFrameHeader"
    BY <1>4 DEF StoreFrameHeader, At
  <2>2. CASE HeaderFails(bytes)
    BY <1>1, <2>2 DEF HeaderFails
  <2>3. CASE DecodeHeader(bytes, TRUE) /\ Again(Wanted, 0) /\ UNCHANGED <<BufferState, out>>
    BY <1>0, <1>1, <1>2, <2>1, <2>3, SeedHeader, Zenon DEF BufferState
  <2>4. CASE Stop(Wanted, target - Len(bytes) + BHSize)
             /\ UNCHANGED <<stage, info, remaining, maxBlockSize, target, BufferState, out>>
    BY <1>0, <1>1, <2>1, <2>4, SeedHeader DEF BufferState
  <2> HIDE DEF bytes
  <2>5. QED  BY <1>4, <2>2, <2>3, <2>4, Zenon DEF StoreFrameHeader, bytes
<1>5. CASE InitFrame
  <2>1. UNCHANGED <<frame, asks>>
    BY <1>1, <1>5 DEF InitFrame
  <2>2. QED  BY <1>0, <1>5, <2>1, SeedFirst
<1>6. ASSUME stage \in BlockStages, stage' \in BlockStages, UNCHANGED <<dict, out, info>>,
             (\E k, w : Again(k, w)) \/ (\E k, h : Stop(k, h))
      PROVE  Seeding'
  <2>1. UNCHANGED <<frame, asks>>
    BY <1>1, <1>6
  <2>2. QED  BY <1>0, <1>6, <2>1, SeedKept
<1>7. ASSUME stage \in BlockStages, stage' \in BlockStages,
             NEW data \in Seq(Nat), KeepHistory(data), out' = out \o data, UNCHANGED info,
             (\E k, w : Again(k, w)) \/ (\E k, h : Stop(k, h))
      PROVE  Seeding'
  <2>1. UNCHANGED <<frame, asks>>
    BY <1>1, <1>7
  <2>2. QED  BY <1>0, <1>7, <2>1, SeedMoved, Zenon
<1>8. ASSUME NEW bytes, NEW k, stage \in {"GetBlockHeader", "StoreBlockHeader"},
             DecodeBlockHeader(bytes, k)
      PROVE  Seeding'
  <2>1. stage \in BlockStages
    BY <1>8 DEF BlockStages, Stages, HeaderStages
  <2>2. \/ \E e : Fail(e)
        \/ /\ stage' \in {"GetSuffix", "CopyDirect", "GetCBlock"}
           /\ UNCHANGED <<BlockState, out>>
           /\ (\E l, w : Again(l, w)) \/ (\E l, h : Stop(l, h))
    BY <1>8 DEF DecodeBlockHeader
  <2>3. stage' \in {"GetSuffix", "CopyDirect", "GetCBlock"} => stage' \in BlockStages
    BY DEF BlockStages, Stages, HeaderStages
  <2>4. QED  BY <1>1, <1>6, <2>1, <2>2, <2>3 DEF BlockState
<1>9. CASE GetBlockHeader \/ StoreBlockHeader
  <2>1. stage \in {"GetBlockHeader", "StoreBlockHeader"} /\ stage \in BlockStages
    BY <1>9 DEF GetBlockHeader, StoreBlockHeader, At, BlockStages, Stages, HeaderStages
  <2>2. "StoreBlockHeader" \in BlockStages
    BY DEF BlockStages, Stages, HeaderStages
  <2>3. \/ \E bytes, k : DecodeBlockHeader(bytes, k)
        \/ /\ stage' \in {stage, "StoreBlockHeader"} /\ UNCHANGED <<BlockState, out>>
           /\ (\E l, w : Again(l, w)) \/ (\E l, h : Stop(l, h))
    BY <1>9 DEF GetBlockHeader, StoreBlockHeader
  <2>4. QED  BY <1>6, <1>8, <2>1, <2>2, <2>3 DEF BlockState
<1>10. CASE CopyDirect
  <2> DEFINE k == Smaller(target, Smaller(call.left, call.room))
             data == [i \in 1..k |-> StoredByte(laid, pos + i)]
  <2>1. k \in Nat
    BY <1>0 DEF Smaller, TypeOK
  <2>2. data \in Seq(Nat)
    <3> HIDE DEF k
    <3>1. \A i \in 1..k : StoredByte(laid, pos + i) \in Nat
      <4>1. TAKE i \in 1..k
      <4>2. pos + i \in Nat
        BY <1>0, <2>1
      <4>3. QED  BY <1>0, <4>2, StoredByteType
    <3>2. QED  BY <2>1, <3>1
  <2>3. /\ stage = "CopyDirect" /\ stage' \in {"CopyDirect", "GetBlockChecksum", "GetBlockHeader"}
        /\ out' = out \o data /\ KeepHistory(data) /\ UNCHANGED info
        /\ (\E l, w : Again(l, w)) \/ (\E l, h : Stop(l, h))
    BY <1>10 DEF CopyDirect, At
  <2> HIDE DEF data
  <2>4. stage \in BlockStages /\ stage' \in BlockStages
    BY <2>3 DEF BlockStages, Stages, HeaderStages
  <2>5. QED  BY <1>7, <2>2, <2>3, <2>4, Zenon
<1>11. CASE GetBlockChecksum
  <2>1. /\ stage = "GetBlockChecksum"
        /\ \/ \E e : Fail(e)
           \/ /\ stage' \in {stage, "GetBlockHeader"} /\ UNCHANGED <<BlockState, out>>
              /\ (\E l, w : Again(l, w)) \/ (\E l, h : Stop(l, h))
    BY <1>11 DEF GetBlockChecksum, At
  <2>2. stage \in BlockStages /\ "GetBlockHeader" \in BlockStages
    BY <2>1 DEF BlockStages, Stages, HeaderStages
  <2>3. QED  BY <1>1, <1>6, <2>1, <2>2 DEF BlockState
<1>12. ASSUME NEW block, NEW k, DecodeCBlock(block, k), stage \in {"GetCBlock", "StoreCBlock"}
       PROVE  Seeding'
  <2> DEFINE read == SubSeq(block, 1, target - CrcSize)
             item == Recover(laid, read).item
             cap(direct) == IF direct THEN maxBlockSize ELSE Smaller(maxBlockSize, maxBufferSize)
  <2>1. stage \in BlockStages /\ "GetBlockHeader" \in BlockStages /\ "FlushOut" \in BlockStages
    BY <1>12 DEF BlockStages, Stages, HeaderStages
  <2>2. maxBlockSize \in Nat /\ maxBufferSize \in Nat
    BY <1>0 DEF TypeOK
  <2>3. \A direct \in BOOLEAN : cap(direct) \in Nat
    BY <2>2 DEF Smaller
  <2>4. \A direct \in BOOLEAN : Decoded(item, cap(direct)) \subseteq Seq(Nat)
    <3> HIDE DEF read, cap
    <3>1. QED  BY <1>0, <2>3, DecodedType
  <2>5. \/ \E e : Fail(e)
        \/ \E direct \in BOOLEAN : \E data \in Decoded(item, cap(direct)) :
             /\ UNCHANGED info
             /\ \/ /\ out' = out \o data /\ KeepHistory(data) /\ stage' = "GetBlockHeader"
                   /\ \E l, w : Again(l, w)
                \/ /\ UNCHANGED <<dict, out>> /\ stage' = "FlushOut"
                   /\ \E l, w : Again(l, w)
    <3> HIDE DEF read
    <3>1. QED  BY <1>12, Zenon DEF DecodeCBlock, read
  <2> HIDE DEF item, cap
  <2>6. QED  BY <1>1, <1>6, <1>7, <2>1, <2>4, <2>5
<1>13. CASE GetCBlock \/ StoreCBlock
  <2>1. stage \in {"GetCBlock", "StoreCBlock"} /\ stage \in BlockStages
    BY <1>13 DEF GetCBlock, StoreCBlock, At, BlockStages, Stages, HeaderStages
  <2>2. "StoreCBlock" \in BlockStages
    BY DEF BlockStages, Stages, HeaderStages
  <2>3. \/ \E block, k : DecodeCBlock(block, k)
        \/ /\ stage' \in {stage, "StoreCBlock"} /\ UNCHANGED <<BlockState, out>>
           /\ (\E l, w : Again(l, w)) \/ (\E l, h : Stop(l, h))
    BY <1>13 DEF GetCBlock, StoreCBlock
  <2>4. QED  BY <1>6, <1>12, <2>1, <2>2, <2>3 DEF BlockState
<1>14. CASE FlushOut
  <2> DEFINE data == SubSeq(tmpOut, 1, Handed)
  <2>1. data \in Seq(Nat)
    BY <1>0, HandedParts
  <2>2. /\ stage = "FlushOut" /\ stage' \in {"FlushOut", "GetBlockHeader"}
        /\ out' = out \o data /\ KeepHistory(data) /\ UNCHANGED info
        /\ (\E l, w : Again(l, w)) \/ (\E l, h : Stop(l, h))
    BY <1>14 DEF FlushOut, At
  <2> HIDE DEF data
  <2>3. stage \in BlockStages /\ stage' \in BlockStages
    BY <2>2 DEF BlockStages, Stages, HeaderStages
  <2>4. QED  BY <1>7, <2>1, <2>2, <2>3, Zenon
<1>15. CASE GetSuffix \/ StoreSuffix
  <2>1. stage \in BlockStages /\ "StoreSuffix" \in BlockStages
    BY <1>15 DEF GetSuffix, StoreSuffix, At, BlockStages, Stages, HeaderStages
  <2>2. \/ \E e : Fail(e)
        \/ \E k : Complete(k)
        \/ /\ stage' \in {stage, "StoreSuffix"} /\ UNCHANGED <<dict, out, info>>
           /\ (\E l, w : Again(l, w)) \/ (\E l, h : Stop(l, h))
    BY <1>15 DEF GetSuffix, StoreSuffix, CheckContentCrc, Untouched
  <2>3. QED  BY <1>1, <1>6, <2>1, <2>2
<1>16. CASE GetSFrameSize \/ StoreSFrameSize \/ SkipSkippable
  <2>1. \/ \E k : Complete(k)
        \/ stage' \in {"GetSFrameSize", "StoreSFrameSize", "SkipSkippable"}
    BY <1>16 DEF GetSFrameSize, StoreSFrameSize, SkipSkippable, SFrameSize, At
  <2>2. QED  BY <1>1, <2>1, SeedSkipping
<1>17. QED  BY <1>3, <1>4, <1>5, <1>9, <1>10, <1>11, <1>13, <1>14, <1>15, <1>16 DEF Pass

LEMMA SeedCall ==
  ASSUME DecoderInv, Rested, Seeding, ~Pass, [Next]_vars PROVE Seeding'
<1>0. TypeOK /\ asks \in Nat
  BY InvParts, OffersNatural DEF TypeOK
<1>1. ASSUME NEW n, NEW room, NEW asked, Decompress(n, room, asked) PROVE Seeding'
  <2>1. Seed' = Seed /\ Past' = Past
    BY <1>1 DEF Decompress, Seed, Past
  <2>2. CASE stage \in {"GetFrameHeader", "StoreFrameHeader", "Init"}
    BY <1>1, <2>1, <2>2 DEF Decompress, Seeding, Seed, Idle, BlockStages, HeaderStages
  <2>3. CASE stage \notin {"GetFrameHeader", "StoreFrameHeader", "Init"}
    BY <1>1, <2>1, <2>3 DEF Decompress, Seeding
  <2>4. QED  BY <2>2, <2>3
<1>2. ASSUME NEW n, GetFrameInfoRefused(n) PROVE Seeding'
  <2>1. Seed' = Seed /\ Past' = Past /\ asks' = asks + 1
    BY <1>2 DEF GetFrameInfoRefused, Ask, Seed, Past, dctx
  <2>2. asks' > asks
    BY <1>0, <2>1
  <2>3. QED  BY <1>0, <1>2, <2>1, <2>2 DEF GetFrameInfoRefused, Seeding, dctx
<1>3. ASSUME GetFrameInfoAfter PROVE Seeding'
  <2>1. Seed' = Seed /\ Past' = Past /\ asks' = asks + 1
    BY <1>3 DEF GetFrameInfoAfter, Ask, Seed, Past, dctx
  <2>2. call.op = "none" /\ call'.op = "frameInfo"
    BY <1>3 DEF GetFrameInfoAfter, Ask, Idle
  <2>3. QED  BY <1>0, <1>3, <2>1, <2>2 DEF GetFrameInfoAfter, Seeding, dctx
<1>4. ASSUME NEW n, GetFrameInfoHeader(n) PROVE Seeding'
  <2>1. /\ stage = "GetFrameHeader" /\ verdict = "open" /\ asks' = asks + 1
        /\ call.op = "none" /\ call' = call /\ UNCHANGED <<dict, out, frame>>
        /\ \/ verdict' = "rejected"
           \/ DecodeHeader(Src(HeaderSize), FALSE) /\ UNCHANGED verdict
    BY <1>4, Zenon DEF GetFrameInfoHeader, Ask, Idle, BufferState
  <2>2. CASE verdict' = "rejected"
    BY <2>1, <2>2, SeedOver
  <2>3. CASE DecodeHeader(Src(HeaderSize), FALSE) /\ UNCHANGED verdict
    <3>1. stage' \in {"StoreFrameHeader", "GetSFrameSize", "StoreSFrameSize", "Init"}
      BY <2>3 DEF DecodeHeader
    <3>2. Seed' = Seed /\ asks' >= 1
      BY <1>0, <2>1 DEF Seed
    <3>3. QED  BY <2>1, <2>3, <3>1, <3>2 DEF Seeding, BlockStages, HeaderStages
  <2>4. QED  BY <2>1, <2>2, <2>3, Zenon
<1>5. ASSUME NextFrame \/ Reset PROVE Seeding'
  <2>1. stage' = "GetFrameHeader" /\ dict' = <<>> /\ out' = <<>> /\ call'.op = "none"
    BY <1>5 DEF NextFrame, Reset, OpenFrame, Rested, ResetDctx, dctx, Idle
  <2>2. QED  BY <2>1 DEF Seeding, BlockStages, HeaderStages
<1>6. CASE UNCHANGED vars
  <2>1. Seed' = Seed /\ Past' = Past
    BY <1>6 DEF vars, dctx, client, Seed, Past
  <2>2. QED  BY <1>6, <2>1 DEF vars, dctx, client, Seeding
<1>7. QED  BY <1>1, <1>2, <1>3, <1>4, <1>5, <1>6 DEF Next, Done

(* A block is always decoded against what the compressor had: the          *)
(* dictionary and the content before it, as much of their end as the       *)
(* window holds, however the frame was cut into calls, the destination     *)
(* was sized and the context was used before (frame.rs 1083-1090,          *)
(* 1554-1566).                                                             *)
THEOREM HistoryKept ==
  ASSUME FramesAssumption PROVE Spec => []HistorySeeded
<1>1. Init => Seeding
  <2>1. Init => stage = "GetFrameHeader" /\ call.op = "none" /\ dict = <<>> /\ out = <<>>
    BY DEF Init, NoCall
  <2>2. QED  BY <2>1 DEF Seeding, BlockStages, HeaderStages
<1>2. DecoderInv /\ Rested /\ Seeding /\ [Next]_vars => Seeding'
  BY SeedPass, SeedCall
<1>3. Seeding => HistorySeeded
  BY DEF Seeding, HistorySeeded, Ends, Past, Seed, BlockStages, Stages, HeaderStages
<1>4. QED  BY <1>1, <1>2, <1>3, DecoderInvariant, PTL DEF Spec
==============================================================================
