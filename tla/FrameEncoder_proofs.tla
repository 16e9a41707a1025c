------------------------ MODULE FrameEncoder_proofs -------------------------
(***************************************************************************)
(* Proofs about FrameEncoder, for every block size, preference set,        *)
(* destination capacity and size of the pieces fed: its variables keep     *)
(* their types, blocks are made by the rules of the frame's header, and    *)
(* what update checks before its loop covers what the loop writes; and     *)
(* what the frame holds is what it was fed.                                *)
(***************************************************************************)
EXTENDS FrameEncoder, SequenceTheorems, TLAPS

USE DEF BHSize, BFSize, HeaderSizeMax, BlockSizeIdDefault

-----------------------------------------------------------------------------
(* Lemmas about the operators of the model.                                *)

(* A sequence built by position.                                           *)
LEMMA BuiltSequence ==
  ASSUME NEW S, NEW n \in Nat, NEW s \in [1..n -> S]
  PROVE  s \in Seq(S) /\ Len(s) = n
OBVIOUS

(* Block sizes are positive.                                               *)
LEMMA BlockSizePositive ==
  ASSUME NEW id PROVE GetBlockSize(id) \in Nat \ {0}
BY K64Positive DEF GetBlockSize

(* The retained history is a sequence no longer than asked.                *)
LEMMA LastBytesType ==
  ASSUME NEW S, NEW s \in Seq(S), NEW n \in Nat
  PROVE  /\ LastBytes(s, n) \in Seq(S)
         /\ Len(LastBytes(s, n)) = Smaller(Len(s), n)
         /\ \A i \in 1..Len(LastBytes(s, n)) :
              LastBytes(s, n)[i] = s[Len(s) - Len(LastBytes(s, n)) + i]
<1>1. CASE Len(s) <= n
  BY <1>1 DEF LastBytes, Smaller
<1>2. CASE Len(s) > n
  <2>1. LastBytes(s, n) = SubSeq(s, Len(s) - n + 1, Len(s))
    BY <1>2 DEF LastBytes
  <2>2. QED  BY <1>2, <2>1 DEF Smaller
<1>3. QED  BY <1>1, <1>2

(* The bytes a dictionary leaves behind.                                   *)
LEMMA KeptDictType ==
  ASSUME NEW d \in Nat PROVE KeptDict(d) \in Seq(Byte)
<1>1. Dictionary(d) \in Seq(Byte)
  BY DEF Dictionary, Byte
<1>2. QED  BY <1>1, LastBytesType, K64Positive DEF KeptDict

(* begin replaces block size identifier 0 only.                            *)
LEMMA WithDefaultSizeType ==
  ASSUME NEW p \in Prefs PROVE WithDefaultSize(p) \in Prefs
BY DEF WithDefaultSize, Prefs

(* Emitting a block keeps the codec's history well typed.                  *)
LEMMA EmitBlockType ==
  ASSUME TypeOK, NEW block \in Seq(Byte),
         NEW mode \in {"compressed", "uncompressed"}, NEW c \in Nat,
         EmitBlock(block, mode, c)
  PROVE  /\ content' \in Seq(Byte) /\ dict' \in Seq(Byte) /\ dictSize' \in Nat
         /\ BlockEnd(c) \in Nat
<1>1. DictAfter(block) \in Seq(Byte)
  <2>1. dict \o block \in Seq(Byte)
    BY DEF TypeOK
  <2>2. LastBytes(dict \o block, K64) \in Seq(Byte)
    BY <2>1, LastBytesType, K64Positive
  <2>3. QED  BY <2>2 DEF DictAfter, TypeOK
<1>2. CodecDictSize(block, mode) \in Nat
  BY DEF CodecDictSize, TypeOK
<1>3. DictSizeAfter(block, mode) \in Nat
  BY <1>1, <1>2 DEF DictSizeAfter, Smaller
<1>4. content' \in Seq(Byte)
  BY DEF EmitBlock, TypeOK
<1>5. BlockEnd(c) \in Nat
  BY SMTT(60) DEF BlockEnd, CrcSize, TypeOK, Call
<1>6. QED  BY <1>1, <1>3, <1>4, <1>5 DEF EmitBlock

-----------------------------------------------------------------------------
(* The type invariant needs to know where a call can be and how much the   *)
(* staging buffer holds: an update that fills it takes maxBlockSize minus  *)
(* that many bytes from its source.                                        *)

Phases ==
  /\ call.op = "none" <=> call.phase = "idle"
  /\ call.phase \in {"fill", "blocks"} => call.op = "update"
  /\ call.phase = "mark" => call.op = "end"
  /\ call.op = "update" => stage = 1
  /\ call.op # "update" => call.src = <<>> /\ call.fed = <<>>
  /\ call.op = "none" => call.at = 0

Buffer ==
  /\ stage = 1 => Len(tmp) < maxBlockSize
  /\ stage = 0 => tmp = <<>>
  /\ call.phase = "blocks" /\ call.src # <<>> => tmp = <<>>
  /\ call.phase = "mark" => tmp = <<>>

TypeInv == TypeOK /\ Phases /\ Buffer

(* The preferences of a new context and the record of no running call.     *)
LEMMA InitialRecords ==
  /\ NoPrefs \in Prefs
  /\ Idle \in Call /\ Idle.op = "none" /\ Idle.phase = "idle" /\ Idle.at = 0
  /\ Idle.src = <<>> /\ Idle.fed = <<>>
BY DEF NoPrefs, Prefs, Idle, Call

(* A new context satisfies the type invariant.                             *)
LEMMA TypeInvInit == Init => TypeInv
<1> SUFFICES ASSUME Init PROVE TypeInv
  OBVIOUS
<1> USE InitialRecords DEF Init
<1>1. /\ tmp \in Seq(Byte) /\ dict \in Seq(Byte) /\ frameDict \in Seq(Byte)
      /\ xxh \in Seq(Byte) /\ content \in Seq(Byte)
  BY EmptySeq
<1>2. TypeOK
  BY <1>1 DEF TypeOK
<1>3. Phases /\ Buffer
  BY DEF Phases, Buffer
<1>4. QED  BY <1>2, <1>3 DEF TypeInv

(* Starting a call, or having it refused, keeps the type invariant.        *)
LEMMA NewCallTypeInv == TypeInv /\ NewCall => TypeInv'
<1> SUFFICES ASSUME TypeInv, NewCall PROVE TypeInv'
  OBVIOUS
<1> USE InitialRecords, EmptySeq, SizesNatural DEF TypeInv, TypeOK, Phases, Buffer
<1>1. ASSUME NEW r \in {"dstMaxSizeTooSmall", "stateUninitialized"}, Reject(r)
      PROVE  TypeInv'
  BY <1>1 DEF Reject, Return, cctx
<1>2. ASSUME NEW op \in {"flush", "end"}, NEW cap \in Caps, Ready,
             call' = [Idle EXCEPT !.op = op, !.phase = "flush", !.cap = cap],
             UNCHANGED <<cctx, res, header, content, sealed, clean>>
      PROVE  TypeInv'
  <2>1. call' \in Call /\ call'.op = op /\ call'.phase = "flush"
        /\ call'.src = <<>> /\ call'.fed = <<>>
    BY <1>2 DEF Call, Idle
  <2>2. QED  BY <1>2, <2>1 DEF cctx
<1>4. ASSUME NEW cap \in Caps, NEW p \in PrefSet, BeginBadBlockSize(p, cap)
      PROVE  TypeInv'
  <2>1. prefs' \in Prefs /\ call' = Idle /\ res' = "maxBlockSizeInvalid"
        /\ clean' = FALSE
    BY <1>4, PrefSetTyped DEF BeginBadBlockSize, Return
  <2>2. UNCHANGED <<stage, maxBlockSize, tmp, totalInSize, blockMode, dict,
                    frameDict, dictSize, xxh, header, content, sealed>>
    BY <1>4 DEF BeginBadBlockSize
  <2>3. QED  BY <2>1, <2>2
<1>5. ASSUME NEW cap \in Caps, NEW p \in PrefSet, NEW d \in DictLengths,
             Begin(p, d, cap)
      PROVE  TypeInv'
  <2>1. WithDefaultSize(p) \in Prefs
    BY WithDefaultSizeType, PrefSetTyped
  <2>2. KeptDict(d) \in Seq(Byte)
    BY KeptDictType
  <2>3. maxBlockSize' \in Nat \ {0}
    BY <1>5, BlockSizePositive DEF Begin
  <2>4. /\ prefs' = WithDefaultSize(p) /\ header' = WithDefaultSize(p)
        /\ tmp' = <<>> /\ xxh' = <<>> /\ content' = <<>> /\ totalInSize' = 0
        /\ blockMode' = "compressed" /\ stage' = 1
        /\ frameDict' = KeptDict(d) /\ dict' = KeptDict(d)
        /\ dictSize' = Len(KeptDict(d))
        /\ sealed' = FALSE /\ clean' = TRUE /\ call' = Idle /\ res' = "ok"
    BY <1>5 DEF Begin, Return
  <2>5. /\ dict' \in Seq(Byte) /\ frameDict' \in Seq(Byte) /\ dictSize' \in Nat
        /\ tmp' \in Seq(Byte) /\ xxh' \in Seq(Byte) /\ content' \in Seq(Byte)
        /\ prefs' \in Prefs /\ header' \in Prefs
    BY <2>1, <2>2, <2>4, EmptySeq
  <2>8. TypeOK'
    BY <2>3, <2>4, <2>5
  <2>6. Phases' /\ Buffer'
    BY <2>3, <2>4
  <2>7. QED  BY <2>6, <2>8
<1>6. ASSUME NEW cap \in Caps, NEW n \in SrcSizes, NEW m \in Modes,
             UpdateCall(n, m, cap)
      PROVE  TypeInv'
  <2> DEFINE src == [i \in 1..n |-> <<totalInSize + i, m>>]
  <2>2. m \in {"compressed", "uncompressed"}
    BY ModesKnown
  <2>1. src \in Seq(Byte)
    <3>1. \A i \in 1..n : <<totalInSize + i, m>> \in Byte
      BY <2>2 DEF Byte
    <3>2. src \in [1..n -> Byte] /\ n \in Nat
      BY <3>1, SizesNatural
    <3>3. QED  BY <3>2, BuiltSequence
  <2>3. FirstPhase(m) \in {"flush", "fill"}
    BY DEF FirstPhase
  <2>4. call' = [op |-> "update", phase |-> FirstPhase(m), src |-> src,
                 fed |-> src, mode |-> m, cap |-> cap, at |-> 0]
    BY <1>6 DEF UpdateCall
  <2>5. stage = 1 /\ UNCHANGED <<cctx, res, header, content, sealed, clean>>
    BY <1>6 DEF UpdateCall
  <2> HIDE DEF src
  <2>6. call' \in Call /\ call'.op = "update" /\ call'.phase \in {"flush", "fill"}
    BY <2>1, <2>2, <2>3, <2>4 DEF Call
  <2>7. QED  BY <2>5, <2>6 DEF cctx
<1>7. QED
  <2>1. ASSUME NEW cap \in Caps, FlushCall(cap) \/ EndCall(cap) PROVE TypeInv'
    BY <2>1, <1>2 DEF FlushCall, EndCall
  <2>2. QED
    BY <2>1, <1>1, <1>4, <1>5, <1>6
       DEF NewCall, BeginTooSmall, UpdateTooSmall, UpdateUninitialized

-----------------------------------------------------------------------------
(* The steps of a running call.                                            *)

(* Where a call goes when its flush is done.                               *)
LEMMA AfterFlushType ==
  ASSUME TypeInv, call.phase = "flush", NEW at \in Nat, AfterFlush(at)
  PROVE  /\ blockMode' \in {"compressed", "uncompressed"}
         /\ res' \in {res, "ok"}
         /\ \/ call.op = "flush" /\ call' = Idle
            \/ /\ call.op # "flush"
               /\ call' = [call EXCEPT !.at = at, !.phase = PhaseAfterFlush]
               /\ call' \in Call
<1> USE DEF TypeInv, TypeOK
<1>1. blockMode' \in {"compressed", "uncompressed"}
  BY DEF AfterFlush, Call
<1>2. CASE call.op = "flush"
  BY <1>1, <1>2 DEF AfterFlush, Return
<1>3. CASE call.op # "flush"
  <2>1. call' = [call EXCEPT !.at = at, !.phase = PhaseAfterFlush] /\ res' = res
    BY <1>3 DEF AfterFlush
  <2>2. call' \in Call
    BY <2>1 DEF Call, PhaseAfterFlush
  <2>3. QED  BY <1>1, <1>3, <2>1, <2>2
<1>4. QED  BY <1>2, <1>3

(* After a flush the staging buffer is empty and the call, unless it has   *)
(* returned, is about to fill it or to end the frame.                      *)
LEMMA AfterFlushKeeps ==
  ASSUME TypeInv, call.phase = "flush", NEW at \in Nat, AfterFlush(at),
         tmp' = <<>>, UNCHANGED <<stage, maxBlockSize>>
  PROVE  Phases' /\ Buffer'
<1> USE InitialRecords DEF TypeInv, TypeOK, Phases, Buffer
<1>1. CASE call' = Idle
  BY <1>1
<1>2. CASE /\ call.op # "flush" /\ call' \in Call
           /\ call' = [call EXCEPT !.at = at, !.phase = PhaseAfterFlush]
  BY <1>2, SMTT(60) DEF Call, PhaseAfterFlush
<1>3. QED  BY <1>1, <1>2, AfterFlushType

(* The blocks a call takes from its source leave a source.                 *)
LEMMA UnreadType ==
  ASSUME TypeOK, NEW n \in Nat, n <= Len(call.src)
  PROVE  /\ SubSeq(call.src, 1, n) \in Seq(Byte) /\ Len(SubSeq(call.src, 1, n)) = n
         /\ Unread(n) \in Seq(Byte) /\ Len(Unread(n)) = Len(call.src) - n
<1>1. call.src \in Seq(Byte)
  BY DEF TypeOK, Call
<1>2. QED  BY <1>1 DEF Unread

(* Each step of a running call keeps the type invariant.                   *)
LEMMA StepTypeInv == TypeInv /\ Step => TypeInv'
<1> SUFFICES ASSUME TypeInv, Step PROVE TypeInv'
  OBVIOUS
<1> USE InitialRecords, EmptySeq DEF InPhase
<1>1. ASSUME FlushNothing PROVE TypeInv'
  <2>1. /\ call.phase = "flush" /\ tmp' = <<>> /\ AfterFlush(0)
        /\ UNCHANGED <<stage, prefs, maxBlockSize, tmp, totalInSize, dict, frameDict,
                       dictSize, xxh, header, content, sealed, clean>>
    BY <1>1 DEF FlushNothing
  <2>2. call' \in Call
    BY <2>1, AfterFlushType
  <2>3. TypeOK'
    BY <2>1, <2>2, AfterFlushType DEF TypeInv, TypeOK
  <2>4. QED  BY <2>1, <2>3, AfterFlushKeeps DEF TypeInv
<1>2. ASSUME FlushTooSmall PROVE TypeInv'
  BY <1>2 DEF FlushTooSmall, Return, TypeInv, TypeOK, Phases, Buffer, cctx
<1>3. ASSUME FlushBlock PROVE TypeInv'
  <2>1. PICK c \in 1..Len(tmp) : EmitBlock(tmp, blockMode, c) /\ AfterFlush(BlockEnd(c))
    BY <1>3 DEF FlushBlock
  <2>2. /\ call.phase = "flush" /\ tmp' = <<>>
        /\ UNCHANGED <<stage, prefs, maxBlockSize, totalInSize, frameDict, xxh,
                       header, sealed, clean>>
    BY <1>3 DEF FlushBlock
  <2>3. c \in Nat
    OBVIOUS
  <2>4. /\ content' \in Seq(Byte) /\ dict' \in Seq(Byte) /\ dictSize' \in Nat
        /\ BlockEnd(c) \in Nat
    BY <2>1, <2>3, EmitBlockType DEF TypeInv, TypeOK
  <2>5. call' \in Call
    BY <2>1, <2>2, <2>4, AfterFlushType
  <2>6. TypeOK'
    BY <2>1, <2>2, <2>4, <2>5, AfterFlushType DEF TypeInv, TypeOK
  <2>7. QED  BY <2>1, <2>2, <2>4, <2>6, AfterFlushKeeps DEF TypeInv
<1>4. ASSUME FillNothing PROVE TypeInv'
  BY <1>4 DEF FillNothing, TypeInv, TypeOK, Phases, Buffer, Call, cctx
<1>5. ASSUME FillPartly PROVE TypeInv'
  <2>1. tmp' \in Seq(Byte) /\ Len(tmp') < maxBlockSize
    BY <1>5 DEF FillPartly, StaysBelowBlock, TypeInv, TypeOK, Call
  <2>2. call' \in Call /\ call'.phase = "blocks" /\ call'.src = <<>>
        /\ call'.op = call.op /\ call'.fed = call.fed
    BY <1>5 DEF FillPartly, TypeInv, TypeOK, Call
  <2>3. QED
    BY <1>5, <2>1, <2>2 DEF FillPartly, TypeInv, TypeOK, Phases, Buffer
<1>6. ASSUME FillBlock PROVE TypeInv'
  <2> DEFINE n == maxBlockSize - Len(tmp)
             block == tmp \o SubSeq(call.src, 1, n)
  <2>1. n \in Nat /\ n <= Len(call.src)
    <3>1. call.phase = "fill" /\ Len(tmp) + Len(call.src) >= maxBlockSize
      <4>1. call.phase = "fill" /\ ~StaysBelowBlock
        BY <1>6 DEF FillBlock
      <4>2. QED  BY <4>1 DEF StaysBelowBlock, TypeInv, TypeOK, Call
    <3>2. Len(tmp) < maxBlockSize
      BY <3>1 DEF TypeInv, Phases, Buffer
    <3>3. QED  BY <3>1, <3>2 DEF TypeInv, TypeOK, Call
  <2>2. PICK c \in 1..Len(block) :
          /\ EmitBlock(block, call.mode, c)
          /\ call' = [call EXCEPT !.phase = "blocks", !.at = BlockEnd(c), !.src = Unread(n)]
    BY <1>6 DEF FillBlock
  <2>3. /\ call.phase = "fill" /\ tmp' = <<>>
        /\ UNCHANGED <<stage, prefs, maxBlockSize, totalInSize, blockMode, frameDict,
                       xxh, res, header, sealed, clean>>
    BY <1>6 DEF FillBlock
  <2>4. block \in Seq(Byte) /\ Unread(n) \in Seq(Byte)
    BY <2>1, UnreadType, ConcatProperties DEF TypeInv, TypeOK
  <2>5. call.mode \in {"compressed", "uncompressed"} /\ c \in Nat
    BY <2>4 DEF TypeInv, TypeOK, Call
  <2> HIDE DEF n, block
  <2>6. /\ content' \in Seq(Byte) /\ dict' \in Seq(Byte) /\ dictSize' \in Nat
        /\ BlockEnd(c) \in Nat
    BY <2>2, <2>4, <2>5, EmitBlockType DEF TypeInv
  <2>7. call' \in Call /\ call'.phase = "blocks" /\ call'.op = call.op
        /\ call'.fed = call.fed
    BY <2>2, <2>4, <2>6 DEF TypeInv, TypeOK, Call
  <2>8. QED  BY <2>3, <2>6, <2>7 DEF TypeInv, TypeOK, Phases, Buffer
<1>7. ASSUME NEW n \in Nat \ {0}, n <= Len(call.src), call.phase = "blocks",
             TakeFromSrc(n)
      PROVE  TypeInv'
  <2> DEFINE block == SubSeq(call.src, 1, n)
  <2>1. PICK c \in 1..n : /\ EmitBlock(block, call.mode, c)
                          /\ call' = [call EXCEPT !.at = BlockEnd(c), !.src = Unread(n)]
    BY <1>7 DEF TakeFromSrc
  <2>2. UNCHANGED <<stage, prefs, maxBlockSize, tmp, totalInSize, blockMode,
                    frameDict, xxh, res, header, sealed, clean>>
    BY <1>7 DEF TakeFromSrc
  <2>3. block \in Seq(Byte) /\ Unread(n) \in Seq(Byte)
    BY <1>7, UnreadType DEF TypeInv
  <2>4. call.mode \in {"compressed", "uncompressed"} /\ c \in Nat
    BY DEF TypeInv, TypeOK, Call
  <2> HIDE DEF block
  <2>5. /\ content' \in Seq(Byte) /\ dict' \in Seq(Byte) /\ dictSize' \in Nat
        /\ BlockEnd(c) \in Nat
    BY <2>1, <2>3, <2>4, EmitBlockType DEF TypeInv
  <2>6. call' \in Call /\ call'.phase = "blocks" /\ call'.op = call.op
        /\ call'.fed = call.fed
    BY <1>7, <2>1, <2>3, <2>5 DEF TypeInv, TypeOK, Call
  <2>7. tmp = <<>>
    BY <1>7 DEF TypeInv, TypeOK, Buffer, Call
  <2>8. QED  BY <1>7, <2>2, <2>5, <2>6, <2>7 DEF TypeInv, TypeOK, Phases, Buffer
<1>8. ASSUME WholeBlock PROVE TypeInv'
  <2>1. maxBlockSize \in Nat \ {0} /\ maxBlockSize <= Len(call.src)
    BY <1>8 DEF WholeBlock, TypeInv, TypeOK, Phases, Buffer
  <2>2. QED  BY <1>7, <1>8, <2>1 DEF WholeBlock
<1>9. ASSUME AutoFlushTail PROVE TypeInv'
  <2>1. Len(call.src) \in Nat \ {0}
    BY <1>9 DEF AutoFlushTail
  <2>2. QED  BY <1>7, <1>9, <2>1 DEF AutoFlushTail
<1>10. ASSUME UpdateReturn PROVE TypeInv'
  <2>1. tmp' \in Seq(Byte) /\ xxh' \in Seq(Byte) /\ totalInSize' \in Nat
    BY <1>10 DEF UpdateReturn, Hashed, TypeInv, TypeOK, Call
  <2>2. stage = 1 /\ Len(tmp') < maxBlockSize
    BY <1>10 DEF UpdateReturn, TypeInv, Phases, Buffer
  <2>3. call' = Idle /\ res' = "ok"
        /\ UNCHANGED <<stage, prefs, maxBlockSize, blockMode, dict, frameDict,
                       dictSize, header, content, sealed, clean>>
    BY <1>10 DEF UpdateReturn, Return
  <2>4. QED  BY <2>1, <2>2, <2>3 DEF TypeInv, TypeOK, Phases, Buffer
<1>11. ASSUME EndTooSmall PROVE TypeInv'
  <2>1. clean' \in BOOLEAN
    BY <1>11 DEF EndTooSmall
  <2>2. call' = Idle /\ res' = "dstMaxSizeTooSmall"
        /\ UNCHANGED <<cctx, header, content, sealed>>
    BY <1>11 DEF EndTooSmall, Return
  <2>3. QED  BY <2>1, <2>2 DEF TypeInv, TypeOK, Phases, Buffer, cctx
<1>12. ASSUME EndMark PROVE TypeInv'
  <2>1. sealed' \in BOOLEAN
    BY <1>12 DEF EndMark
  <2>2. stage' = 0 /\ call' = Idle /\ res' \in {"frameSizeWrong", "ok"}
        /\ call.phase = "mark"
        /\ UNCHANGED <<prefs, maxBlockSize, tmp, totalInSize, blockMode, dict,
                       frameDict, dictSize, xxh, header, content, clean>>
    BY <1>12 DEF EndMark, Return
  <2>3. QED  BY <2>1, <2>2 DEF TypeInv, TypeOK, Phases, Buffer
<1>13. QED
  BY <1>1, <1>2, <1>3, <1>4, <1>5, <1>6, <1>8, <1>9, <1>10, <1>11, <1>12 DEF Step

(* The context and the running call have the values their types allow, and *)
(* the staging buffer never holds a whole block.                           *)
THEOREM TypeInvariant == Spec => []TypeInv
<1>1. TypeInv /\ [Next]_vars => TypeInv'
  <2>1. TypeInv /\ UNCHANGED vars => TypeInv'
    BY DEF TypeInv, TypeOK, Phases, Buffer, vars, cctx
  <2>2. QED  BY <2>1, NewCallTypeInv, StepTypeInv DEF Next
<1>2. QED  BY <1>1, TypeInvInit, PTL DEF Spec

(* The values alone: dict_size, in particular, never goes below zero when  *)
(* set_history takes off what the window dropped (frame.rs:630-635).       *)
THEOREM TypeCorrect == Spec => []TypeOK
BY TypeInvariant, PTL DEF TypeInv

-----------------------------------------------------------------------------
(* Division with remainder.                                                *)

(* Only the zero multiple of B lies strictly between -B and B.             *)
LEMMA ZeroMultiple ==
  ASSUME NEW B \in Nat \ {0}, NEW k \in Int, B * k < B, B * k > -B
  PROVE  k = 0
<1>1. CASE k >= 1
  <2>1. B * k >= B * 1
    BY <1>1
  <2>2. QED  BY <2>1
<1>2. CASE k <= -1
  <2>1. B * k <= B * (-1)
    BY <1>2
  <2>2. QED  BY <2>1
<1>3. QED  BY <1>1, <1>2

(* Quotient and remainder.                                                 *)
LEMMA DivMod ==
  ASSUME NEW B \in Nat \ {0}, NEW r \in Nat
  PROVE  /\ r \div B \in Nat /\ r % B \in 0..(B - 1)
         /\ B * (r \div B) + (r % B) = r
<1>1. r % B \in 0..(B - 1)
  OBVIOUS
<1>2. r \div B \in Int
  OBVIOUS
<1>3. B * (r \div B) + (r % B) = r
  OBVIOUS
<1>4. r \div B >= 0
  BY <1>1, <1>2, <1>3
<1>5. QED  BY <1>1, <1>2, <1>3, <1>4

(* They are the only ones.                                                 *)
LEMMA DivModUnique ==
  ASSUME NEW B \in Nat \ {0}, NEW r \in Nat, NEW q \in Int,
         NEW m \in 0..(B - 1), B * q + m = r
  PROVE  r \div B = q /\ r % B = m
<1> DEFINE p == r \div B
           s == r % B
<1>1. p \in Nat /\ s \in 0..(B - 1) /\ B * p + s = r
  BY DivMod
<1> HIDE DEF p, s
<1>2. B * (q - p) = B * q - B * p
  BY <1>1
<1>3. B * (q - p) = s - m
  BY <1>1, <1>2
<1>4. q - p \in Int /\ B * (q - p) < B /\ B * (q - p) > -B
  BY <1>1, <1>3
<1>5. q - p = 0
  BY <1>4, ZeroMultiple
<1>6. q = p /\ s = m
  BY <1>1, <1>5
<1>7. QED  BY <1>6 DEF p, s

(* One block less.                                                         *)
LEMMA DivModStep ==
  ASSUME NEW B \in Nat \ {0}, NEW r \in Nat, r >= B
  PROVE  r \div B = 1 + ((r - B) \div B) /\ r % B = (r - B) % B
<1> DEFINE p == (r - B) \div B
           s == (r - B) % B
<1>1. p \in Nat /\ s \in 0..(B - 1) /\ B * p + s = r - B
  <2>1. r - B \in Nat
    OBVIOUS
  <2>2. QED  BY <2>1, DivMod
<1> HIDE DEF p, s
<1>2. B * (1 + p) = B + B * p
  BY <1>1
<1>3. 1 + p \in Int /\ B * (1 + p) + s = r
  BY <1>1, <1>2
<1>4. r \div B = 1 + p /\ r % B = s
  BY <1>1, <1>3, DivModUnique
<1>5. QED  BY <1>4 DEF p, s

(* Less than a block.                                                      *)
LEMMA DivModSmall ==
  ASSUME NEW B \in Nat \ {0}, NEW r \in Nat, r < B
  PROVE  r \div B = 0 /\ r % B = r
<1>1. B * 0 + r = r /\ r \in 0..(B - 1)
  OBVIOUS
<1>2. QED  BY <1>1, DivModUnique

(* The quotient grows with the dividend.                                   *)
LEMMA DivMonotone ==
  ASSUME NEW B \in Nat \ {0}, NEW r \in Nat, NEW s \in Nat, r <= s
  PROVE  r \div B <= s \div B
<1> DEFINE p == r \div B
           q == s \div B
<1>1. /\ p \in Nat /\ r % B \in 0..(B - 1) /\ B * p + (r % B) = r
      /\ q \in Nat /\ s % B \in 0..(B - 1) /\ B * q + (s % B) = s
  BY DivMod
<1> HIDE DEF p, q
<1>2. CASE q + 1 <= p
  <2>1. B * (q + 1) <= B * p
    BY <1>1, <1>2
  <2>2. B * (q + 1) = B * q + B
    BY <1>1
  <2>3. QED  BY <1>1, <2>1, <2>2
<1>3. QED  BY <1>1, <1>2 DEF p, q

-----------------------------------------------------------------------------
(* What update's loop still has to write for r bytes of source.            *)

Needed(r, p, B) ==
  (BHSize + CrcSize(p)) * (r \div B) + B * (r \div B)
    + (IF p.autoFlush /\ r % B > 0 THEN BHSize + CrcSize(p) + (r % B) ELSE 0)

(* Per block, a header and perhaps a checksum.                             *)
LEMMA CrcSizeValue ==
  ASSUME NEW p \in Prefs PROVE CrcSize(p) \in {0, 4}
BY DEF CrcSize, Prefs

(* The need is a number, and nothing is needed for nothing.                *)
LEMMA NeededNat ==
  ASSUME NEW p \in Prefs, NEW B \in Nat \ {0}, NEW r \in Nat
  PROVE  Needed(r, p, B) \in Nat /\ Needed(0, p, B) = 0
<1>1. r \div B \in Nat /\ r % B \in 0..(B - 1)
  BY DivMod
<1>2. B * (r \div B) \in Nat
  BY <1>1
<1>3. (BHSize + CrcSize(p)) * (r \div B) \in Nat
  BY <1>1, CrcSizeValue
<1>4. Needed(r, p, B) \in Nat
  BY <1>1, <1>2, <1>3, CrcSizeValue DEF Needed
<1>5. 0 \div B = 0 /\ 0 % B = 0
  BY DivModSmall
<1>6. QED  BY <1>4, <1>5, CrcSizeValue DEF Needed

(* A whole block takes a header, its bytes and its checksum.               *)
LEMMA NeededWhole ==
  ASSUME NEW p \in Prefs, NEW B \in Nat \ {0}, NEW r \in Nat, r >= B
  PROVE  Needed(r, p, B) = BHSize + CrcSize(p) + B + Needed(r - B, p, B)
<1> DEFINE q == (r - B) \div B
           s == (r - B) % B
<1>1. q \in Nat /\ s \in Int /\ r \div B = 1 + q /\ r % B = s
  <2>1. r - B \in Nat
    OBVIOUS
  <2>2. q \in Nat /\ s \in 0..(B - 1)
    BY <2>1, DivMod
  <2>3. r \div B = 1 + q /\ r % B = s
    BY DivModStep
  <2>4. QED  BY <2>2, <2>3
<1> HIDE DEF q, s
<1>2. B * (1 + q) = B + B * q
  BY <1>1
<1>3. (BHSize + CrcSize(p)) * (1 + q) = BHSize + CrcSize(p) + (BHSize + CrcSize(p)) * q
  <2>1. CASE CrcSize(p) = 0
    BY <1>1, <2>1
  <2>2. CASE CrcSize(p) = 4
    BY <1>1, <2>2
  <2>3. QED  BY <2>1, <2>2, CrcSizeValue
<1>4. Needed(r - B, p, B) = (BHSize + CrcSize(p)) * q + B * q
        + (IF p.autoFlush /\ s > 0 THEN BHSize + CrcSize(p) + s ELSE 0)
  BY DEF Needed, q, s
<1>5. Needed(r, p, B) = (BHSize + CrcSize(p)) * (1 + q) + B * (1 + q)
        + (IF p.autoFlush /\ s > 0 THEN BHSize + CrcSize(p) + s ELSE 0)
  BY <1>1 DEF Needed
<1>6. B * q \in Int /\ (BHSize + CrcSize(p)) * q \in Int
  BY <1>1, CrcSizeValue
<1>7. QED  BY <1>1, <1>2, <1>3, <1>4, <1>5, <1>6, CrcSizeValue

(* The tail of an autoFlush frame takes the same around fewer bytes.       *)
LEMMA NeededTail ==
  ASSUME NEW p \in Prefs, NEW B \in Nat \ {0}, NEW r \in 1..(B - 1), p.autoFlush
  PROVE  Needed(r, p, B) = BHSize + CrcSize(p) + r
<1>1. r \div B = 0 /\ r % B = r
  BY DivModSmall
<1>2. B * 0 = 0 /\ (BHSize + CrcSize(p)) * 0 = 0
  BY CrcSizeValue
<1>3. QED  BY <1>1, <1>2, CrcSizeValue DEF Needed

(* The bound when less than a block is buffered.                           *)
LastPart(n, p, t) ==
  IF p.autoFlush \/ n = 0 THEN (n + t) % GetBlockSize(p.blockSizeID) ELSE 0

(* The bound update checks, by blocks (compress_bound_internal).           *)
LEMMA BoundValue ==
  ASSUME NEW p \in Prefs, NEW n \in Nat, NEW t \in Nat,
         t < GetBlockSize(p.blockSizeID)
  PROVE  LET B == GetBlockSize(p.blockSizeID)
             q == (n + t) \div B
         IN  CompressBoundInternal(n, p, t) =
               (BHSize + CrcSize(p)) * (q + (IF LastPart(n, p, t) > 0 THEN 1 ELSE 0))
                 + B * q + LastPart(n, p, t)
                 + BHSize + (IF p.contentChecksum THEN BFSize ELSE 0)
<1>1. Smaller(t, GetBlockSize(p.blockSizeID) - 1) = t
  BY BlockSizePositive DEF Smaller
<1>2. QED  BY <1>1 DEF CompressBoundInternal, LastPart

(* The bound update checks covers what its loop needs.                     *)
LEMMA BoundCoversLoop ==
  ASSUME NEW p \in Prefs, NEW n \in Nat, NEW t \in Nat,
         t < GetBlockSize(p.blockSizeID)
  PROVE  Needed(n + t, p, GetBlockSize(p.blockSizeID)) <= CompressBoundInternal(n, p, t)
<1> DEFINE B == GetBlockSize(p.blockSizeID)
           q == (n + t) \div B
           s == (n + t) % B
           last == LastPart(n, p, t)
<1>1. B \in Nat \ {0}
  BY BlockSizePositive
<1>2. q \in Nat /\ s \in 0..(B - 1)
  <2>1. n + t \in Nat
    OBVIOUS
  <2>2. QED  BY <1>1, <2>1, DivMod
<1>3. last = IF p.autoFlush \/ n = 0 THEN s ELSE 0
  BY DEF LastPart
<1>4. CompressBoundInternal(n, p, t) =
        (BHSize + CrcSize(p)) * (q + (IF last > 0 THEN 1 ELSE 0))
          + B * q + last + BHSize + (IF p.contentChecksum THEN BFSize ELSE 0)
  BY BoundValue
<1>5. Needed(n + t, p, B) = (BHSize + CrcSize(p)) * q + B * q
        + (IF p.autoFlush /\ s > 0 THEN BHSize + CrcSize(p) + s ELSE 0)
  BY DEF Needed
<1> HIDE DEF B, q, s, last
<1>6. B * q \in Nat
  BY <1>1, <1>2
<1>7. Needed(n + t, p, B) <= CompressBoundInternal(n, p, t)
  <2>1. CASE p.autoFlush /\ s > 0
    BY <1>2, <1>3, <1>4, <1>5, <1>6, <2>1, CrcSizeValue
  <2>2. CASE ~(p.autoFlush /\ s > 0)
    BY <1>2, <1>3, <1>4, <1>5, <1>6, <2>2, CrcSizeValue
  <2>3. QED  BY <2>1, <2>2
<1>8. QED  BY <1>7 DEF B

(* The bound is a number.                                                  *)
LEMMA BoundNat ==
  ASSUME NEW p \in Prefs, NEW n \in Nat, NEW t \in Nat,
         t < GetBlockSize(p.blockSizeID)
  PROVE  CompressBoundInternal(n, p, t) \in Nat
<1> DEFINE B == GetBlockSize(p.blockSizeID)
           q == (n + t) \div B
           last == LastPart(n, p, t)
<1>1. B \in Nat \ {0} /\ n + t \in Nat
  BY BlockSizePositive
<1>2. q \in Nat /\ (n + t) % B \in 0..(B - 1)
  BY <1>1, DivMod
<1>3. last \in Nat
  BY <1>2 DEF LastPart
<1>4. CompressBoundInternal(n, p, t) =
        (BHSize + CrcSize(p)) * (q + (IF last > 0 THEN 1 ELSE 0))
          + B * q + last + BHSize + (IF p.contentChecksum THEN BFSize ELSE 0)
  BY BoundValue
<1> HIDE DEF B, q, last
<1>5. B * q \in Nat
  BY <1>1, <1>2
<1>6. QED  BY <1>2, <1>3, <1>4, <1>5, CrcSizeValue

(* With nothing buffered by an autoFlush frame, and at most a block less   *)
(* one byte by any other, the bound callers are told covers the bound      *)
(* update checks.                                                          *)
LEMMA BoundMonotone ==
  ASSUME NEW p \in Prefs, NEW n \in Nat, NEW t \in Nat,
         t < GetBlockSize(p.blockSizeID), p.autoFlush => t = 0
  PROVE  CompressBoundInternal(n, p, t) <= CompressBound(n, p)
<1> DEFINE B == GetBlockSize(p.blockSizeID)
           q1 == (n + t) \div B
           q2 == (n + (B - 1)) \div B
           last1 == LastPart(n, p, t)
           last2 == LastPart(n, p, B - 1)
           h == BHSize + CrcSize(p)
           sum == IF p.contentChecksum THEN BFSize ELSE 0
<1>1. B \in Nat \ {0} /\ B - 1 \in Nat /\ B - 1 < B
  BY BlockSizePositive
<1>2. CASE p.autoFlush
  <2>1. CompressBoundInternal(n, p, t) = CompressBound(n, p)
    BY <1>2 DEF CompressBound
  <2>2. CompressBoundInternal(n, p, t) \in Nat
    BY BoundNat
  <2>3. QED  BY <2>1, <2>2
<1>3. CASE ~p.autoFlush
  <2>1. CompressBound(n, p) = CompressBoundInternal(n, p, B - 1)
    <3>1. Smaller(B, B - 1) = B - 1 /\ Smaller(B - 1, B - 1) = B - 1
      BY <1>1 DEF Smaller
    <3>2. QED  BY <1>3, <3>1 DEF CompressBound, CompressBoundInternal
  <2>2. CompressBoundInternal(n, p, t) =
          h * (q1 + (IF last1 > 0 THEN 1 ELSE 0)) + B * q1 + last1 + BHSize + sum
    BY BoundValue
  <2>3. CompressBoundInternal(n, p, B - 1) =
          h * (q2 + (IF last2 > 0 THEN 1 ELSE 0)) + B * q2 + last2 + BHSize + sum
    BY <1>1, BoundValue
  <2>4. q1 \in Nat /\ q2 \in Nat /\ q1 <= q2
    <3>1. n + t \in Nat /\ n + (B - 1) \in Nat /\ n + t <= n + (B - 1)
      BY <1>1
    <3>2. QED  BY <1>1, <3>1, DivMod, DivMonotone
  <2>5. /\ last1 = IF n = 0 THEN t ELSE 0
        /\ last2 = IF n = 0 THEN B - 1 ELSE 0
    BY <1>1, <1>3, DivModSmall DEF LastPart
  <2> HIDE DEF q1, q2, last1, last2, B
  <2>6. B * q1 \in Nat /\ B * q2 \in Nat /\ B * q1 <= B * q2
    BY <1>1, <2>4
  <2>7. t <= B - 1
    BY <1>1 DEF B
  <2>8. last1 \in Nat /\ last2 \in Nat /\ last1 <= last2
    BY <1>1, <2>5, <2>7
  <2> DEFINE k1 == q1 + (IF last1 > 0 THEN 1 ELSE 0)
             k2 == q2 + (IF last2 > 0 THEN 1 ELSE 0)
  <2>9. k1 \in Nat /\ k2 \in Nat /\ k1 <= k2
    BY <2>4, <2>8
  <2> HIDE DEF k1, k2
  <2>10. h * k1 \in Nat /\ h * k2 \in Nat /\ h * k1 <= h * k2 /\ sum \in Nat
    BY <2>9, CrcSizeValue
  <2> HIDE DEF h, sum
  <2>11. CompressBoundInternal(n, p, t) <= CompressBoundInternal(n, p, B - 1)
    BY <2>2, <2>3, <2>6, <2>8, <2>10 DEF k1, k2
  <2>12. QED  BY <2>1, <2>11
<1>4. QED  BY <1>2, <1>3

-----------------------------------------------------------------------------
(* While no failed call has disturbed it, an open frame is compressed by   *)
(* the preferences in its header, and with autoFlush buffers nothing.      *)

Agreed ==
  stage = 1 /\ clean =>
    /\ prefs = header /\ maxBlockSize = GetBlockSize(prefs.blockSizeID)
    /\ prefs.autoFlush => tmp = <<>>

(* Starting a call, begin included, keeps preferences and header agreed.   *)
LEMMA NewCallAgreed == TypeInv /\ Agreed /\ NewCall => Agreed'
<1> SUFFICES ASSUME TypeInv, Agreed, NewCall PROVE Agreed'
  OBVIOUS
<1>1. ASSUME UNCHANGED <<cctx, header, clean>> PROVE Agreed'
  BY <1>1 DEF Agreed, cctx
<1>2. ASSUME NEW cap \in Caps, NEW p \in PrefSet, BeginBadBlockSize(p, cap)
      PROVE  Agreed'
  BY <1>2 DEF BeginBadBlockSize, Agreed
<1>3. ASSUME NEW cap \in Caps, NEW p \in PrefSet, NEW d \in DictLengths,
             Begin(p, d, cap)
      PROVE  Agreed'
  BY <1>3 DEF Begin, Agreed
<1>4. QED
  BY <1>1, <1>2, <1>3
     DEF NewCall, BeginTooSmall, UpdateTooSmall, UpdateUninitialized, Reject,
         FlushCall, EndCall, UpdateCall

(* So does every step of a running call.                                   *)
LEMMA StepAgreed == TypeInv /\ Agreed /\ Step => Agreed'
<1> SUFFICES ASSUME TypeInv, Agreed, Step PROVE Agreed'
  OBVIOUS
<1>1. CASE FlushNothing
  BY <1>1 DEF FlushNothing, Agreed
<1>2. CASE FlushTooSmall
  BY <1>2 DEF FlushTooSmall, Agreed, cctx
<1>3. CASE FlushBlock
  BY <1>3 DEF FlushBlock, Agreed
<1>4. CASE FillNothing
  BY <1>4 DEF FillNothing, Agreed, cctx
<1>5. CASE FillPartly
  <2>1. stage = 1 /\ tmp # <<>>
    BY <1>5 DEF FillPartly, InPhase, TypeInv, Phases
  <2>2. QED  BY <1>5, <2>1 DEF FillPartly, Agreed
<1>6. CASE FillBlock
  BY <1>6 DEF FillBlock, Agreed
<1>7. CASE WholeBlock \/ AutoFlushTail
  BY <1>7 DEF WholeBlock, AutoFlushTail, TakeFromSrc, Agreed
<1>8. CASE UpdateReturn
  <2>1. prefs.autoFlush => tmp' = tmp
    BY <1>8 DEF UpdateReturn
  <2>2. UNCHANGED <<stage, prefs, maxBlockSize, header, clean>>
    BY <1>8 DEF UpdateReturn
  <2>3. QED  BY <2>1, <2>2 DEF Agreed
<1>9. CASE EndTooSmall
  <2>1. clean' => clean
    BY <1>9 DEF EndTooSmall
  <2>2. UNCHANGED <<cctx, header>>
    BY <1>9 DEF EndTooSmall
  <2>3. QED  BY <2>1, <2>2 DEF Agreed, cctx
<1>10. CASE EndMark
  BY <1>10 DEF EndMark, Agreed
<1>11. QED
  BY <1>1, <1>2, <1>3, <1>4, <1>5, <1>6, <1>7, <1>8, <1>9, <1>10 DEF Step

(* Preferences and header agree in every reachable state.                  *)
LEMMA AgreedInvariant == Spec => [](TypeInv /\ Agreed)
<1>1. Init => Agreed
  BY DEF Init, Agreed
<1>2. TypeInv /\ Agreed /\ [Next]_vars => Agreed'
  <2>1. Agreed /\ UNCHANGED vars => Agreed'
    BY DEF Agreed, vars, cctx
  <2>2. QED  BY <2>1, NewCallAgreed, StepAgreed DEF Next
<1>3. QED  BY <1>1, <1>2, TypeInvariant, PTL DEF Spec

(* Blocks are made by the rules the frame's header announced: no call but  *)
(* begin changes the preferences of an open frame, and the staging buffer  *)
(* never reaches the block size the header gives (frame.rs:423-431).       *)
THEOREM HeaderRules == Spec => []HeaderHonoured
<1>1. TypeInv /\ Agreed => HeaderHonoured
  BY DEF TypeInv, Buffer, Agreed, HeaderHonoured
<1>2. QED  BY <1>1, AgreedInvariant, PTL

(* A destination of compressBound(n) bytes is never refused by an update   *)
(* of n bytes, whatever the frame has buffered (frame.rs:252-262).         *)
THEOREM BoundSuffices == Spec => []BoundAccepted
<1>1. TypeInv /\ Agreed => BoundAccepted
  <2> SUFFICES ASSUME TypeInv, Agreed, stage = 1, clean, NEW n \in SrcSizes
               PROVE  CompressBoundInternal(n, prefs, Len(tmp)) <= CompressBound(n, prefs)
    BY DEF BoundAccepted
  <2>1. prefs \in Prefs /\ n \in Nat /\ Len(tmp) \in Nat
    BY SizesNatural DEF TypeInv, TypeOK
  <2>2. Len(tmp) < GetBlockSize(prefs.blockSizeID)
    BY DEF TypeInv, Buffer, Agreed
  <2>3. prefs.autoFlush => Len(tmp) = 0
    BY EmptySeq DEF Agreed
  <2>4. QED  BY <2>1, <2>2, <2>3, BoundMonotone
<1>2. QED  BY <1>1, AgreedInvariant, PTL

-----------------------------------------------------------------------------
(* Capacity.  A call writes within its destination when all of the frame's *)
(* calls use one block mode; with two, the flush an update starts with is  *)
(* not in the bound it checked.                                            *)

OneMode ==
  /\ blockMode = "compressed" /\ call.mode = "compressed"
  /\ call.op = "update" => call.phase # "flush"

Room ==
  /\ call.phase = "flush" => call.at = 0
  /\ clean =>
       /\ call.phase = "fill" =>
            call.at = 0 /\ call.cap >= CompressBoundInternal(Len(call.src), prefs, Len(tmp))
       /\ call.phase = "blocks" =>
            call.at + Needed(Len(call.src), prefs, maxBlockSize) <= call.cap
       /\ call.phase = "mark" => call.at <= call.cap

CapInv == TypeInv /\ Agreed /\ OneMode /\ Room

(* Where it is, the call is within its destination.                        *)
LEMMA RoomRespects == CapInv => CapacityRespected
<1> SUFFICES ASSUME CapInv, clean PROVE call.at <= call.cap
  BY DEF CapacityRespected
<1> USE DEF CapInv, TypeInv
<1>1. call.at \in Nat /\ call.cap \in Nat /\ call.src \in Seq(Byte)
      /\ call.phase \in {"idle", "flush", "fill", "blocks", "mark"}
  BY DEF TypeOK, Call
<1>2. CASE call.phase \in {"idle", "flush", "fill"}
  <2>1. call.at = 0
    BY <1>2 DEF Room, Phases
  <2>2. QED  BY <1>1, <2>1
<1>3. CASE call.phase = "blocks"
  <2>1. stage = 1
    BY <1>3 DEF Phases
  <2>2. maxBlockSize \in Nat \ {0} /\ prefs \in Prefs /\ Len(call.src) \in Nat
    BY <1>1, <2>1 DEF TypeOK, Buffer
  <2>3. Needed(Len(call.src), prefs, maxBlockSize) \in Nat
    BY <2>2, NeededNat
  <2>4. QED  BY <1>1, <1>3, <2>3 DEF Room
<1>4. CASE call.phase = "mark"
  BY <1>4 DEF Room
<1>5. QED  BY <1>1, <1>2, <1>3, <1>4

(* A call starts with room for all that it may write.                      *)
LEMMA NewCallRoom ==
  ASSUME Modes = {"compressed"}, CapInv, NewCall PROVE OneMode' /\ Room'
<1> USE DEF CapInv
<1>1. ASSUME call' = Idle, blockMode' \in {blockMode, "compressed"} PROVE OneMode' /\ Room'
  BY <1>1 DEF OneMode, Room, Idle
<1>2. ASSUME NEW op \in {"flush", "end"}, NEW cap \in Caps,
             call' = [Idle EXCEPT !.op = op, !.phase = "flush", !.cap = cap],
             blockMode' = blockMode
      PROVE  OneMode' /\ Room'
  <2>1. call'.op = op /\ call'.phase = "flush" /\ call'.at = 0 /\ call'.mode = "compressed"
    BY <1>2 DEF Idle
  <2>2. QED  BY <1>2, <2>1 DEF OneMode, Room
<1>3. ASSUME NEW cap \in Caps, NEW n \in SrcSizes, NEW m \in Modes,
             UpdateCall(n, m, cap)
      PROVE  OneMode' /\ Room'
  <2> DEFINE src == [i \in 1..n |-> <<totalInSize + i, m>>]
  <2>1. call' = [op |-> "update", phase |-> FirstPhase(m), src |-> src,
                 fed |-> src, mode |-> m, cap |-> cap, at |-> 0]
    BY <1>3 DEF UpdateCall
  <2>2. m = "compressed" /\ FirstPhase(m) = "fill"
    BY DEF FirstPhase, OneMode
  <2>3. Len(src) = n
    BY SizesNatural
  <2>4. cap >= CompressBoundInternal(n, prefs, Len(tmp))
        /\ UNCHANGED <<cctx, res, header, content, sealed, clean>>
    BY <1>3 DEF UpdateCall
  <2> HIDE DEF src
  <2>5. /\ call'.op = "update" /\ call'.phase = "fill" /\ call'.at = 0
        /\ call'.mode = "compressed" /\ call'.cap = cap /\ Len(call'.src) = n
    BY <2>1, <2>2, <2>3
  <2>6. QED  BY <2>4, <2>5 DEF OneMode, Room, cctx
<1>4. QED
  <2>1. ASSUME NEW r, Reject(r) PROVE OneMode' /\ Room'
    BY <2>1, <1>1 DEF Reject, Return, cctx
  <2>2. ASSUME NEW cap \in Caps, FlushCall(cap) \/ EndCall(cap) PROVE OneMode' /\ Room'
    BY <2>2, <1>2 DEF FlushCall, EndCall, cctx
  <2>3. ASSUME NEW cap \in Caps, NEW p \in PrefSet,
               \/ BeginBadBlockSize(p, cap)
               \/ \E d \in DictLengths : Begin(p, d, cap)
        PROVE  OneMode' /\ Room'
    BY <2>3, <1>1 DEF BeginBadBlockSize, Begin, Return
  <2>4. QED
    BY <2>1, <2>2, <2>3, <1>3 DEF NewCall, BeginTooSmall, UpdateTooSmall, UpdateUninitialized

(* Where a block ends: at most its own size past its header and checksum.  *)
LEMMA BlockEndBound ==
  ASSUME TypeInv, NEW n \in Nat, NEW c \in 1..n
  PROVE  /\ BlockEnd(c) \in Nat
         /\ BlockEnd(c) <= call.at + BHSize + CrcSize(prefs) + n
         /\ CrcSize(prefs) \in {0, 4}
<1>1. CrcSize(prefs) \in {0, 4}
  BY CrcSizeValue DEF TypeInv, TypeOK
<1>2. call.at \in Nat
  BY DEF TypeInv, TypeOK, Call
<1>3. QED  BY <1>1, <1>2 DEF BlockEnd

(* Each step leaves room for what the call may still write.                *)
LEMMA StepRoom ==
  ASSUME CapInv, Step PROVE OneMode' /\ Room'
<1> USE DEF CapInv, InPhase
<1>a. /\ call.at \in Nat /\ call.cap \in Nat /\ call.src \in Seq(Byte) /\ tmp \in Seq(Byte)
      /\ prefs \in Prefs /\ maxBlockSize \in Nat /\ call \in Call
  BY DEF TypeInv, TypeOK, Call
<1>b. ASSUME call' = Idle, blockMode' \in {blockMode, call.mode} PROVE OneMode' /\ Room'
  BY <1>b DEF OneMode, Room, Idle
<1>c. ASSUME NEW at \in Nat, AfterFlush(at), call.phase = "flush", clean' = clean,
             at <= call.cap
      PROVE  OneMode' /\ Room'
  <2>1. call.op # "update" /\ blockMode' = blockMode
    BY <1>c DEF OneMode, AfterFlush
  <2>2. CASE call.op = "flush"
    BY <1>b, <1>c, <2>1, <2>2 DEF AfterFlush, Return
  <2>3. CASE call.op # "flush"
    <3>1. call' = [call EXCEPT !.at = at, !.phase = PhaseAfterFlush]
      BY <1>c, <2>3 DEF AfterFlush
    <3>2. /\ call'.op = call.op /\ call'.mode = call.mode /\ call'.cap = call.cap
          /\ call'.phase = "mark" /\ call'.at = at
      BY <1>a, <2>1, <3>1 DEF Call, PhaseAfterFlush
    <3>3. QED  BY <1>c, <2>1, <3>2 DEF OneMode, Room
  <2>4. QED  BY <2>2, <2>3
<1>1. CASE FlushNothing
  BY <1>1, <1>a, <1>c DEF FlushNothing
<1>2. CASE FlushTooSmall
  BY <1>2, <1>b DEF FlushTooSmall, Return, cctx
<1>3. CASE FlushBlock
  <2>1. PICK c \in 1..Len(tmp) : AfterFlush(BlockEnd(c))
    BY <1>3 DEF FlushBlock
  <2>2. /\ call.phase = "flush" /\ clean' = clean
        /\ call.cap >= Len(tmp) + BHSize + BFSize
    BY <1>3 DEF FlushBlock
  <2>3. call.at = 0
    BY <2>2 DEF Room
  <2>4. Len(tmp) \in Nat
    BY <1>a
  <2>5. BlockEnd(c) \in Nat /\ BlockEnd(c) <= call.cap
    <3>1. /\ BlockEnd(c) \in Nat /\ CrcSize(prefs) \in {0, 4}
          /\ BlockEnd(c) <= call.at + BHSize + CrcSize(prefs) + Len(tmp)
      BY <2>4, BlockEndBound
    <3>2. BlockEnd(c) <= Len(tmp) + BHSize + BFSize
      BY <2>3, <2>4, <3>1
    <3>3. QED  BY <1>a, <2>2, <2>4, <3>1, <3>2
  <2>6. QED  BY <1>c, <2>1, <2>2, <2>5
<1>d. ASSUME call.phase \in {"fill", "blocks"}
      PROVE  stage = 1 /\ maxBlockSize \in Nat \ {0} /\ Len(tmp) < maxBlockSize
  BY <1>a, <1>d DEF TypeInv, Phases, Buffer
<1>e. ASSUME call.phase \in {"fill", "blocks"}, clean
      PROVE  maxBlockSize = GetBlockSize(prefs.blockSizeID)
  BY <1>d, <1>e DEF Agreed
<1>f. ASSUME call.phase = "fill", clean
      PROVE  call.at = 0 /\ Needed(Len(call.src) + Len(tmp), prefs, maxBlockSize) <= call.cap
  <2>1. Len(call.src) \in Nat /\ Len(tmp) \in Nat /\ Len(call.src) + Len(tmp) \in Nat
    BY <1>a
  <2>2. /\ Needed(Len(call.src) + Len(tmp), prefs, maxBlockSize)
             <= CompressBoundInternal(Len(call.src), prefs, Len(tmp))
    BY <1>a, <1>d, <1>e, <1>f, <2>1, BoundCoversLoop
  <2>3. /\ call.at = 0
        /\ CompressBoundInternal(Len(call.src), prefs, Len(tmp)) <= call.cap
    BY <1>f DEF Room
  <2>4. Needed(Len(call.src) + Len(tmp), prefs, maxBlockSize) \in Nat
    BY <1>a, <1>d, <1>f, <2>1, NeededNat
  <2>5. CompressBoundInternal(Len(call.src), prefs, Len(tmp)) \in Int
    BY <1>a, <1>d, <1>e, <1>f, <2>1, BoundNat
  <2>6. QED  BY <1>a, <2>2, <2>3, <2>4, <2>5
<1>4. CASE FillNothing
  <2>1. call' = [call EXCEPT !.phase = "blocks"] /\ call.phase = "fill" /\ tmp = <<>>
        /\ UNCHANGED <<cctx, clean>>
    BY <1>4 DEF FillNothing
  <2>2. /\ call'.op = call.op /\ call'.mode = call.mode /\ call'.cap = call.cap
        /\ call'.phase = "blocks" /\ call'.at = call.at /\ call'.src = call.src
    BY <1>a, <2>1 DEF Call
  <2>3. ASSUME clean PROVE call.at + Needed(Len(call.src), prefs, maxBlockSize) <= call.cap
    <3>1. Len(call.src) + Len(tmp) = Len(call.src)
      BY <1>a, <2>1, EmptySeq
    <3>2. call.at = 0 /\ Needed(Len(call.src), prefs, maxBlockSize) <= call.cap
      BY <1>f, <2>1, <2>3, <3>1
    <3>3. Needed(Len(call.src), prefs, maxBlockSize) \in Nat
      BY <1>a, <1>d, <2>1, NeededNat
    <3>4. QED  BY <3>2, <3>3
  <2>4. QED  BY <2>1, <2>2, <2>3 DEF OneMode, Room, cctx
<1>5. CASE FillPartly
  <2>1. call' = [call EXCEPT !.phase = "blocks", !.src = <<>>] /\ call.phase = "fill"
        /\ UNCHANGED <<prefs, maxBlockSize, blockMode, clean>>
    BY <1>5 DEF FillPartly
  <2>2. /\ call'.op = call.op /\ call'.mode = call.mode /\ call'.cap = call.cap
        /\ call'.phase = "blocks" /\ call'.at = call.at /\ Len(call'.src) = 0
    BY <1>a, <2>1, EmptySeq DEF Call
  <2>3. Needed(0, prefs, maxBlockSize) = 0
    BY <1>a, <1>d, <2>1, NeededNat
  <2>4. clean => call.at = 0
    BY <1>f, <2>1
  <2>5. QED  BY <1>a, <2>1, <2>2, <2>3, <2>4 DEF OneMode, Room
<1>g. ASSUME NEW n \in Nat, NEW c \in 1..n, NEW r \in Nat, r >= n,
             call.phase \in {"fill", "blocks"},
             clean => call.at + Needed(r, prefs, maxBlockSize) <= call.cap,
             \/ n = maxBlockSize
             \/ n < maxBlockSize /\ r = n /\ prefs.autoFlush,
             call'.op = "update", call'.mode = call.mode, call'.cap = call.cap,
             call'.phase = "blocks", call'.at = BlockEnd(c), Len(call'.src) = r - n,
             UNCHANGED <<prefs, maxBlockSize, blockMode, clean>>
      PROVE  OneMode' /\ Room'
  <2>1. maxBlockSize \in Nat \ {0} /\ n > 0 /\ r - n \in Nat
    BY <1>d, <1>g
  <2>2. Needed(r, prefs, maxBlockSize)
          = BHSize + CrcSize(prefs) + n + Needed(r - n, prefs, maxBlockSize)
    <3>1. CASE n = maxBlockSize
      BY <1>a, <1>g, <2>1, <3>1, NeededWhole
    <3>2. CASE n < maxBlockSize /\ r = n /\ prefs.autoFlush
      <4>1. r \in 1..(maxBlockSize - 1) /\ r - n = 0
        BY <1>g, <2>1, <3>2
      <4>2. Needed(r, prefs, maxBlockSize) = BHSize + CrcSize(prefs) + r
        BY <1>a, <2>1, <3>2, <4>1, NeededTail
      <4>3. Needed(r - n, prefs, maxBlockSize) = 0
        BY <1>a, <2>1, <4>1, NeededNat
      <4>4. QED  BY <1>a, <3>2, <4>2, <4>3, CrcSizeValue
    <3>3. QED  BY <1>g, <3>1, <3>2
  <2>3. Needed(r - n, prefs, maxBlockSize) \in Nat
    BY <1>a, <2>1, NeededNat
  <2>4. /\ BlockEnd(c) \in Nat /\ CrcSize(prefs) \in {0, 4}
        /\ BlockEnd(c) <= call.at + BHSize + CrcSize(prefs) + n
    BY BlockEndBound
  <2>5. clean => BlockEnd(c) + Needed(r - n, prefs, maxBlockSize) <= call.cap
    <3> DEFINE need == Needed(r, prefs, maxBlockSize)
               rest == Needed(r - n, prefs, maxBlockSize)
               end == BlockEnd(c)
    <3>1. clean => call.at + need <= call.cap
      BY <1>g
    <3>2. need = BHSize + CrcSize(prefs) + n + rest /\ rest \in Nat
      BY <2>2, <2>3
    <3>3. /\ end \in Nat /\ CrcSize(prefs) \in {0, 4}
          /\ end <= call.at + BHSize + CrcSize(prefs) + n
      BY <2>4
    <3> HIDE DEF need, rest, end
    <3>4. ASSUME clean PROVE end + rest <= call.cap
      <4>1. call.at + need <= call.cap /\ call.at \in Nat /\ call.cap \in Nat
        BY <1>a, <3>1, <3>4
      <4>2. end + rest <= call.at + need
        BY <3>2, <3>3, <4>1
      <4>3. QED  BY <3>2, <3>3, <4>1, <4>2
    <3>5. QED  BY <3>4 DEF rest, end
  <2>6. QED  BY <1>g, <2>5 DEF OneMode, Room
<1>6. CASE FillBlock
  <2> DEFINE k == maxBlockSize - Len(tmp)
             block == tmp \o SubSeq(call.src, 1, k)
  <2>1. PICK c \in 1..Len(block) :
          call' = [call EXCEPT !.phase = "blocks", !.at = BlockEnd(c), !.src = Unread(k)]
    BY <1>6 DEF FillBlock
  <2>2. call.phase = "fill" /\ ~StaysBelowBlock
        /\ UNCHANGED <<prefs, maxBlockSize, blockMode, clean>>
    BY <1>6 DEF FillBlock
  <2>3. Len(tmp) \in Nat /\ Len(call.src) \in Nat /\ Len(tmp) < maxBlockSize
        /\ Len(tmp) + Len(call.src) >= maxBlockSize
    BY <1>a, <1>d, <2>2 DEF StaysBelowBlock
  <2>4. k \in Nat /\ k <= Len(call.src)
    BY <1>a, <2>3
  <2>5. /\ SubSeq(call.src, 1, k) \in Seq(Byte) /\ Len(SubSeq(call.src, 1, k)) = k
        /\ Unread(k) \in Seq(Byte) /\ Len(Unread(k)) = Len(call.src) - k
    BY <2>4, UnreadType DEF TypeInv
  <2>6. Len(block) = maxBlockSize
    BY <1>a, <2>3, <2>5, ConcatProperties
  <2>7. Len(Unread(k)) = (Len(call.src) + Len(tmp)) - maxBlockSize
    BY <1>a, <2>3, <2>5
  <2> HIDE DEF k, block
  <2>8. /\ call'.op = call.op /\ call'.mode = call.mode /\ call'.cap = call.cap
        /\ call'.phase = "blocks" /\ call'.at = BlockEnd(c) /\ call'.src = Unread(k)
    BY <1>a, <2>1 DEF Call
  <2>9. call.op = "update"
    BY <2>2 DEF TypeInv, Phases
  <2> DEFINE r == Len(call.src) + Len(tmp)
  <2>10. r \in Nat /\ r >= maxBlockSize /\ c \in 1..maxBlockSize /\ Len(call'.src) = r - maxBlockSize
    BY <1>a, <2>3, <2>6, <2>7, <2>8
  <2>11. Needed(r, prefs, maxBlockSize) \in Nat
    BY <1>a, <1>d, <2>2, <2>10, NeededNat
  <2>12. clean => call.at + Needed(r, prefs, maxBlockSize) <= call.cap
    BY <1>f, <2>2, <2>11
  <2> HIDE DEF r
  <2>13. QED  BY <1>a, <1>g, <2>2, <2>8, <2>9, <2>10, <2>12
<1>h. ASSUME NEW n \in Nat, n <= Len(call.src), call.phase = "blocks", TakeFromSrc(n),
             \/ n = maxBlockSize
             \/ n < maxBlockSize /\ n = Len(call.src) /\ prefs.autoFlush
      PROVE  OneMode' /\ Room'
  <2>1. PICK c \in 1..n : call' = [call EXCEPT !.at = BlockEnd(c), !.src = Unread(n)]
    BY <1>h DEF TakeFromSrc
  <2>2. UNCHANGED <<prefs, maxBlockSize, blockMode, clean>>
    BY <1>h DEF TakeFromSrc
  <2>3. /\ call'.op = call.op /\ call'.mode = call.mode /\ call'.cap = call.cap
        /\ call'.phase = "blocks" /\ call'.at = BlockEnd(c) /\ call'.src = Unread(n)
    BY <1>a, <1>h, <2>1 DEF Call
  <2>4. Len(Unread(n)) = Len(call.src) - n
    BY <1>h, UnreadType DEF TypeInv
  <2>5. call.op = "update"
    BY <1>h DEF TypeInv, Phases
  <2>6. clean => call.at + Needed(Len(call.src), prefs, maxBlockSize) <= call.cap
    BY <1>h DEF Room
  <2> DEFINE r == Len(call.src)
  <2>7. r \in Nat /\ r >= n
    BY <1>a, <1>h
  <2>8. Len(call'.src) = r - n
    BY <2>3, <2>4
  <2>9. n < maxBlockSize /\ n = Len(call.src) => r = n
    OBVIOUS
  <2> HIDE DEF r
  <2>10. clean => call.at + Needed(r, prefs, maxBlockSize) <= call.cap
    BY <2>6 DEF r
  <2>11. QED  BY <1>g, <1>h, <2>2, <2>3, <2>5, <2>7, <2>8, <2>9, <2>10
<1>7. CASE WholeBlock
  BY <1>7, <1>a, <1>h DEF WholeBlock
<1>8. CASE AutoFlushTail
  <2>1. Len(call.src) \in Nat /\ Len(call.src) < maxBlockSize
    BY <1>8, <1>a DEF AutoFlushTail
  <2>2. QED  BY <1>8, <1>h, <2>1 DEF AutoFlushTail
<1>9. CASE UpdateReturn
  BY <1>9, <1>b DEF UpdateReturn, Return
<1>10. CASE EndTooSmall
  BY <1>10, <1>b DEF EndTooSmall, Return, cctx
<1>11. CASE EndMark
  <2>1. call' = Idle /\ blockMode' = blockMode
    BY <1>11 DEF EndMark, Return
  <2>2. QED  BY <1>b, <2>1
<1>12. QED
  BY <1>1, <1>2, <1>3, <1>4, <1>5, <1>6, <1>7, <1>8, <1>9, <1>10, <1>11 DEF Step

(* Room and one mode, in every reachable state of such a program.          *)
LEMMA CapInvariant ==
  ASSUME Modes = {"compressed"} PROVE Spec => []CapInv
<1>1. Init => OneMode /\ Room
  BY DEF Init, OneMode, Room, Idle
<1>2. CapInv /\ [Next]_vars => (OneMode /\ Room)'
  <2>1. OneMode /\ Room /\ UNCHANGED vars => OneMode' /\ Room'
    BY DEF OneMode, Room, vars, cctx
  <2>2. QED  BY <2>1, NewCallRoom, StepRoom DEF Next, CapInv
<1>3. QED  BY <1>1, <1>2, AgreedInvariant, PTL DEF Spec, CapInv

(* No call writes past the destination it was given, in a program that     *)
(* uses LZ4F_compressUpdate only: the bound update checks once before its  *)
(* loop covers every block the loop emits, and the checks of flush and end *)
(* cover what they emit (frame.rs:648, 727, 746).                          *)
THEOREM Capacity ==
  ASSUME Modes = {"compressed"} PROVE Spec => []CapacityRespected
BY CapInvariant, RoomRespects, PTL

-----------------------------------------------------------------------------
(* What is written: nothing fed is lost, repeated or reordered, a frame    *)
(* reported complete is complete and its checksum covers it, no block      *)
(* mixes the modes of two calls, and the history given to the codec is     *)
(* the one a decoder will have.                                            *)

(* The inductive invariant.  The bytes of the frame are those in its       *)
(* blocks, then those buffered, then those the running update has yet to   *)
(* take; the steps of a call only move the borders between the three.      *)

(* Concatenation under a name: the provers reason by its laws, below.      *)
Joined(s, t) == s \o t

Bytes == Joined(Joined(content, tmp), call.src)

(* Before its loop an update has taken nothing.                            *)
Untaken == call.phase \in {"flush", "fill"} => call.src = call.fed

Numbered ==
  clean => /\ \A i \in 1..Len(Bytes) : Bytes[i][1] = i
           /\ Len(Bytes) = totalInSize + Len(call.fed)

(* The checksum is behind by the piece the running update was given.       *)
Hashing ==
  stage = 1 /\ clean /\ prefs.contentChecksum => Bytes = Joined(xxh, call.fed)

Sealing ==
  sealed => /\ stage = 0
            /\ clean => /\ Len(content) = totalInSize
                        /\ header.contentChecksum => xxh = content
                        /\ header.contentSize # 0 => Len(content) = header.contentSize

(* Buffered bytes were fed in the mode they will be compressed in.         *)
Unmixed ==
  /\ \A i \in 1..Len(tmp) : tmp[i][2] = blockMode
  /\ \A i \in 1..Len(call.src) : call.src[i][2] = call.mode
  /\ call.phase \in {"fill", "blocks"} => blockMode = call.mode

(* The history the codec has is the last window of what is decoded.        *)
Windowed ==
  stage = 1 /\ prefs.linked /\ clean =>
    dict = LastBytes(Joined(frameDict, content), K64) /\ dictSize = Len(dict)


-----------------------------------------------------------------------------
(* Lemmas about sequences.                                                 *)

(* The laws of concatenation.                                              *)
LEMMA JoinedLaws ==
  ASSUME NEW S, NEW s \in Seq(S), NEW t \in Seq(S)
  PROVE  /\ Joined(s, t) \in Seq(S) /\ Len(Joined(s, t)) = Len(s) + Len(t)
         /\ Joined(s, <<>>) = s /\ Joined(<<>>, s) = s
         /\ \A i \in 1..(Len(s) + Len(t)) :
              Joined(s, t)[i] = IF i <= Len(s) THEN s[i] ELSE t[i - Len(s)]
BY ConcatProperties, ConcatEmptySeq DEF Joined

LEMMA JoinedAssociative ==
  ASSUME NEW S, NEW s \in Seq(S), NEW t \in Seq(S), NEW u \in Seq(S)
  PROVE  Joined(Joined(s, t), u) = Joined(s, Joined(t, u))
BY ConcatAssociative DEF Joined

(* A sequence is its first n elements and the rest.                        *)
LEMMA JoinedParts ==
  ASSUME NEW S, NEW s \in Seq(S), NEW n \in 0..Len(s)
  PROVE  /\ SubSeq(s, 1, n) \in Seq(S) /\ SubSeq(s, n + 1, Len(s)) \in Seq(S)
         /\ Joined(SubSeq(s, 1, n), SubSeq(s, n + 1, Len(s))) = s
<1>1. 1 \in 1..(Len(s) + 1) /\ n \in (1 - 1)..Len(s) /\ Len(s) \in n..Len(s)
  OBVIOUS
<1>2. Joined(SubSeq(s, 1, n), SubSeq(s, n + 1, Len(s))) = SubSeq(s, 1, Len(s))
  BY <1>1, ConcatAdjacentSubSeq DEF Joined
<1>3. SubSeq(s, 1, Len(s)) = s
  BY SubSeqFull
<1>4. SubSeq(s, 1, n) \in Seq(S) /\ SubSeq(s, n + 1, Len(s)) \in Seq(S)
  OBVIOUS
<1>5. QED  BY <1>2, <1>3, <1>4

(* Bytes moved from the front of one sequence to the end of the one before *)
(* it: the whole is the same.                                              *)
LEMMA BorderMoves ==
  ASSUME NEW S, NEW a \in Seq(S), NEW t \in Seq(S), NEW f \in Seq(S), NEW r \in Seq(S)
  PROVE  Joined(Joined(Joined(a, Joined(t, f)), <<>>), r) = Joined(Joined(a, t), Joined(f, r))
<1>1. Joined(t, f) \in Seq(S) /\ Joined(a, t) \in Seq(S) /\ Joined(a, Joined(t, f)) \in Seq(S)
  BY JoinedLaws
<1>2. Joined(Joined(a, Joined(t, f)), <<>>) = Joined(a, Joined(t, f))
  BY <1>1, JoinedLaws
<1>3. Joined(a, Joined(t, f)) = Joined(Joined(a, t), f)
  BY <1>1, JoinedAssociative
<1>4. Joined(Joined(Joined(a, t), f), r) = Joined(Joined(a, t), Joined(f, r))
  BY <1>1, JoinedAssociative
<1>5. QED  BY <1>2, <1>3, <1>4

(* What is followed by the same is the same.                               *)
LEMMA SameBefore ==
  ASSUME NEW S, NEW s \in Seq(S), NEW t \in Seq(S), NEW u \in Seq(S),
         Joined(s, u) = Joined(t, u)
  PROVE  s = t
<1>1. Len(s) \in Nat /\ Len(t) \in Nat /\ Len(u) \in Nat
  BY LenProperties
<1>2. Len(s) = Len(t)
  <2>1. Len(Joined(s, u)) = Len(s) + Len(u)
    BY JoinedLaws
  <2>2. Len(Joined(t, u)) = Len(t) + Len(u)
    BY JoinedLaws
  <2>3. QED  BY <1>1, <2>1, <2>2
<1>3. ASSUME NEW i \in 1..Len(s) PROVE s[i] = t[i]
  <2>1. i \in 1..(Len(s) + Len(u)) /\ i \in 1..(Len(t) + Len(u)) /\ i <= Len(s) /\ i <= Len(t)
    BY <1>1, <1>2
  <2>2. Joined(s, u)[i] = s[i] /\ Joined(t, u)[i] = t[i]
    BY <2>1, JoinedLaws
  <2>3. QED  BY <2>2
<1>4. QED  BY <1>2, <1>3, SeqEqual

(* The types of a frame's bytes and of their parts.                        *)
LEMMA BytesType ==
  ASSUME TypeOK
  PROVE  /\ content \in Seq(Byte) /\ tmp \in Seq(Byte) /\ call.src \in Seq(Byte)
         /\ call.fed \in Seq(Byte) /\ xxh \in Seq(Byte)
         /\ Joined(content, tmp) \in Seq(Byte) /\ Bytes \in Seq(Byte)
         /\ Len(Bytes) = Len(content) + Len(tmp) + Len(call.src)
<1>1. /\ content \in Seq(Byte) /\ tmp \in Seq(Byte) /\ call.src \in Seq(Byte)
      /\ call.fed \in Seq(Byte) /\ xxh \in Seq(Byte)
  BY DEF TypeOK, Call
<1>2. /\ Joined(content, tmp) \in Seq(Byte)
      /\ Len(Joined(content, tmp)) = Len(content) + Len(tmp)
  BY <1>1, JoinedLaws
<1>3. Bytes \in Seq(Byte) /\ Len(Bytes) = Len(Joined(content, tmp)) + Len(call.src)
  <2> DEFINE c == Joined(content, tmp)
  <2>1. c \in Seq(Byte) /\ call.src \in Seq(Byte) /\ Bytes = Joined(c, call.src)
    BY <1>1, <1>2 DEF Bytes
  <2> HIDE DEF c
  <2>2. Bytes \in Seq(Byte) /\ Len(Bytes) = Len(c) + Len(call.src)
    BY <2>1, JoinedLaws
  <2>3. QED  BY <2>2 DEF c
<1>4. QED  BY <1>1, <1>2, <1>3

(* Nothing left to take.                                                   *)
LEMMA BytesTaken ==
  ASSUME TypeOK, call.src = <<>>
  PROVE  Bytes = Joined(content, tmp) /\ (tmp = <<>> => Bytes = content)
BY BytesType, JoinedLaws DEF Bytes

-----------------------------------------------------------------------------
(* What the steps of a call do to the bytes of the frame.                  *)

(* A step inside a call: bytes are at most moved from one part to another. *)
Moving ==
  /\ Bytes' = Bytes /\ call'.fed = call.fed
  /\ call'.phase \in {"flush", "fill"} => call'.src = call.src /\ call.phase = "flush"
  /\ UNCHANGED <<stage, prefs, totalInSize, xxh, header, sealed, clean>>

(* A flush refused: the update that needed it has not begun.               *)
Refused ==
  /\ call.phase = "flush" /\ call' = Idle
  /\ UNCHANGED <<cctx, header, content, sealed, clean>>

(* An update done: its piece is buffered or in blocks, and hashed.         *)
Accepted ==
  /\ call.phase = "blocks" /\ call' = Idle /\ Bytes' = Bytes
  /\ xxh' = Hashed /\ totalInSize' = totalInSize + Len(call.fed)
  /\ UNCHANGED <<stage, prefs, header, sealed, clean>>

(* A flush that empties the buffer moves it to the blocks.                 *)
LEMMA FlushMoves ==
  ASSUME TypeInv, call.phase = "flush", NEW at \in Nat, AfterFlush(at),
         content' = Joined(content, tmp), tmp' = <<>>,
         UNCHANGED <<stage, prefs, totalInSize, xxh, header, sealed, clean>>
  PROVE  Moving
<1> USE DEF TypeInv
<1>0. call \in Call
  BY DEF TypeOK
<1>1. call'.src = call.src /\ call'.fed = call.fed
  <2>1. CASE call.op = "flush"
    <3>1. call' = Idle
      BY <2>1 DEF AfterFlush, Return
    <3>2. call.src = <<>> /\ call.fed = <<>>
      BY <2>1 DEF Phases
    <3>3. QED  BY <3>1, <3>2, InitialRecords
  <2>2. CASE call.op # "flush"
    <3>1. call' = [call EXCEPT !.at = at, !.phase = PhaseAfterFlush]
      BY <2>2 DEF AfterFlush
    <3>2. QED  BY <1>0, <3>1 DEF Call
  <2>3. QED  BY <2>1, <2>2
<1>2. Bytes' = Joined(Joined(Joined(content, tmp), <<>>), call.src)
  BY <1>1 DEF Bytes
<1>3. Joined(Joined(content, tmp), <<>>) = Joined(content, tmp)
  BY BytesType, JoinedLaws
<1>4. Bytes' = Bytes
  BY <1>2, <1>3 DEF Bytes
<1>5. QED  BY <1>1, <1>4 DEF Moving

(* So does a block taken from the source.                                  *)
LEMMA TakeMoves ==
  ASSUME TypeInv, NEW n \in Nat, n <= Len(call.src),
         content' = Joined(content, Joined(tmp, SubSeq(call.src, 1, n))), tmp' = <<>>,
         call'.src = Unread(n), call'.fed = call.fed, call'.phase = "blocks",
         UNCHANGED <<stage, prefs, totalInSize, xxh, header, sealed, clean>>
  PROVE  Moving
<1> DEFINE f == SubSeq(call.src, 1, n)
           r == SubSeq(call.src, n + 1, Len(call.src))
<1>1. content \in Seq(Byte) /\ tmp \in Seq(Byte) /\ call.src \in Seq(Byte)
  BY BytesType DEF TypeInv
<1>2. f \in Seq(Byte) /\ r \in Seq(Byte) /\ Joined(f, r) = call.src
  <2>1. n \in 0..Len(call.src)
    BY <1>1, LenProperties
  <2>2. QED  BY <1>1, <2>1, JoinedParts
<1>3. Bytes' = Joined(Joined(Joined(content, Joined(tmp, f)), <<>>), r)
  BY DEF Bytes, Unread
<1> HIDE DEF f, r
<1>4. Bytes' = Bytes
  BY <1>1, <1>2, <1>3, BorderMoves DEF Bytes
<1>5. QED  BY <1>4 DEF Moving

(* Each step of a call is one of these, or one of the two steps of end.    *)
LEMMA StepKinds ==
  ASSUME TypeInv, Step
  PROVE  Moving \/ Refused \/ Accepted \/ EndTooSmall \/ EndMark
<1> USE DEF TypeInv, InPhase
<1>0. call \in Call /\ tmp \in Seq(Byte) /\ call.src \in Seq(Byte) /\ content \in Seq(Byte)
      /\ maxBlockSize \in Nat
  BY BytesType DEF TypeOK
<1>1. CASE FlushNothing
  <2>1. content' = Joined(content, tmp) /\ tmp' = <<>>
    BY <1>0, <1>1, JoinedLaws DEF FlushNothing
  <2>2. QED  BY <1>1, <2>1, FlushMoves DEF FlushNothing
<1>2. CASE FlushTooSmall
  BY <1>2 DEF FlushTooSmall, Return, Refused
<1>3. CASE FlushBlock
  <2>1. PICK c \in 1..Len(tmp) : EmitBlock(tmp, blockMode, c) /\ AfterFlush(BlockEnd(c))
    BY <1>3 DEF FlushBlock
  <2>2. BlockEnd(c) \in Nat
    BY <1>0, BlockEndBound, LenProperties
  <2>3. content' = Joined(content, tmp)
    BY <2>1 DEF EmitBlock, Joined
  <2>4. QED  BY <1>3, <2>1, <2>2, <2>3, FlushMoves DEF FlushBlock
<1>4. CASE FillNothing
  <2>1. call'.src = call.src /\ call'.fed = call.fed /\ call'.phase = "blocks"
    BY <1>0, <1>4 DEF FillNothing, Call
  <2>2. UNCHANGED <<cctx, header, content, sealed, clean>>
    BY <1>4 DEF FillNothing
  <2>3. Bytes' = Bytes
    BY <2>1, <2>2 DEF Bytes, cctx
  <2>4. QED  BY <2>1, <2>2, <2>3 DEF Moving, cctx
<1>5. CASE FillPartly
  <2>1. call'.src = <<>> /\ call'.fed = call.fed /\ call'.phase = "blocks"
    BY <1>0, <1>5 DEF FillPartly, Call
  <2>2. /\ tmp' = tmp \o call.src
        /\ UNCHANGED <<stage, prefs, totalInSize, xxh, header, content, sealed, clean>>
    BY <1>5 DEF FillPartly
  <2>3. Bytes' = Joined(Joined(content, Joined(tmp, call.src)), <<>>)
    BY <2>1, <2>2 DEF Bytes, Joined
  <2>4. Bytes' = Bytes
    <3>1. Joined(tmp, call.src) \in Seq(Byte) /\ Joined(content, Joined(tmp, call.src)) \in Seq(Byte)
      BY <1>0, JoinedLaws
    <3>2. Bytes' = Joined(content, Joined(tmp, call.src))
      BY <2>3, <3>1, JoinedLaws
    <3>3. QED  BY <1>0, <3>2, JoinedAssociative DEF Bytes
  <2>5. QED  BY <2>1, <2>2, <2>4 DEF Moving
<1>6. CASE FillBlock
  <2> DEFINE n == maxBlockSize - Len(tmp)
             block == Joined(tmp, SubSeq(call.src, 1, n))
  <2>1. PICK c \in 1..Len(block) :
          /\ EmitBlock(block, call.mode, c)
          /\ call' = [call EXCEPT !.phase = "blocks", !.at = BlockEnd(c), !.src = Unread(n)]
    BY <1>6 DEF FillBlock, Joined
  <2>2. content' = Joined(content, block)
    BY <2>1 DEF EmitBlock, Joined
  <2>3. call'.src = Unread(n) /\ call'.fed = call.fed /\ call'.phase = "blocks"
    BY <1>0, <2>1 DEF Call
  <2>4. /\ tmp' = <<>>
        /\ UNCHANGED <<stage, prefs, totalInSize, xxh, header, sealed, clean>>
    BY <1>6 DEF FillBlock
  <2>5. n \in Nat /\ n <= Len(call.src)
    <3>1. stage = 1 /\ ~(Len(tmp) + Len(call.src) < maxBlockSize)
      BY <1>6 DEF FillBlock, StaysBelowBlock, Phases
    <3>2. Len(tmp) < maxBlockSize
      BY <3>1 DEF Buffer
    <3>3. QED  BY <1>0, <3>1, <3>2
  <2> HIDE DEF n
  <2>6. QED  BY <2>2, <2>3, <2>4, <2>5, TakeMoves
<1>7. ASSUME NEW n \in Nat \ {0}, n <= Len(call.src), call.phase = "blocks", TakeFromSrc(n)
      PROVE  Moving
  <2>1. PICK c \in 1..n : /\ EmitBlock(SubSeq(call.src, 1, n), call.mode, c)
                          /\ call' = [call EXCEPT !.at = BlockEnd(c), !.src = Unread(n)]
    BY <1>7 DEF TakeFromSrc
  <2>2. /\ content' = Joined(content, SubSeq(call.src, 1, n))
        /\ UNCHANGED <<stage, prefs, tmp, totalInSize, xxh, header, sealed, clean>>
    BY <1>7, <2>1 DEF EmitBlock, TakeFromSrc, Joined
  <2>3. call'.src = Unread(n) /\ call'.fed = call.fed /\ call'.phase = "blocks"
    BY <1>0, <1>7, <2>1 DEF Call
  <2>4. tmp = <<>>
    BY <1>0, <1>7, EmptySeq DEF Buffer
  <2>5. Joined(tmp, SubSeq(call.src, 1, n)) = SubSeq(call.src, 1, n)
    BY <1>7, <2>4, UnreadType, JoinedLaws
  <2>6. QED  BY <1>7, <2>2, <2>3, <2>4, <2>5, TakeMoves
<1>8. CASE WholeBlock
  <2>1. maxBlockSize \in Nat \ {0} /\ maxBlockSize <= Len(call.src)
    BY <1>0, <1>8 DEF WholeBlock, Phases, Buffer
  <2>2. QED  BY <1>7, <1>8, <2>1 DEF WholeBlock
<1>9. CASE AutoFlushTail
  <2>1. Len(call.src) \in Nat \ {0}
    BY <1>9 DEF AutoFlushTail
  <2>2. QED  BY <1>7, <1>9, <2>1 DEF AutoFlushTail
<1>10. CASE UpdateReturn
  <2>1. /\ call.phase = "blocks" /\ call' = Idle /\ xxh' = Hashed
        /\ tmp' = IF call.src = <<>> THEN tmp ELSE call.src
        /\ totalInSize' = totalInSize + Len(call.fed)
        /\ UNCHANGED <<stage, prefs, header, content, sealed, clean>>
    BY <1>10 DEF UpdateReturn, Return
  <2>2. tmp' \in Seq(Byte) /\ Joined(content, tmp') \in Seq(Byte)
    BY <1>0, <2>1, JoinedLaws
  <2>3. Bytes' = Joined(content, tmp')
    BY <2>1, <2>2, InitialRecords, JoinedLaws DEF Bytes
  <2>4. Bytes' = Bytes
    <3>1. CASE call.src = <<>>
      BY <2>1, <2>3, <3>1, BytesTaken
    <3>2. CASE call.src # <<>>
      <4>1. tmp = <<>> /\ tmp' = call.src
        BY <2>1, <3>2 DEF Buffer
      <4>2. Bytes = Joined(content, call.src)
        BY <1>0, <4>1, JoinedLaws DEF Bytes
      <4>3. QED  BY <2>3, <4>1, <4>2
    <3>3. QED  BY <3>1, <3>2
  <2>5. QED  BY <2>1, <2>4 DEF Accepted
<1>11. QED
  BY <1>1, <1>2, <1>3, <1>4, <1>5, <1>6, <1>8, <1>9, <1>10 DEF Step

-----------------------------------------------------------------------------
(* Numbering, checksum and completeness.                                   *)

(* What is true between calls and before an update's loop.                 *)
LEMMA NothingRunning ==
  ASSUME TypeInv, call.op # "update"
  PROVE  call.src = <<>> /\ call.fed = <<>> /\ Bytes = Joined(content, tmp)
BY BytesTaken DEF TypeInv, Phases

(* A call that starts: refused, flush or end; a begin with bad             *)
(* preferences; a begin; an update.                                        *)
Starting ==
  /\ call'.src = <<>> /\ call'.fed = <<>>
  /\ UNCHANGED <<cctx, header, content, sealed, clean>>

UpdateStarting ==
  /\ Len(call'.src) \in Nat /\ call'.src \in Seq(Byte)
  /\ \A i \in 1..Len(call'.src) : call'.src[i][1] = totalInSize + i
  /\ call'.fed = call'.src /\ stage = 1
  /\ UNCHANGED <<cctx, header, content, sealed, clean>>

LEMMA NewCallKinds ==
  ASSUME TypeInv, NewCall
  PROVE  /\ call.op = "none"
         /\ \/ Starting
            \/ clean' = FALSE /\ call' = Idle /\ UNCHANGED <<stage, sealed>>
            \/ /\ call' = Idle /\ sealed' = FALSE /\ totalInSize' = 0
               /\ content' = <<>> /\ tmp' = <<>> /\ xxh' = <<>>
            \/ UpdateStarting
<1>1. ASSUME NEW r, Reject(r) PROVE call.op = "none" /\ Starting
  BY <1>1, InitialRecords DEF Reject, Ready, Return, Starting
<1>2. ASSUME NEW cap \in Caps, FlushCall(cap) \/ EndCall(cap)
      PROVE  call.op = "none" /\ Starting
  <2>1. \E op, phase : call' = [Idle EXCEPT !.op = op, !.phase = phase, !.cap = cap]
    BY <1>2 DEF FlushCall, EndCall
  <2>2. call'.src = <<>> /\ call'.fed = <<>>
    BY <2>1 DEF Idle
  <2>3. QED  BY <1>2, <2>2 DEF FlushCall, EndCall, Ready, Starting
<1>3. ASSUME NEW cap \in Caps, NEW p \in PrefSet, BeginBadBlockSize(p, cap)
      PROVE  call.op = "none" /\ clean' = FALSE /\ call' = Idle /\ UNCHANGED <<stage, sealed>>
  BY <1>3 DEF BeginBadBlockSize, Ready, Return
<1>4. ASSUME NEW cap \in Caps, NEW p \in PrefSet, NEW d \in DictLengths, Begin(p, d, cap)
      PROVE  /\ call.op = "none" /\ call' = Idle /\ sealed' = FALSE /\ totalInSize' = 0
             /\ content' = <<>> /\ tmp' = <<>> /\ xxh' = <<>>
  BY <1>4 DEF Begin, Ready, Return
<1>5. ASSUME NEW cap \in Caps, NEW n \in SrcSizes, NEW m \in Modes, UpdateCall(n, m, cap)
      PROVE  call.op = "none" /\ UpdateStarting
  <2> DEFINE src == [i \in 1..n |-> <<totalInSize + i, m>>]
  <2>1. m \in {"compressed", "uncompressed"} /\ n \in Nat /\ totalInSize \in Nat
    BY ModesKnown, SizesNatural DEF TypeInv, TypeOK
  <2>2. src \in Seq(Byte) /\ Len(src) = n
    <3>1. \A i \in 1..n : <<totalInSize + i, m>> \in Byte
      BY <2>1 DEF Byte
    <3>2. src \in [1..n -> Byte]
      BY <3>1
    <3>3. QED  BY <2>1, <3>2, BuiltSequence
  <2>3. \A i \in 1..n : src[i][1] = totalInSize + i
    OBVIOUS
  <2>4. call'.src = src /\ call'.fed = src /\ call.op = "none" /\ stage = 1
    BY <1>5 DEF UpdateCall, Ready
  <2>5. UNCHANGED <<cctx, header, content, sealed, clean>>
    BY <1>5 DEF UpdateCall
  <2> HIDE DEF src
  <2>6. QED  BY <2>1, <2>2, <2>3, <2>4, <2>5 DEF UpdateStarting
<1>6. QED
  BY <1>1, <1>2, <1>3, <1>4, <1>5
     DEF NewCall, BeginTooSmall, UpdateTooSmall, UpdateUninitialized

Content == Untaken /\ Numbered /\ Hashing /\ Sealing

(* A call that starts leaves the bytes of the frame in order, and adds an  *)
(* update's piece to them.                                                 *)
LEMMA NewCallContent ==
  ASSUME TypeInv, Content, NewCall PROVE Content'
<1> USE DEF Content
<1>0. /\ call.op = "none" /\ call.src = <<>> /\ call.fed = <<>>
      /\ Bytes = Joined(content, tmp) /\ Bytes \in Seq(Byte) /\ xxh \in Seq(Byte)
      /\ totalInSize \in Nat
  BY NewCallKinds, NothingRunning, BytesType DEF TypeInv, TypeOK
<1>1. CASE Starting
  <2>1. Bytes' = Bytes
    BY <1>0, <1>1 DEF Starting, Bytes, cctx
  <2>2. call'.src = call.src /\ call'.fed = call.fed
    BY <1>0, <1>1 DEF Starting
  <2>3. UNCHANGED <<stage, prefs, tmp, totalInSize, xxh, header, content, sealed, clean>>
    BY <1>1 DEF Starting, cctx
  <2>4. call'.src = call'.fed
    BY <1>0, <2>2
  <2>5. QED  BY <2>1, <2>2, <2>3, <2>4 DEF Untaken, Numbered, Hashing, Sealing
<1>2. CASE clean' = FALSE /\ call' = Idle /\ UNCHANGED <<stage, sealed>>
  BY <1>2, InitialRecords DEF Untaken, Numbered, Hashing, Sealing
<1>3. CASE /\ call' = Idle /\ sealed' = FALSE /\ totalInSize' = 0
           /\ content' = <<>> /\ tmp' = <<>> /\ xxh' = <<>>
  <2>1. Joined(<<>>, <<>>) = <<>> /\ Len(<<>>) = 0
    BY JoinedLaws, EmptySeq
  <2>2. Bytes' = <<>> /\ call'.fed = <<>> /\ call'.src = <<>>
    BY <1>3, <2>1, InitialRecords DEF Bytes
  <2>3. QED  BY <1>3, <2>1, <2>2 DEF Untaken, Numbered, Hashing, Sealing
<1>4. CASE UpdateStarting
  <2> DEFINE src == call'.src
  <2>1. /\ src \in Seq(Byte) /\ Len(src) \in Nat /\ stage = 1 /\ call'.fed = src
        /\ \A i \in 1..Len(src) : src[i][1] = totalInSize + i
        /\ UNCHANGED <<stage, prefs, totalInSize, xxh, header, sealed, clean>>
    BY <1>4 DEF UpdateStarting, cctx
  <2>2. Bytes' = Joined(Bytes, src)
    BY <1>0, <1>4 DEF Bytes, UpdateStarting, cctx
  <2> HIDE DEF src
  <2>3. /\ Len(Joined(Bytes, src)) = Len(Bytes) + Len(src)
        /\ \A i \in 1..(Len(Bytes) + Len(src)) :
             Joined(Bytes, src)[i] = IF i <= Len(Bytes) THEN Bytes[i] ELSE src[i - Len(Bytes)]
    <3> DEFINE b == Bytes
    <3>1. b \in Seq(Byte) /\ src \in Seq(Byte)
      BY <1>0, <2>1
    <3> HIDE DEF b
    <3>2. /\ Len(Joined(b, src)) = Len(b) + Len(src)
          /\ \A i \in 1..(Len(b) + Len(src)) :
               Joined(b, src)[i] = IF i <= Len(b) THEN b[i] ELSE src[i - Len(b)]
      BY <3>1, JoinedLaws
    <3>3. QED  BY <3>2 DEF b
  <2>4. Numbered'
    <3> SUFFICES ASSUME clean
                 PROVE  /\ \A i \in 1..Len(Joined(Bytes, src)) : Joined(Bytes, src)[i][1] = i
                        /\ Len(Joined(Bytes, src)) = totalInSize + Len(src)
      BY <2>1, <2>2 DEF Numbered
    <3>1. Len(Bytes) = totalInSize /\ \A i \in 1..Len(Bytes) : Bytes[i][1] = i
      BY <1>0, EmptySeq DEF Numbered
    <3>2. ASSUME NEW i \in 1..Len(Joined(Bytes, src)) PROVE Joined(Bytes, src)[i][1] = i
      <4>1. CASE i <= totalInSize
        BY <1>0, <2>1, <2>3, <3>1, <4>1
      <4>2. CASE i > totalInSize
        <5>1. i - totalInSize \in 1..Len(src)
          BY <1>0, <2>1, <2>3, <3>1, <4>2
        <5>2. Joined(Bytes, src)[i] = src[i - totalInSize]
          BY <1>0, <2>1, <2>3, <3>1, <4>2
        <5>3. QED  BY <1>0, <2>1, <5>1, <5>2
      <4>3. QED  BY <1>0, <4>1, <4>2
    <3>3. QED  BY <2>3, <3>1, <3>2
  <2>5. Hashing'
    <3> SUFFICES ASSUME clean, prefs.contentChecksum PROVE Joined(Bytes, src) = Joined(xxh, src)
      BY <2>1, <2>2 DEF Hashing
    <3>1. Bytes = Joined(xxh, <<>>)
      BY <1>0, <2>1 DEF Hashing
    <3>2. QED  BY <1>0, <3>1, JoinedLaws
  <2>6. Untaken' /\ Sealing'
    BY <2>1 DEF Untaken, Sealing, src
  <2>7. QED  BY <2>4, <2>5, <2>6
<1>5. QED  BY <1>1, <1>2, <1>3, <1>4, NewCallKinds

(* Each step of a call keeps them, and end reports a frame complete only   *)
(* when it is.                                                             *)
LEMMA StepContent ==
  ASSUME TypeInv, TypeInv', Agreed, Content, Step PROVE Content'
<1> USE DEF Content
<1>0. /\ content \in Seq(Byte) /\ tmp \in Seq(Byte) /\ call.src \in Seq(Byte)
      /\ call.fed \in Seq(Byte) /\ xxh \in Seq(Byte) /\ Bytes \in Seq(Byte)
      /\ Joined(content, tmp) \in Seq(Byte) /\ totalInSize \in Nat
  BY BytesType DEF TypeInv, TypeOK
<1>1. CASE Moving
  <2>1. Untaken' /\ Numbered' /\ Hashing'
    BY <1>1 DEF Moving, Untaken, Numbered, Hashing
  <2>2. ASSUME sealed PROVE content' = content
    <3>1. stage = 0 /\ stage' = 0
      BY <1>1, <2>2 DEF Moving, Sealing
    <3>2. tmp = <<>> /\ call.src = <<>>
      BY <3>1 DEF TypeInv, Phases, Buffer
    <3>3. tmp' = <<>> /\ call'.src = <<>>
      BY <3>1 DEF TypeInv, Phases, Buffer
    <3>4. Bytes = content
      BY <3>2, BytesTaken DEF TypeInv
    <3>5. content' \in Seq(Byte)
      BY DEF TypeInv, TypeOK
    <3>6. Bytes' = content'
      BY <3>3, <3>5, JoinedLaws DEF Bytes
    <3>7. QED  BY <1>1, <3>4, <3>6 DEF Moving
  <2>3. Sealing'
    BY <1>1, <2>2 DEF Moving, Sealing
  <2>4. QED  BY <2>1, <2>3
<1>2. CASE Refused
  <2>1. call.src = call.fed /\ call'.src = <<>> /\ call'.fed = <<>>
    BY <1>2, InitialRecords DEF Refused, Untaken
  <2>2. UNCHANGED <<stage, prefs, tmp, totalInSize, xxh, header, content, sealed, clean>>
    BY <1>2 DEF Refused, cctx
  <2>3. Bytes' = Joined(content, tmp)
    BY <1>0, <2>1, <2>2, JoinedLaws DEF Bytes
  <2>4. Bytes = Joined(Joined(content, tmp), call.fed)
    BY <2>1 DEF Bytes
  <2> DEFINE c == Joined(content, tmp)
  <2>5. /\ c \in Seq(Byte) /\ Bytes = Joined(c, call.fed) /\ Bytes' = c
    BY <1>0, <2>3, <2>4
  <2> HIDE DEF c
  <2>6. /\ Len(Bytes) = Len(c) + Len(call.fed) /\ Len(c) \in Nat /\ Len(call.fed) \in Nat
        /\ \A i \in 1..Len(c) : Bytes[i] = c[i]
    <3>1. Len(c) \in Nat /\ Len(call.fed) \in Nat
      BY <1>0, <2>5, LenProperties
    <3>2. /\ Len(Joined(c, call.fed)) = Len(c) + Len(call.fed)
          /\ \A i \in 1..(Len(c) + Len(call.fed)) :
               Joined(c, call.fed)[i] = IF i <= Len(c) THEN c[i] ELSE call.fed[i - Len(c)]
      BY <1>0, <2>5, JoinedLaws, ZenonT(60)
    <3>3. \A i \in 1..Len(c) : Joined(c, call.fed)[i] = c[i]
      BY <3>1, <3>2
    <3>4. QED  BY <2>5, <3>1, <3>2, <3>3
  <2>7. Numbered'
    <3> SUFFICES ASSUME clean PROVE (\A i \in 1..Len(c) : c[i][1] = i) /\ Len(c) = totalInSize
      BY <1>0, <2>1, <2>2, <2>5, EmptySeq DEF Numbered
    <3>1. Len(c) = totalInSize
      BY <1>0, <2>6 DEF Numbered
    <3>2. ASSUME NEW i \in 1..Len(c) PROVE c[i][1] = i
      <4>1. i \in 1..Len(Bytes)
        BY <2>6
      <4>2. Bytes[i][1] = i
        BY <4>1 DEF Numbered
      <4>3. QED  BY <2>6, <4>2
    <3>3. QED  BY <3>1, <3>2
  <2>8. Hashing'
    <3> SUFFICES ASSUME stage = 1, clean, prefs.contentChecksum PROVE c = Joined(xxh, <<>>)
      BY <2>1, <2>2, <2>5 DEF Hashing
    <3>1. Joined(c, call.fed) = Joined(xxh, call.fed)
      BY <2>5 DEF Hashing
    <3>2. c = xxh
      BY <1>0, <2>5, <3>1, SameBefore
    <3>3. QED  BY <1>0, <3>2, JoinedLaws
  <2>9. Untaken' /\ Sealing'
    BY <2>1, <2>2 DEF Untaken, Sealing
  <2>10. QED  BY <2>7, <2>8, <2>9
<1>3. CASE Accepted
  <2>1. /\ call'.src = <<>> /\ call'.fed = <<>> /\ Bytes' = Bytes
        /\ xxh' = Hashed /\ totalInSize' = totalInSize + Len(call.fed)
        /\ UNCHANGED <<stage, prefs, header, sealed, clean>>
    BY <1>3, InitialRecords DEF Accepted
  <2>2. Numbered'
    <3>1. Len(call.fed) \in Nat /\ Len(<<>>) = 0
      BY <1>0, LenProperties
    <3>2. QED  BY <1>0, <2>1, <3>1 DEF Numbered
  <2>3. Hashing'
    <3> SUFFICES ASSUME stage = 1, clean, prefs.contentChecksum PROVE Bytes = Joined(xxh', <<>>)
      BY <2>1 DEF Hashing
    <3>1. xxh' = Joined(xxh, call.fed) /\ Joined(xxh, call.fed) \in Seq(Byte)
      BY <1>0, <2>1, JoinedLaws DEF Hashed, Joined
    <3>2. Joined(xxh', <<>>) = xxh'
      BY <3>1, JoinedLaws
    <3>3. QED  BY <3>1, <3>2 DEF Hashing
  <2>4. Untaken' /\ ~sealed'
    <3>1. stage = 1
      BY <1>3 DEF Accepted, TypeInv, Phases
    <3>2. QED  BY <2>1, <3>1 DEF Untaken, Sealing
  <2>5. QED  BY <2>2, <2>3, <2>4 DEF Sealing
<1>4. CASE EndTooSmall \/ EndMark
  <2>1. call.phase = "mark" /\ call.op = "end"
    BY <1>4 DEF EndTooSmall, EndMark, InPhase, TypeInv, Phases
  <2>2. call.src = <<>> /\ call.fed = <<>> /\ tmp = <<>> /\ Bytes = content
    BY <2>1, NothingRunning, BytesTaken DEF TypeInv, Buffer
  <2>3. /\ call' = Idle /\ clean' \in {clean, FALSE}
        /\ UNCHANGED <<prefs, tmp, totalInSize, xxh, header, content>>
    BY <1>4 DEF EndTooSmall, EndMark, Return, cctx
  <2>4. Bytes' = Bytes /\ call'.src = <<>> /\ call'.fed = <<>>
    BY <2>2, <2>3, InitialRecords DEF Bytes
  <2>5. stage' \in {stage, 0}
    BY <1>4 DEF EndTooSmall, EndMark, cctx
  <2>6. Untaken' /\ Numbered' /\ Hashing'
    <3>1. stage' = 1 => stage = 1
      BY <2>5
    <3>2. clean' => clean
      BY <2>3
    <3>3. Untaken' /\ Numbered'
      BY <2>2, <2>3, <2>4, <3>2 DEF Untaken, Numbered
    <3>4. Hashing'
      BY <2>2, <2>3, <2>4, <3>1, <3>2 DEF Hashing
    <3>5. QED  BY <3>3, <3>4
  <2>7. CASE EndTooSmall
    <3>1. UNCHANGED <<stage, sealed>>
      BY <2>7 DEF EndTooSmall, cctx
    <3>2. clean' => clean
      BY <2>7 DEF EndTooSmall
    <3>3. Sealing'
      BY <2>3, <3>1, <3>2 DEF Sealing
    <3>4. QED  BY <2>6, <3>3
  <2>8. CASE EndMark
    <3>1. /\ stage' = 0 /\ clean' = clean
          /\ sealed' => stage = 1 /\ (prefs.contentSize = 0 \/ prefs.contentSize = totalInSize)
      BY <2>8 DEF EndMark
    <3>2. ASSUME sealed', clean
          PROVE  /\ Len(content) = totalInSize
                 /\ header.contentChecksum => xxh = content
                 /\ header.contentSize # 0 => Len(content) = header.contentSize
      <4>1. prefs = header /\ stage = 1
        BY <3>1, <3>2 DEF Agreed
      <4>2. Len(content) = totalInSize
        BY <1>0, <2>2, <3>2, EmptySeq DEF Numbered
      <4>3. header.contentChecksum => content = Joined(xxh, <<>>)
        BY <2>2, <3>2, <4>1 DEF Hashing
      <4>4. Joined(xxh, <<>>) = xxh
        BY <1>0, JoinedLaws
      <4>5. QED  BY <3>1, <3>2, <4>1, <4>2, <4>3, <4>4
    <3>3. Sealing'
      BY <2>3, <3>1, <3>2 DEF Sealing
    <3>4. QED  BY <2>6, <3>3
  <2>9. QED  BY <1>4, <2>7, <2>8
<1>5. QED
  <2>1. Moving \/ Refused \/ Accepted \/ EndTooSmall \/ EndMark
    BY StepKinds
  <2>2. QED  BY <1>1, <1>2, <1>3, <1>4, <2>1, Zenon

(* So the bytes of the frame are in order in every reachable state.        *)
LEMMA ContentInvariant == Spec => []Content
<1>1. Init => Content
  BY InitialRecords DEF Init, Content, Untaken, Numbered, Hashing, Sealing
<1>2. TypeInv /\ TypeInv' /\ Agreed /\ Content /\ [Next]_vars => Content'
  <2>1. Content /\ UNCHANGED vars => Content'
    BY DEF Content, Untaken, Numbered, Hashing, Sealing, Bytes, vars, cctx
  <2>2. QED  BY <2>1, NewCallContent, StepContent DEF Next
<1>3. QED  BY <1>1, <1>2, AgreedInvariant, PTL DEF Spec

(* Nothing fed to a frame is lost, repeated or reordered: emitted blocks,  *)
(* then the staging buffer, then the unread rest of the running update are *)
(* the bytes fed so far, in order (frame.rs:648-725).                      *)
THEOREM NothingLost == Spec => []InOrder
<1>1. TypeInv /\ Content => InOrder
  <2> SUFFICES ASSUME TypeInv, Content, clean
      PROVE  /\ \A i \in 1..Len(content) : content[i][1] = i
             /\ \A i \in 1..Len(tmp) : tmp[i][1] = Len(content) + i
             /\ \A i \in 1..Len(call.src) : call.src[i][1] = Len(content) + Len(tmp) + i
             /\ Len(content) + Len(tmp) + Len(call.src) = totalInSize + Len(call.fed)
    BY DEF InOrder
  <2> DEFINE c == Joined(content, tmp)
  <2>1. /\ content \in Seq(Byte) /\ tmp \in Seq(Byte) /\ call.src \in Seq(Byte)
        /\ c \in Seq(Byte) /\ Bytes = Joined(c, call.src)
        /\ Len(content) \in Nat /\ Len(tmp) \in Nat /\ Len(call.src) \in Nat
    BY BytesType, LenProperties DEF TypeInv, Bytes
  <2>2. /\ Len(c) = Len(content) + Len(tmp)
        /\ \A i \in 1..Len(c) : c[i] = IF i <= Len(content) THEN content[i] ELSE tmp[i - Len(content)]
    BY <2>1, JoinedLaws
  <2> HIDE DEF c
  <2>3. /\ Len(Bytes) = Len(c) + Len(call.src)
        /\ \A i \in 1..(Len(c) + Len(call.src)) :
             Bytes[i] = IF i <= Len(c) THEN c[i] ELSE call.src[i - Len(c)]
    BY <2>1, JoinedLaws
  <2>4. /\ \A i \in 1..Len(Bytes) : Bytes[i][1] = i
        /\ Len(Bytes) = totalInSize + Len(call.fed)
    BY DEF Content, Numbered
  <2> DEFINE p == Len(content)
             q == Len(tmp)
             r == Len(call.src)
  <2>5. p \in Nat /\ q \in Nat /\ r \in Nat /\ Len(c) = p + q /\ Len(Bytes) = p + q + r
    BY <2>1, <2>2, <2>3
  <2> HIDE DEF p, q, r
  <2>6. ASSUME NEW i \in 1..p PROVE content[i][1] = i
    <3>1. i \in 1..(p + q) /\ i \in 1..(p + q + r) /\ i <= p /\ i <= p + q
      BY <2>5
    <3>2. Bytes[i] = c[i] /\ c[i] = content[i]
      BY <2>2, <2>3, <2>5, <3>1 DEF p, q, r
    <3>3. QED  BY <2>4, <2>5, <3>1, <3>2
  <2>7. ASSUME NEW i \in 1..q PROVE tmp[i][1] = p + i
    <3>1. /\ p + i \in 1..(p + q) /\ p + i \in 1..(p + q + r)
          /\ p + i <= p + q /\ ~(p + i <= p) /\ (p + i) - p = i
      BY <2>5
    <3>2. Bytes[p + i] = c[p + i] /\ c[p + i] = tmp[i]
      BY <2>2, <2>3, <2>5, <3>1 DEF p, q, r
    <3>3. QED  BY <2>4, <2>5, <3>1, <3>2
  <2>8. ASSUME NEW i \in 1..r PROVE call.src[i][1] = p + q + i
    <3>1. p + q + i \in 1..(p + q + r) /\ ~(p + q + i <= p + q) /\ (p + q + i) - (p + q) = i
      BY <2>5
    <3>2. Bytes[p + q + i] = call.src[i]
      BY <2>3, <2>5, <3>1 DEF p, q, r
    <3>3. QED  BY <2>4, <2>5, <3>1, <3>2
  <2>9. QED  BY <2>4, <2>5, <2>6, <2>7, <2>8 DEF p, q, r
<1>2. QED  BY <1>1, ContentInvariant, TypeInvariant, PTL

(* The frame end reports as complete holds every byte update accepted, its *)
(* checksum covers exactly those bytes, and a size its header declares is  *)
(* the size it has (frame.rs:736-775).                                     *)
THEOREM CompleteWhenSealed == Spec => []SealedComplete
<1>1. TypeInv /\ Content => SealedComplete
  BY DEF TypeInv, Buffer, Content, Sealing, SealedComplete
<1>2. QED  BY <1>1, ContentInvariant, TypeInvariant, PTL

-----------------------------------------------------------------------------
(* Block modes.                                                            *)

(* A call that starts brings bytes of its own mode only.                   *)
LEMMA NewCallUnmixed ==
  ASSUME TypeInv, Unmixed, NewCall PROVE Unmixed'
<1>1. ASSUME call'.src = <<>>, call'.phase \notin {"fill", "blocks"},
             tmp' = <<>> \/ UNCHANGED <<tmp, blockMode>>
      PROVE  Unmixed'
  BY <1>1, EmptySeq DEF Unmixed
<1>2. ASSUME NEW r, Reject(r) PROVE Unmixed'
  BY <1>1, <1>2, InitialRecords DEF Reject, Return, cctx
<1>3. ASSUME NEW cap \in Caps, FlushCall(cap) \/ EndCall(cap) PROVE Unmixed'
  <2>1. \E op : call' = [Idle EXCEPT !.op = op, !.phase = "flush", !.cap = cap]
    BY <1>3 DEF FlushCall, EndCall
  <2>2. call'.src = <<>> /\ call'.phase = "flush"
    BY <2>1 DEF Idle
  <2>3. QED  BY <1>1, <1>3, <2>2 DEF FlushCall, EndCall, cctx
<1>4. ASSUME NEW cap \in Caps, NEW p \in PrefSet, BeginBadBlockSize(p, cap) PROVE Unmixed'
  BY <1>1, <1>4, InitialRecords DEF BeginBadBlockSize, Return
<1>5. ASSUME NEW cap \in Caps, NEW p \in PrefSet, NEW d \in DictLengths, Begin(p, d, cap)
      PROVE  Unmixed'
  BY <1>1, <1>5, InitialRecords DEF Begin, Return
<1>6. ASSUME NEW cap \in Caps, NEW n \in SrcSizes, NEW m \in Modes, UpdateCall(n, m, cap)
      PROVE  Unmixed'
  <2> DEFINE src == [i \in 1..n |-> <<totalInSize + i, m>>]
  <2>1. Len(src) = n /\ \A i \in 1..n : src[i][2] = m
    BY SizesNatural
  <2>2. call'.src = src /\ call'.mode = m /\ call'.phase = FirstPhase(m)
    BY <1>6 DEF UpdateCall
  <2>3. FirstPhase(m) \in {"fill", "blocks"} => blockMode = m
    BY DEF FirstPhase
  <2>4. UNCHANGED <<tmp, blockMode>>
    BY <1>6 DEF UpdateCall, cctx
  <2> HIDE DEF src
  <2>5. QED  BY <2>1, <2>2, <2>3, <2>4 DEF Unmixed
<1>7. QED
  BY <1>2, <1>3, <1>4, <1>5, <1>6
     DEF NewCall, BeginTooSmall, UpdateTooSmall, UpdateUninitialized

(* A block of one mode, no longer than the header allows.                  *)
LEMMA UniformBlock ==
  ASSUME TypeInv, NEW block \in Seq(Byte), content' = Joined(content, block),
         NEW m \in {"compressed", "uncompressed"},
         \A i \in 1..Len(block) : block[i][2] = m,
         clean => Len(block) <= GetBlockSize(header.blockSizeID)
  PROVE  BlockUnmixed
<1> DEFINE n == Len(content)
           k == Len(block)
<1>1. /\ n \in Nat /\ k \in Nat /\ Len(content') = n + k
      /\ \A i \in 1..(n + k) : content'[i] = IF i <= n THEN content[i] ELSE block[i - n]
  <2>1. content \in Seq(Byte)
    BY DEF TypeInv, TypeOK
  <2>2. QED  BY <2>1, JoinedLaws, LenProperties
<1>2. clean => k <= GetBlockSize(header.blockSizeID)
  OBVIOUS
<1>3. \A i \in 1..k : block[i][2] = m
  OBVIOUS
<1> HIDE DEF k
<1>4. ASSUME NEW i \in (n + 1)..(n + k) PROVE content'[i][2] = m
  <2>1. i \in 1..(n + k) /\ ~(i <= n) /\ i - n \in 1..k
    BY <1>1
  <2>2. content'[i] = block[i - n]
    BY <1>1, <2>1
  <2>3. QED  BY <1>3, <2>1, <2>2
<1>5. Len(content') - Len(content) = k
  BY <1>1
<1>6. QED  BY <1>1, <1>2, <1>4, <1>5 DEF BlockUnmixed

(* Where the content is unchanged there is no block.                       *)
LEMMA NoBlock ==
  ASSUME TypeInv, content' = content \/ content' = <<>> PROVE BlockUnmixed
<1>1. Len(content) \in Nat
  BY LenProperties DEF TypeInv, TypeOK
<1>2. ~(Len(content') > Len(content))
  BY <1>1, EmptySeq
<1>3. QED  BY <1>2 DEF BlockUnmixed

(* Each step of a call keeps the modes apart.                              *)
LEMMA StepUnmixed ==
  ASSUME TypeInv, Agreed, Unmixed, Step PROVE Unmixed' /\ BlockUnmixed
<1> USE DEF TypeInv, InPhase
<1>0. /\ call \in Call /\ tmp \in Seq(Byte) /\ call.src \in Seq(Byte)
      /\ content \in Seq(Byte) /\ maxBlockSize \in Nat
      /\ blockMode \in {"compressed", "uncompressed"}
      /\ call.mode \in {"compressed", "uncompressed"}
  BY BytesType DEF TypeOK, Call
<1>a. ASSUME NEW at, call.phase = "flush", AfterFlush(at), tmp' = <<>> PROVE Unmixed'
  <2>1. CASE call.op = "flush"
    BY <1>a, <2>1, InitialRecords, EmptySeq DEF AfterFlush, Return, Unmixed
  <2>2. CASE call.op # "flush"
    <3>1. /\ call' = [call EXCEPT !.at = at, !.phase = PhaseAfterFlush]
          /\ blockMode' = IF call.op = "update" THEN call.mode ELSE blockMode
      BY <1>a, <2>2 DEF AfterFlush
    <3>2. call'.src = call.src /\ call'.mode = call.mode /\ call'.phase = PhaseAfterFlush
      BY <1>0, <3>1 DEF Call
    <3>3. PhaseAfterFlush \in {"fill", "blocks"} => call.op = "update"
      BY DEF PhaseAfterFlush
    <3>4. QED  BY <1>a, <3>1, <3>2, <3>3, EmptySeq DEF Unmixed
  <2>3. QED  BY <2>1, <2>2
<1>b. ASSUME clean, stage = 1 PROVE maxBlockSize = GetBlockSize(header.blockSizeID)
  BY <1>b DEF Agreed
<1>c. call.phase \in {"fill", "blocks"} => blockMode = call.mode /\ stage = 1
  BY DEF Unmixed, Phases
<1>d. ASSUME NEW n \in Nat, n <= Len(call.src)
      PROVE  /\ \A i \in 1..n : SubSeq(call.src, 1, n)[i][2] = call.mode
             /\ \A i \in 1..Len(Unread(n)) : Unread(n)[i][2] = call.mode
  <2>1. \A i \in 1..n : SubSeq(call.src, 1, n)[i] = call.src[i] /\ i \in 1..Len(call.src)
    BY <1>0, <1>d
  <2>2. \A i \in 1..Len(Unread(n)) : Unread(n)[i] = call.src[n + i] /\ n + i \in 1..Len(call.src)
    BY <1>0, <1>d DEF Unread
  <2>3. QED  BY <2>1, <2>2 DEF Unmixed
<1>1. CASE FlushNothing
  <2>1. Unmixed'
    BY <1>1, <1>a DEF FlushNothing
  <2>2. QED  BY <1>1, <2>1, NoBlock DEF FlushNothing
<1>2. CASE FlushTooSmall
  <2>1. Unmixed'
    BY <1>2, InitialRecords, EmptySeq DEF FlushTooSmall, Return, Unmixed, cctx
  <2>2. QED  BY <1>2, <2>1, NoBlock DEF FlushTooSmall
<1>3. CASE FlushBlock
  <2>1. PICK c \in 1..Len(tmp) : EmitBlock(tmp, blockMode, c) /\ AfterFlush(BlockEnd(c))
    BY <1>3 DEF FlushBlock
  <2>2. content' = Joined(content, tmp) /\ tmp' = <<>> /\ call.phase = "flush" /\ tmp # <<>>
    BY <1>3, <2>1 DEF FlushBlock, EmitBlock, Joined
  <2>3. Unmixed'
    BY <1>a, <2>1, <2>2
  <2>4. \A i \in 1..Len(tmp) : tmp[i][2] = blockMode
    BY DEF Unmixed
  <2>5. clean => Len(tmp) <= GetBlockSize(header.blockSizeID)
    <3>1. stage = 1 /\ Len(tmp) < maxBlockSize
      BY <2>2 DEF Buffer, TypeOK
    <3>2. Len(tmp) \in Nat
      BY <1>0
    <3>3. QED  BY <1>0, <1>b, <3>1, <3>2
  <2>6. BlockUnmixed
    BY <1>0, <2>2, <2>4, <2>5, UniformBlock
  <2>7. QED  BY <2>3, <2>6
<1>4. CASE FillNothing
  <2>1. /\ call'.src = call.src /\ call'.mode = call.mode /\ call.phase = "fill"
        /\ UNCHANGED <<tmp, blockMode, content>>
    BY <1>0, <1>4 DEF FillNothing, Call, cctx
  <2>2. Unmixed'
    BY <1>c, <2>1 DEF Unmixed
  <2>3. QED  BY <2>1, <2>2, NoBlock
<1>5. CASE FillPartly
  <2>1. /\ call'.src = <<>> /\ call'.mode = call.mode /\ call.phase = "fill"
        /\ tmp' = Joined(tmp, call.src) /\ UNCHANGED <<blockMode, content>>
    BY <1>0, <1>5 DEF FillPartly, Call, Joined
  <2>2. /\ Len(tmp') = Len(tmp) + Len(call.src) /\ Len(tmp) \in Nat /\ Len(call.src) \in Nat
        /\ \A i \in 1..(Len(tmp) + Len(call.src)) :
             tmp'[i] = IF i <= Len(tmp) THEN tmp[i] ELSE call.src[i - Len(tmp)]
    BY <1>0, <2>1, JoinedLaws, LenProperties
  <2>3. \A i \in 1..Len(tmp') : tmp'[i][2] = blockMode
    <3> TAKE i \in 1..Len(tmp')
    <3>1. CASE i <= Len(tmp)
      <4>1. i \in 1..Len(tmp) /\ i \in 1..(Len(tmp) + Len(call.src))
        BY <2>2, <3>1
      <4>2. QED  BY <2>2, <3>1, <4>1 DEF Unmixed
    <3>2. CASE ~(i <= Len(tmp))
      <4>1. i - Len(tmp) \in 1..Len(call.src) /\ i \in 1..(Len(tmp) + Len(call.src))
        BY <2>2, <3>2
      <4>2. tmp'[i] = call.src[i - Len(tmp)]
        BY <2>2, <3>2, <4>1
      <4>3. QED  BY <1>c, <2>1, <4>1, <4>2 DEF Unmixed
    <3>3. QED  BY <3>1, <3>2
  <2>4. Unmixed'
    BY <1>c, <2>1, <2>3, EmptySeq DEF Unmixed
  <2>5. QED  BY <2>1, <2>4, NoBlock
<1>6. CASE FillBlock
  <2> DEFINE n == maxBlockSize - Len(tmp)
             front == SubSeq(call.src, 1, n)
             block == Joined(tmp, front)
  <2>1. PICK c \in 1..Len(block) :
          /\ EmitBlock(block, call.mode, c)
          /\ call' = [call EXCEPT !.phase = "blocks", !.at = BlockEnd(c), !.src = Unread(n)]
    BY <1>6 DEF FillBlock, Joined
  <2>2. /\ content' = Joined(content, block) /\ tmp' = <<>> /\ blockMode' = blockMode
        /\ call.phase = "fill"
    BY <1>6, <2>1 DEF EmitBlock, FillBlock, Joined
  <2>3. call'.src = Unread(n) /\ call'.mode = call.mode
    BY <1>0, <2>1 DEF Call
  <2>4. n \in Nat /\ n <= Len(call.src) /\ Len(tmp) \in Nat
    <3>1. stage = 1 /\ ~(Len(tmp) + Len(call.src) < maxBlockSize)
      BY <1>6 DEF FillBlock, StaysBelowBlock, Phases
    <3>2. Len(tmp) < maxBlockSize
      BY <3>1 DEF Buffer
    <3>3. QED  BY <1>0, <3>1, <3>2
  <2>5. front \in Seq(Byte) /\ Len(front) = n
    BY <1>0, <2>4, UnreadType
  <2>6. /\ \A i \in 1..n : front[i][2] = call.mode
        /\ \A i \in 1..Len(Unread(n)) : Unread(n)[i][2] = call.mode
    BY <1>d, <2>4
  <2>7. Unmixed'
    BY <1>c, <2>2, <2>3, <2>6, EmptySeq DEF Unmixed
  <2>8. maxBlockSize = Len(tmp) + n
    BY <1>0, <2>4
  <2> HIDE DEF n, front
  <2>9. /\ block \in Seq(Byte) /\ Len(block) = Len(tmp) + n
        /\ \A i \in 1..(Len(tmp) + n) :
             block[i] = IF i <= Len(tmp) THEN tmp[i] ELSE front[i - Len(tmp)]
    BY <1>0, <2>5, JoinedLaws
  <2>10. \A i \in 1..Len(block) : block[i][2] = call.mode
    <3> TAKE i \in 1..Len(block)
    <3>1. CASE i <= Len(tmp)
      <4>1. i \in 1..Len(tmp) /\ i \in 1..(Len(tmp) + n)
        BY <2>4, <2>9, <3>1
      <4>2. block[i] = tmp[i]
        BY <2>9, <3>1, <4>1
      <4>3. QED  BY <1>c, <2>2, <4>1, <4>2 DEF Unmixed
    <3>2. CASE ~(i <= Len(tmp))
      <4>1. i - Len(tmp) \in 1..n /\ i \in 1..(Len(tmp) + n)
        BY <2>4, <2>9, <3>2
      <4>2. block[i] = front[i - Len(tmp)]
        BY <2>9, <3>2, <4>1
      <4>3. QED  BY <2>6, <4>1, <4>2
    <3>3. QED  BY <3>1, <3>2
  <2>11. clean => Len(block) <= GetBlockSize(header.blockSizeID)
    BY <1>0, <1>b, <1>c, <2>2, <2>8, <2>9
  <2> HIDE DEF block
  <2>12. BlockUnmixed
    BY <1>0, <2>2, <2>9, <2>10, <2>11, UniformBlock
  <2>13. QED  BY <2>7, <2>12
<1>7. ASSUME NEW n \in Nat \ {0}, n <= Len(call.src), n <= maxBlockSize,
             call.phase = "blocks", TakeFromSrc(n)
      PROVE  Unmixed' /\ BlockUnmixed
  <2> DEFINE block == SubSeq(call.src, 1, n)
  <2>1. PICK c \in 1..n : /\ EmitBlock(block, call.mode, c)
                          /\ call' = [call EXCEPT !.at = BlockEnd(c), !.src = Unread(n)]
    BY <1>7 DEF TakeFromSrc
  <2>2. content' = Joined(content, block) /\ UNCHANGED <<tmp, blockMode>>
    BY <1>7, <2>1 DEF EmitBlock, TakeFromSrc, Joined
  <2>3. call'.src = Unread(n) /\ call'.mode = call.mode
    BY <1>0, <2>1 DEF Call
  <2>4. block \in Seq(Byte) /\ Len(block) = n
    BY <1>0, <1>7, UnreadType
  <2>5. /\ \A i \in 1..n : block[i][2] = call.mode
        /\ \A i \in 1..Len(Unread(n)) : Unread(n)[i][2] = call.mode
    BY <1>d, <1>7
  <2>6. Unmixed'
    BY <1>c, <1>7, <2>2, <2>3, <2>5 DEF Unmixed
  <2>7. clean => n <= GetBlockSize(header.blockSizeID)
    BY <1>b, <1>c, <1>7
  <2> HIDE DEF block
  <2>8. BlockUnmixed
    BY <1>0, <2>2, <2>4, <2>5, <2>7, UniformBlock
  <2>9. QED  BY <2>6, <2>8
<1>8. CASE WholeBlock
  <2>1. maxBlockSize \in Nat \ {0} /\ maxBlockSize <= Len(call.src)
    BY <1>0, <1>8 DEF WholeBlock, Phases, Buffer
  <2>2. QED  BY <1>7, <1>8, <2>1 DEF WholeBlock
<1>9. CASE AutoFlushTail
  <2>1. Len(call.src) \in Nat \ {0} /\ Len(call.src) <= maxBlockSize
    BY <1>0, <1>9 DEF AutoFlushTail
  <2>2. QED  BY <1>7, <1>9, <2>1 DEF AutoFlushTail
<1>10. CASE UpdateReturn
  <2>1. /\ call.phase = "blocks" /\ call' = Idle /\ UNCHANGED <<content, blockMode>>
        /\ tmp' \in {tmp, call.src}
    BY <1>10 DEF UpdateReturn, Return
  <2>2. Unmixed'
    BY <1>c, <2>1, InitialRecords, EmptySeq DEF Unmixed
  <2>3. QED  BY <2>1, <2>2, NoBlock
<1>11. CASE EndTooSmall \/ EndMark
  <2>1. call' = Idle /\ UNCHANGED <<tmp, content, blockMode>>
    BY <1>11 DEF EndTooSmall, EndMark, Return, cctx
  <2>2. Unmixed'
    BY <2>1, InitialRecords, EmptySeq DEF Unmixed
  <2>3. QED  BY <2>1, <2>2, NoBlock
<1>12. QED
  BY <1>1, <1>2, <1>3, <1>4, <1>5, <1>6, <1>8, <1>9, <1>10, <1>11 DEF Step

(* A block holds bytes of one call mode only, and never more of them than  *)
(* the header's block size: a change of mode flushes first                 *)
(* (frame.rs:657-660).                                                     *)
THEOREM OneModePerBlock == Spec => BlocksUnmixed
<1>1. Init => Unmixed
  BY InitialRecords, EmptySeq DEF Init, Unmixed
<1>2. TypeInv /\ Agreed /\ Unmixed /\ [Next]_vars => Unmixed'
  <2>1. Unmixed /\ UNCHANGED vars => Unmixed'
    BY DEF Unmixed, vars, cctx
  <2>2. QED  BY <2>1, NewCallUnmixed, StepUnmixed DEF Next
<1>3. TypeInv /\ Agreed /\ Unmixed /\ [Next]_vars => [BlockUnmixed]_vars
  <2>1. TypeInv /\ NewCall => BlockUnmixed
    <3> SUFFICES ASSUME TypeInv, NewCall PROVE content' = content \/ content' = <<>>
      BY NoBlock
    <3>1. QED
      BY ZenonT(60) DEF NewCall, BeginTooSmall, UpdateTooSmall, UpdateUninitialized, Reject,
             FlushCall, EndCall, UpdateCall, BeginBadBlockSize, Begin
  <2>2. QED  BY <2>1, StepUnmixed DEF Next
<1>4. QED  BY <1>1, <1>2, <1>3, AgreedInvariant, PTL DEF Spec, BlocksUnmixed

-----------------------------------------------------------------------------
(* History.                                                                *)

(* The window of a short sequence is all of it.                            *)
LEMMA LastBytesShort ==
  ASSUME NEW s, NEW n, Len(s) <= n PROVE LastBytes(s, n) = s
BY DEF LastBytes

(* The window after a block depends only on the window before it.          *)
LEMMA LastBytesJoined ==
  ASSUME NEW S, NEW s \in Seq(S), NEW b \in Seq(S), NEW n \in Nat
  PROVE  LastBytes(Joined(LastBytes(s, n), b), n) = LastBytes(Joined(s, b), n)
<1> DEFINE l == LastBytes(s, n)
           whole == Joined(s, b)
           kept == Joined(l, b)
           x == LastBytes(kept, n)
           y == LastBytes(whole, n)
<1>1. /\ l \in Seq(S) /\ Len(l) = Smaller(Len(s), n)
      /\ \A i \in 1..Len(l) : l[i] = s[Len(s) - Len(l) + i]
  BY LastBytesType
<1> HIDE DEF l
<1>2. /\ whole \in Seq(S) /\ Len(whole) = Len(s) + Len(b)
      /\ \A i \in 1..(Len(s) + Len(b)) : whole[i] = IF i <= Len(s) THEN s[i] ELSE b[i - Len(s)]
  BY JoinedLaws
<1>3. /\ kept \in Seq(S) /\ Len(kept) = Len(l) + Len(b)
      /\ \A i \in 1..(Len(l) + Len(b)) : kept[i] = IF i <= Len(l) THEN l[i] ELSE b[i - Len(l)]
  BY <1>1, JoinedLaws
<1> HIDE DEF whole, kept
<1>a. /\ LastBytes(kept, n) \in Seq(S)
      /\ Len(LastBytes(kept, n)) = Smaller(Len(kept), n)
      /\ \A i \in 1..Len(LastBytes(kept, n)) :
           LastBytes(kept, n)[i] = kept[Len(kept) - Len(LastBytes(kept, n)) + i]
  <2>1. kept \in Seq(S)
    BY <1>3
  <2>2. QED  BY <2>1, LastBytesType
<1>b. /\ LastBytes(whole, n) \in Seq(S)
      /\ Len(LastBytes(whole, n)) = Smaller(Len(whole), n)
      /\ \A i \in 1..Len(LastBytes(whole, n)) :
           LastBytes(whole, n)[i] = whole[Len(whole) - Len(LastBytes(whole, n)) + i]
  <2>1. whole \in Seq(S)
    BY <1>2
  <2>2. QED  BY <2>1, LastBytesType
<1>4. /\ x \in Seq(S) /\ Len(x) = Smaller(Len(kept), n)
      /\ \A i \in 1..Len(x) : x[i] = kept[Len(kept) - Len(x) + i]
  BY <1>a
<1>5. /\ y \in Seq(S) /\ Len(y) = Smaller(Len(whole), n)
      /\ \A i \in 1..Len(y) : y[i] = whole[Len(whole) - Len(y) + i]
  BY <1>b
<1> HIDE DEF x, y
<1> DEFINE ls == Len(s)
           lb == Len(b)
           ll == Len(l)
           lx == Len(x)
<1>6. ls \in Nat /\ lb \in Nat /\ ll \in Nat /\ lx \in Nat
  BY <1>1, <1>4, LenProperties
<1>7. /\ ll = Smaller(ls, n) /\ lx = Smaller(ll + lb, n) /\ Len(y) = Smaller(ls + lb, n)
  BY <1>1, <1>2, <1>3, <1>4, <1>5
<1>8. Len(y) = lx /\ lx <= ll + lb /\ ll <= ls /\ lx <= ls + lb
  BY <1>6, <1>7 DEF Smaller
<1>9. ASSUME NEW i \in 1..lx PROVE x[i] = y[i]
  <2> DEFINE k == ll + lb - lx + i
             j == ls + lb - lx + i
  <2>1. k \in 1..(ll + lb) /\ j \in 1..(ls + lb) /\ j = k + (ls - ll) /\ k \in Int
    BY <1>6, <1>8
  <2>a. x[i] = kept[k]
    <3>1. x[i] = kept[Len(kept) - Len(x) + i]
      BY <1>4
    <3>2. Len(kept) - Len(x) + i = k
      BY <1>3
    <3>3. QED  BY <3>1, <3>2
  <2>b. y[i] = whole[j]
    <3>1. i \in 1..Len(y)
      BY <1>8
    <3>2. y[i] = whole[Len(whole) - Len(y) + i]
      BY <1>5, <3>1
    <3>3. Len(whole) - Len(y) + i = j
      BY <1>2, <1>8
    <3>4. QED  BY <3>2, <3>3
  <2>2. x[i] = kept[k] /\ y[i] = whole[j]
    BY <2>a, <2>b
  <2>3. kept[k] = IF k <= ll THEN l[k] ELSE b[k - ll]
    BY <1>3, <2>1
  <2>4. whole[j] = IF j <= ls THEN s[j] ELSE b[j - ls]
    BY <1>2, <2>1
  <2> HIDE DEF k, j
  <2>5. CASE k <= ll
    <3>1. k \in 1..ll /\ j <= ls /\ j = ls - ll + k
      BY <1>6, <1>8, <2>1, <2>5
    <3>2. l[k] = s[j]
      BY <1>1, <3>1
    <3>3. QED  BY <2>2, <2>3, <2>4, <2>5, <3>1, <3>2
  <2>6. CASE ~(k <= ll)
    <3>1. ~(j <= ls) /\ j - ls = k - ll
      BY <1>6, <1>8, <2>1, <2>6
    <3>2. QED  BY <2>2, <2>3, <2>4, <2>6, <3>1
  <2>7. QED  BY <2>5, <2>6
<1>10. x = y
  BY <1>4, <1>5, <1>8, <1>9, SeqEqual
<1>11. QED  BY <1>10 DEF x, y, l, whole, kept

(* A linked block moves the window on, and dict_size with it.              *)
LEMMA EmitWindowed ==
  ASSUME TypeInv, Windowed, stage = 1, NEW block \in Seq(Byte), NEW c,
         EmitBlock(block, "compressed", c), UNCHANGED <<stage, prefs, frameDict, clean>>
  PROVE  Windowed'
<1> SUFFICES ASSUME prefs.linked, clean
             PROVE  /\ dict' = LastBytes(Joined(frameDict, content'), K64)
                    /\ dictSize' = Len(dict')
  BY DEF Windowed
<1> DEFINE decoded == Joined(frameDict, content)
<1>1. /\ frameDict \in Seq(Byte) /\ content \in Seq(Byte) /\ dict \in Seq(Byte)
      /\ K64 \in Nat
  BY K64Positive DEF TypeInv, TypeOK
<1>2. dict = LastBytes(decoded, K64) /\ dictSize = Len(dict)
  BY DEF Windowed
<1>3. decoded \in Seq(Byte)
  BY <1>1, JoinedLaws
<1>4. content' = Joined(content, block)
  BY DEF EmitBlock, Joined
<1>5. Joined(frameDict, content') = Joined(decoded, block)
  BY <1>1, <1>4, JoinedAssociative
<1>6. dict' = LastBytes(Joined(dict, block), K64)
  BY DEF EmitBlock, DictAfter, Joined
<1> HIDE DEF decoded
<1>7. dict' = LastBytes(Joined(decoded, block), K64)
  BY <1>1, <1>2, <1>3, <1>6, LastBytesJoined
<1>8. dictSize' = Len(dict')
  <2>1. /\ Joined(dict, block) \in Seq(Byte)
        /\ Len(Joined(dict, block)) = Len(dict) + Len(block)
    BY <1>1, JoinedLaws
  <2>2. Len(dict') = Smaller(Len(dict) + Len(block), K64)
    BY <1>1, <1>6, <2>1, LastBytesType
  <2>3. dictSize' = Smaller(Len(dict'), dictSize + Len(block))
    BY DEF EmitBlock, DictSizeAfter, CodecDictSize
  <2>4. Len(dict) \in Nat /\ Len(block) \in Nat
    BY <1>1, LenProperties
  <2> DEFINE m == Len(dict) + Len(block)
             w == Len(dict')
  <2>5. w = Smaller(m, K64) /\ dictSize' = Smaller(w, m) /\ m \in Nat
    BY <1>2, <2>2, <2>3, <2>4
  <2> HIDE DEF m, w
  <2>6. dictSize' = w
    BY <1>1, <2>5 DEF Smaller
  <2>7. QED  BY <2>6 DEF w
<1>9. QED  BY <1>5, <1>7, <1>8

(* The dictionary of a frame is the history of its first block.            *)
LEMMA NewCallWindowed ==
  ASSUME TypeInv, Windowed, NewCall PROVE Windowed'
<1>1. ASSUME UNCHANGED <<cctx, content, clean>> PROVE Windowed'
  BY <1>1 DEF Windowed, cctx
<1>2. ASSUME NEW cap \in Caps, NEW p \in PrefSet, BeginBadBlockSize(p, cap) PROVE Windowed'
  BY <1>2 DEF BeginBadBlockSize, Windowed
<1>3. ASSUME NEW cap \in Caps, NEW p \in PrefSet, NEW d \in DictLengths, Begin(p, d, cap)
      PROVE  Windowed'
  <2> DEFINE k == KeptDict(d)
  <2>1. k \in Seq(Byte) /\ Len(k) <= K64
    <3>1. d \in Nat /\ K64 \in Nat
      BY SizesNatural, K64Positive
    <3>2. Dictionary(d) \in Seq(Byte)
      BY <3>1 DEF Dictionary, Byte
    <3>3. /\ LastBytes(Dictionary(d), K64) \in Seq(Byte)
          /\ Len(LastBytes(Dictionary(d), K64)) = Smaller(Len(Dictionary(d)), K64)
      BY <3>1, <3>2, LastBytesType
    <3>4. Len(Dictionary(d)) \in Nat
      BY <3>2, LenProperties
    <3>5. Len(LastBytes(Dictionary(d), K64)) <= K64
      BY <3>1, <3>3, <3>4 DEF Smaller
    <3>6. QED  BY <3>1, <3>3, <3>5, EmptySeq DEF KeptDict
  <2>2. /\ frameDict' = k /\ dict' = k /\ dictSize' = Len(k) /\ content' = <<>>
    BY <1>3 DEF Begin
  <2> HIDE DEF k
  <2>3. Joined(k, <<>>) = k
    BY <2>1, JoinedLaws
  <2>4. LastBytes(k, K64) = k
    BY <2>1, LastBytesShort
  <2>5. QED  BY <2>2, <2>3, <2>4 DEF Windowed
<1>4. QED
  BY <1>1, <1>2, <1>3
     DEF NewCall, BeginTooSmall, UpdateTooSmall, UpdateUninitialized, Reject,
         FlushCall, EndCall, UpdateCall

(* Each step of a call keeps the window at the end of what is decoded.     *)
LEMMA StepWindowed ==
  ASSUME CapInv, Windowed, Step PROVE Windowed'
<1> USE DEF CapInv, TypeInv, InPhase
<1>0. /\ call \in Call /\ tmp \in Seq(Byte) /\ call.src \in Seq(Byte)
      /\ maxBlockSize \in Nat /\ blockMode = "compressed" /\ call.mode = "compressed"
  BY BytesType DEF TypeOK, OneMode
<1>a. ASSUME UNCHANGED <<dict, dictSize, frameDict, content, prefs>>,
             stage' = 1 => stage = 1, clean' => clean
      PROVE  Windowed'
  BY <1>a DEF Windowed
<1>1. CASE FlushNothing \/ FlushTooSmall \/ FillNothing \/ FillPartly \/ UpdateReturn
  <2>1. UNCHANGED <<stage, prefs, dict, dictSize, frameDict, content, clean>>
    BY <1>1 DEF FlushNothing, FlushTooSmall, FillNothing, FillPartly, UpdateReturn, cctx
  <2>2. QED  BY <2>1 DEF Windowed
<1>2. CASE EndTooSmall \/ EndMark
  <2>1. /\ UNCHANGED <<dict, dictSize, frameDict, content, prefs>>
    BY <1>2 DEF EndTooSmall, EndMark, cctx
  <2>2. stage' = 1 => stage = 1
    BY <1>2 DEF EndTooSmall, EndMark, cctx
  <2>3. clean' => clean
    BY <1>2 DEF EndTooSmall, EndMark
  <2>4. QED  BY <1>a, <2>1, <2>2, <2>3
<1>3. CASE FlushBlock
  <2>1. PICK c \in 1..Len(tmp) : EmitBlock(tmp, blockMode, c)
    BY <1>3 DEF FlushBlock
  <2>2. stage = 1 /\ UNCHANGED <<stage, prefs, frameDict, clean>>
    BY <1>3 DEF FlushBlock, Buffer, TypeOK
  <2>3. QED  BY <1>0, <2>1, <2>2, EmitWindowed
<1>4. CASE FillBlock
  <2> DEFINE n == maxBlockSize - Len(tmp)
             block == tmp \o SubSeq(call.src, 1, n)
  <2>1. PICK c \in 1..Len(block) : EmitBlock(block, call.mode, c)
    BY <1>4 DEF FillBlock
  <2>2. stage = 1 /\ ~StaysBelowBlock /\ UNCHANGED <<stage, prefs, frameDict, clean>>
    BY <1>4 DEF FillBlock, Phases
  <2>3. n \in Nat /\ n <= Len(call.src)
    BY <1>0, <2>2 DEF StaysBelowBlock, Buffer
  <2>4. block \in Seq(Byte)
    BY <1>0, <2>3, UnreadType, ConcatProperties
  <2> HIDE DEF block
  <2>5. QED  BY <1>0, <2>1, <2>2, <2>4, EmitWindowed
<1>5. ASSUME NEW n \in Nat, n <= Len(call.src), call.phase = "blocks", TakeFromSrc(n)
      PROVE  Windowed'
  <2> DEFINE block == SubSeq(call.src, 1, n)
  <2>1. PICK c \in 1..n : EmitBlock(block, call.mode, c)
    BY <1>5 DEF TakeFromSrc
  <2>2. stage = 1 /\ UNCHANGED <<stage, prefs, frameDict, clean>>
    BY <1>5 DEF TakeFromSrc, Phases
  <2>3. block \in Seq(Byte)
    BY <1>5, UnreadType
  <2> HIDE DEF block
  <2>4. QED  BY <1>0, <2>1, <2>2, <2>3, EmitWindowed
<1>6. CASE WholeBlock
  BY <1>0, <1>5, <1>6 DEF WholeBlock
<1>7. CASE AutoFlushTail
  BY <1>0, <1>5, <1>7, LenProperties DEF AutoFlushTail
<1>8. QED  BY <1>1, <1>2, <1>3, <1>4, <1>5, <1>6, <1>7 DEF Step

(* No frame is linked when no preferences are.                             *)
Unlinked == stage = 1 => ~prefs.linked

LEMMA NeverLinked ==
  ASSUME \A p \in PrefSet : ~p.linked PROVE Spec => []Unlinked
<1>1. Init => Unlinked
  BY DEF Init, Unlinked
<1>2. Unlinked /\ [Next]_vars => Unlinked'
  <2> SUFFICES ASSUME Unlinked, [Next]_vars PROVE Unlinked'
    OBVIOUS
  <2>1. CASE UNCHANGED vars
    BY <2>1 DEF Unlinked, vars, cctx
  <2>2. CASE NewCall
    <3>1. ASSUME NEW p \in PrefSet, prefs' \in {p, WithDefaultSize(p)} PROVE ~prefs'.linked
      <4>1. p \in Prefs /\ ~p.linked
        BY PrefSetTyped
      <4>2. WithDefaultSize(p).linked = p.linked
        BY <4>1 DEF WithDefaultSize, Prefs
      <4>3. QED  BY <3>1, <4>1, <4>2
    <3>2. ASSUME UNCHANGED <<stage, prefs>> PROVE Unlinked'
      BY <3>2 DEF Unlinked
    <3>3. QED
      BY <2>2, <3>1, <3>2, ZenonT(60)
         DEF Unlinked, NewCall, BeginTooSmall, UpdateTooSmall, UpdateUninitialized, Reject,
             FlushCall, EndCall, UpdateCall, BeginBadBlockSize, Begin, cctx
  <2>3. CASE Step
    <3>1. UNCHANGED prefs /\ stage' \in {stage, 0}
      BY <2>3 DEF Step, FlushNothing, FlushTooSmall, FlushBlock, FillNothing, FillPartly,
                  FillBlock, WholeBlock, AutoFlushTail, TakeFromSrc, UpdateReturn,
                  EndTooSmall, EndMark, cctx
    <3>2. QED  BY <3>1 DEF Unlinked
  <2>4. QED  BY <2>1, <2>2, <2>3 DEF Next
<1>3. QED  BY <1>1, <1>2, PTL DEF Spec

(* What the codec takes for history is the end of what a decoder will have *)
(* produced (frame.rs:630-635), in a program that makes linked frames by   *)
(* LZ4F_compressUpdate only.  An uncompressed block moves the history on   *)
(* without the codec's knowledge.                                          *)
THEOREM HistoryHonest ==
  ASSUME Modes = {"compressed"} \/ \A p \in PrefSet : ~p.linked
  PROVE  Spec => []HistoryAligned
<1>1. CASE \A p \in PrefSet : ~p.linked
  <2>1. Unlinked => HistoryAligned
    BY DEF Unlinked, HistoryAligned
  <2>2. QED  BY <1>1, <2>1, NeverLinked, PTL
<1>2. CASE Modes = {"compressed"}
  <2>1. Init => Windowed
    BY DEF Init, Windowed
  <2>2. CapInv /\ Windowed /\ [Next]_vars => Windowed'
    <3>1. Windowed /\ UNCHANGED vars => Windowed'
      BY DEF Windowed, vars, cctx
    <3>2. QED  BY <3>1, NewCallWindowed, StepWindowed DEF Next, CapInv
  <2>3. CapInv /\ Windowed => HistoryAligned
    <3> SUFFICES ASSUME CapInv, Windowed, stage = 1, prefs.linked, clean
        PROVE  LET decoded == frameDict \o content IN
               /\ dictSize <= Len(dict)
               /\ \A d \in 1..dictSize :
                    /\ d <= Len(decoded)
                    /\ dict[dictSize - d + 1] = decoded[Len(decoded) - d + 1]
      BY DEF HistoryAligned
    <3> DEFINE decoded == Joined(frameDict, content)
               l == LastBytes(decoded, K64)
    <3>1. decoded \in Seq(Byte) /\ K64 \in Nat
      BY JoinedLaws, K64Positive DEF CapInv, TypeInv, TypeOK
    <3>2. dict = l /\ dictSize = Len(l)
      BY DEF Windowed
    <3> HIDE DEF decoded
    <3>3. /\ l \in Seq(Byte) /\ Len(l) = Smaller(Len(decoded), K64)
          /\ \A i \in 1..Len(l) : l[i] = decoded[Len(decoded) - Len(l) + i]
      BY <3>1, LastBytesType
    <3>4. Len(decoded) \in Nat /\ Len(l) \in Nat
      BY <3>1, <3>3, LenProperties
    <3> HIDE DEF l
    <3>5. ASSUME NEW d \in 1..Len(l)
          PROVE  d <= Len(decoded) /\ l[Len(l) - d + 1] = decoded[Len(decoded) - d + 1]
      <4>1. Len(l) <= Len(decoded)
        BY <3>1, <3>3, <3>4 DEF Smaller
      <4> DEFINE i == Len(l) - d + 1
      <4>2. i \in 1..Len(l) /\ Len(decoded) - Len(l) + i = Len(decoded) - d + 1
        BY <3>4, <4>1
      <4> HIDE DEF i
      <4>3. l[i] = decoded[Len(decoded) - d + 1]
        BY <3>3, <4>2
      <4>4. QED  BY <3>4, <4>1, <4>3 DEF i
    <3>6. QED  BY <3>2, <3>4, <3>5 DEF decoded, Joined
  <2>4. QED  BY <1>2, <2>1, <2>2, <2>3, CapInvariant, PTL DEF Spec
<1>3. QED  BY <1>1, <1>2
=============================================================================
