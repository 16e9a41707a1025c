-------------------------- MODULE FrameDelivery_proofs --------------------------
(***************************************************************************)
(* Proofs about what the frame decompressor does with a frame: it always   *)
(* is at a place of the frame that goes with the content it has given, so  *)
(* that it keeps the promise of FrameDelivery and stays inside the frame.  *)
(***************************************************************************)
EXTENDS FrameDecoder_proofs

-----------------------------------------------------------------------------
(* The frame a client feeds.                                               *)

Item(i) == laid[i].item
Start(i) == laid[i].at
Positions(at, n) == [k \in 1..n |-> at + k]
Body(i) == i \in 2..Len(laid) /\ Item(i).kind = "body"

Given == FramesAssumption /\ FramesWellFormed /\ frame \in Frames

LEMMA ItemOrder ==
  ASSUME Given
  PROVE  /\ Len(laid) \in Nat /\ Len(laid) >= 1 /\ 1 \in 1..Len(laid) /\ Start(1) = 0
         /\ \A i \in 1..Len(laid) :
              Start(i) \in Nat /\ Item(i).size \in Nat /\ ItemTyped(Item(i))
         /\ \A i, j \in 1..Len(laid) : i < j =>
              /\ Start(i) + Item(i).size <= Start(j)
              /\ j = i + 1 => Start(j) = Start(i) + Item(i).size
<1>1. WellFormed(frame) /\ Len(laid) \in Nat \ {0}
  BY DEF Given, FramesWellFormed, FramesAssumption, laid
<1>2. \A i \in 1..Len(laid) :
        Start(i) \in Nat /\ Item(i).size \in Nat /\ ItemTyped(Item(i))
  BY DEF Given, FramesAssumption, laid, Start, Item, ItemTyped
<1>3. InPlace(frame)
  BY <1>1 DEF WellFormed
<1>4. QED  BY <1>1, <1>2, <1>3 DEF InPlace, laid, Start, Item

(* No item reaches beyond the frame.                                       *)
LEMMA InsideFrame ==
  ASSUME Given
  PROVE  /\ LengthOf(laid) \in Nat
         /\ \A i \in 1..Len(laid) : Start(i) + Item(i).size <= LengthOf(laid)
<1> DEFINE n == Len(laid)
<1>1. LengthOf(laid) = Start(n) + Item(n).size
  BY DEF LengthOf, Start, Item
<1>2. n \in 1..n /\ n \in Nat
  BY ItemOrder
<1>3. ASSUME NEW i \in 1..n PROVE Start(i) + Item(i).size <= LengthOf(laid)
  <2>1. CASE i = n
    BY <1>1, <1>2, <2>1, ItemOrder
  <2>2. CASE i < n
    <3>1. Start(i) + Item(i).size <= Start(n)
      BY <1>2, <2>2, ItemOrder
    <3>2. Start(i) \in Nat /\ Item(i).size \in Nat /\ Start(n) \in Nat /\ Item(n).size \in Nat
      BY <1>2, ItemOrder
    <3>3. QED  BY <1>1, <3>1, <3>2
  <2>3. QED  BY <1>2, <2>1, <2>2
<1>4. QED  BY <1>1, <1>2, <1>3, ItemOrder

(* A reader that has gathered an item's positions has that item, and no    *)
(* other item lies at a position of it.                                    *)
LEMMA Recovered ==
  ASSUME Given, NEW i \in 1..Len(laid), Item(i).size > 0
  PROVE  Recover(laid, Positions(Start(i), Item(i).size)) = laid[i]
<1> DEFINE s == Positions(Start(i), Item(i).size)
           whole == { j \in 1..Len(laid) :
                        s # <<>> /\ s = [k \in 1..laid[j].item.size |-> laid[j].at + k] }
<1>1. Start(i) \in Nat /\ Item(i).size \in Nat
  BY ItemOrder
<1>2. s \in Seq(Nat) /\ Len(s) = Item(i).size /\ s[1] = Start(i) + 1
  BY <1>1 DEF Positions
<1>3. i \in whole
  <2>1. s # <<>>
    BY <1>1, <1>2
  <2>2. s = [k \in 1..laid[i].item.size |-> laid[i].at + k]
    BY DEF Positions, Start, Item
  <2> HIDE DEF s
  <2>3. QED  BY <2>1, <2>2
<1>4. ASSUME NEW j \in whole PROVE j = i
  <2>1. Start(j) \in Nat /\ Item(j).size \in Nat /\ j \in 1..Len(laid)
    BY ItemOrder
  <2>2. s = Positions(Start(j), Item(j).size)
    BY DEF Positions, Start, Item
  <2>3. Len(Positions(Start(j), Item(j).size)) = Item(j).size
    BY <2>1 DEF Positions
  <2>4. Item(j).size = Item(i).size
    BY <1>2, <2>2, <2>3
  <2>5. Positions(Start(j), Item(j).size)[1] = Start(j) + 1
    BY <1>1, <2>1, <2>4 DEF Positions
  <2>6. Start(j) = Start(i)
    BY <1>1, <1>2, <2>1, <2>2, <2>5
  <2>7. ~(j < i) /\ ~(i < j)
    <3>1. j < i => Start(j) + Item(j).size <= Start(i)
      BY <2>1, ItemOrder
    <3>2. i < j => Start(i) + Item(i).size <= Start(j)
      BY <2>1, ItemOrder
    <3>3. QED  BY <1>1, <2>1, <2>4, <2>6, <3>1, <3>2
  <2>8. QED  BY <2>1, <2>7, ItemOrder
<1>5. Recover(laid, s) = laid[CHOOSE j \in whole : TRUE]
  BY <1>3 DEF Recover
<1> HIDE DEF whole
<1>6. (CHOOSE j \in whole : TRUE) \in whole
  BY <1>3
<1>7. QED  BY <1>4, <1>5, <1>6

LEMMA StoredAt ==
  ASSUME Given, NEW i \in 1..Len(laid), NEW p \in (Start(i) + 1)..(Start(i) + Item(i).size)
  PROVE  StoredByte(laid, p) = IF Item(i).kind = "body" /\ Item(i).sound
                               THEN Item(i).from + (p - Start(i)) ELSE 0
<1> DEFINE here == { j \in 1..Len(laid) :
                       p \in (laid[j].at + 1)..(laid[j].at + laid[j].item.size) }
           byte(j) == IF laid[j].item.kind = "body" /\ laid[j].item.sound
                      THEN laid[j].item.from + (p - laid[j].at) ELSE 0
<1>1. Start(i) \in Nat /\ Item(i).size \in Nat /\ p \in Nat
  BY ItemOrder
<1>2. i \in here
  BY DEF Start, Item
<1>3. ASSUME NEW j \in here PROVE j = i
  <2>1. Start(j) \in Nat /\ Item(j).size \in Nat /\ j \in 1..Len(laid)
    BY ItemOrder
  <2>2. p \in (Start(j) + 1)..(Start(j) + Item(j).size)
    BY DEF Start, Item
  <2>3. ~(j < i) /\ ~(i < j)
    <3>1. j < i => Start(j) + Item(j).size <= Start(i)
      BY <2>1, ItemOrder
    <3>2. i < j => Start(i) + Item(i).size <= Start(j)
      BY <2>1, ItemOrder
    <3>3. QED  BY <1>1, <2>1, <2>2, <3>1, <3>2
  <2>4. QED  BY <2>1, <2>3, ItemOrder
<1>4. StoredByte(laid, p) = byte(CHOOSE j \in here : TRUE)
  BY <1>2 DEF StoredByte
<1> HIDE DEF here
<1>5. (CHOOSE j \in here : TRUE) = i
  BY <1>2, <1>3
<1>6. StoredByte(laid, p) = byte(i)
  BY <1>4, <1>5, Zenon
<1>7. QED  BY <1>6 DEF Item, Start

-----------------------------------------------------------------------------
(* How the items of a data frame follow each other.                        *)

NextBlock(i) == IF Item(1).info.blockChecksum THEN i + 3 ELSE i + 2

LEMMA DataItems ==
  ASSUME Given, Item(1).kind = "header"
  PROVE  /\ Len(laid) >= 2 /\ Item(2).kind = "blockHeader" /\ Before(frame, 2) = 0
         /\ Item(1).info \in Infos /\ Item(1).size \in HeaderSizeMin..HeaderSizeMax
         /\ DataFollows(frame) /\ FaultShows(frame)
<1>1. WellFormed(frame)
  BY DEF Given, FramesWellFormed
<1>2. DataFollows(frame) /\ FaultShows(frame)
  BY <1>1 DEF WellFormed, Item, laid
<1>3. Len(laid) >= 2 /\ Item(2).kind = "blockHeader"
  BY <1>2 DEF DataFollows, Item, laid
<1>4. ItemTyped(Item(1))
  BY ItemOrder
<1>5. Before(frame, 2) = 0
  BY DEF Before
<1>6. QED  BY <1>2, <1>3, <1>4, <1>5 DEF ItemTyped

(* A block: its header, its body, a checksum perhaps, and the next header. *)
LEMMA BlockItemsAt ==
  ASSUME Given, Item(1).kind = "header", NEW i \in 2..Len(laid),
         Item(i).kind = "blockHeader", ~IsEndMark(Item(i))
  PROVE  /\ i \in Nat /\ i + 1 \in 2..Len(laid) /\ Body(i + 1)
         /\ Item(i).size = BHSize /\ Start(i + 1) = Start(i) + BHSize
         /\ Item(i).length \in Nat /\ Item(i + 1).size = Item(i).length
         /\ Item(i).stored => Item(i + 1).to - Item(i + 1).from = Item(i).length
         /\ Item(i + 1).from = Before(frame, i)
         /\ Item(i + 1).from \in Nat /\ Item(i + 1).to \in Nat
         /\ Item(i + 1).from <= Item(i + 1).to /\ Item(i + 1).to <= frame.content
         /\ Item(i + 1).reach \in Nat
         /\ Item(i + 1).base = IF Item(1).info.linked THEN Item(i + 1).from ELSE 0
         /\ NextBlock(i) \in 2..Len(laid) /\ Item(NextBlock(i)).kind = "blockHeader"
         /\ Before(frame, NextBlock(i)) = Item(i + 1).to
         /\ ~Item(1).info.blockChecksum =>
              Start(NextBlock(i)) = Start(i + 1) + Item(i + 1).size
         /\ Item(1).info.blockChecksum =>
              /\ i + 2 \in 2..Len(laid) /\ Item(i + 2).kind = "blockCrc"
              /\ Item(i + 2).size = BFSize /\ Item(i + 2).covers = Item(i).length
              /\ Item(i + 2).sound = Item(i + 1).sound
              /\ Start(i + 2) = Start(i + 1) + Item(i + 1).size
              /\ Start(NextBlock(i)) = Start(i + 2) + BFSize
<1>1. /\ i \in Nat /\ Len(laid) \in Nat /\ laid = frame.laid
  BY ItemOrder DEF laid
<1>2. DataFollows(frame)
  BY DataItems
<1>3. /\ Item(i).size = BHSize /\ BlockFollows(frame, i)
  <2>1. frame.laid[i].item = Item(i)
    BY DEF Item, laid
  <2>2. QED  BY <1>1, <1>2, <2>1 DEF DataFollows
<1> DEFINE crc == Item(1).info.blockChecksum
           next == NextBlock(i)
<1>4. /\ next <= Len(laid) /\ Item(next).kind = "blockHeader"
      /\ Item(i + 1).kind = "body" /\ Item(i + 1).size = Item(i).length
      /\ Item(i).stored => Item(i + 1).to - Item(i + 1).from = Item(i).length
      /\ Item(i + 1).from = Before(frame, i) /\ Item(i + 1).to <= frame.content
      /\ Item(i + 1).reach \in Nat
      /\ Item(i + 1).base = IF Item(1).info.linked THEN Item(i + 1).from ELSE 0
      /\ crc => /\ Item(i + 2).kind = "blockCrc" /\ Item(i + 2).size = BFSize
                /\ Item(i + 2).covers = Item(i).length /\ Item(i + 2).sound = Item(i + 1).sound
  BY <1>3 DEF BlockFollows, NextBlock, Item, laid
<1>5. next \in {i + 2, i + 3} /\ (crc => next = i + 3) /\ (~crc => next = i + 2)
  BY DEF NextBlock
<1> HIDE DEF next
<1>6. /\ i \in 1..Len(laid) /\ i + 1 \in 1..Len(laid) /\ i + 2 \in 1..Len(laid)
      /\ next \in 2..Len(laid) /\ i + 1 \in 2..Len(laid) /\ i + 2 \in 2..Len(laid)
      /\ i < i + 1 /\ i + 1 < i + 2 /\ i + 2 = (i + 1) + 1 /\ (crc => next = (i + 2) + 1)
  BY <1>1, <1>4, <1>5
<1>7. /\ Start(i + 1) = Start(i) + BHSize /\ Start(i + 2) = Start(i + 1) + Item(i + 1).size
  BY <1>3, <1>6, ItemOrder, Zenon
<1>8. crc => Start(next) = Start(i + 2) + BFSize
  <2>1. ASSUME crc PROVE next \in 1..Len(laid) /\ i + 2 < next
    BY <1>1, <1>5, <1>6, <2>1
  <2>2. QED  BY <1>4, <1>6, <2>1, ItemOrder
<1>9. Item(i).length \in Nat
  BY <1>6, ItemOrder, Zenon DEF ItemTyped
<1>10. /\ Item(i + 1).from \in Nat /\ Item(i + 1).to \in Nat /\ Item(i + 1).from <= Item(i + 1).to
  BY <1>4, <1>6, ItemOrder, Zenon DEF ItemTyped
<1>11. Before(frame, next) = Item(i + 1).to
  <2>1. next # 2
    BY <1>1, <1>5
  <2>2. (IF crc THEN next - 2 ELSE next - 1) = i + 1
    BY <1>1, <1>5
  <2>3. Before(frame, next) = laid[IF crc THEN next - 2 ELSE next - 1].item.to
    BY <2>1 DEF Before, Item, laid
  <2>4. QED  BY <2>2, <2>3 DEF Item
<1>12. ~crc => Start(next) = Start(i + 1) + Item(i + 1).size
  BY <1>5, <1>7
<1>13. QED
  BY <1>1, <1>3, <1>4, <1>6, <1>7, <1>8, <1>9, <1>10, <1>11, <1>12 DEF Body, next

(* The end of a frame.                                                     *)
LEMMA EndItems ==
  ASSUME Given, Item(1).kind = "header", NEW i \in 2..Len(laid),
         Item(i).kind = "blockHeader", IsEndMark(Item(i))
  PROVE  /\ i \in Nat /\ Item(i).size = BHSize /\ Before(frame, i) = frame.content
         /\ ~Item(1).info.contentChecksum =>
              Len(laid) = i /\ LengthOf(laid) = Start(i) + BHSize
         /\ Item(1).info.contentChecksum =>
              /\ Len(laid) = i + 1 /\ i + 1 \in 2..Len(laid)
              /\ Item(i + 1).kind = "contentCrc" /\ Item(i + 1).size = BFSize
              /\ Item(i + 1).covers = frame.content
              /\ Start(i + 1) = Start(i) + BHSize
              /\ LengthOf(laid) = Start(i) + BHSize + BFSize
<1>1. /\ i \in Nat /\ Len(laid) \in Nat /\ laid = frame.laid
  BY ItemOrder DEF laid
<1>2. DataFollows(frame)
  BY DataItems
<1>3. /\ Item(i).size = BHSize /\ EndFollows(frame, i)
  <2>1. frame.laid[i].item = Item(i)
    BY DEF Item, laid
  <2>2. QED  BY <1>1, <1>2, <2>1 DEF DataFollows
<1> DEFINE crc == Item(1).info.contentChecksum
<1>4. /\ Before(frame, i) = frame.content
      /\ crc => /\ Len(laid) = i + 1 /\ Item(Len(laid)).kind = "contentCrc"
                /\ Item(Len(laid)).size = BFSize /\ Item(Len(laid)).covers = frame.content
      /\ ~crc => Len(laid) = i
  BY <1>3 DEF EndFollows, Item, laid
<1>5. LengthOf(laid) = Start(Len(laid)) + Item(Len(laid)).size
  BY DEF LengthOf, Start, Item
<1>6. crc => Start(i + 1) = Start(i) + BHSize
  <2>1. ASSUME crc PROVE i \in 1..Len(laid) /\ i + 1 \in 1..Len(laid) /\ i < i + 1
    BY <1>1, <1>4, <2>1
  <2>2. QED  BY <1>3, <2>1, ItemOrder
<1>7. Start(i) \in Nat
  BY ItemOrder
<1>8. QED  BY <1>1, <1>3, <1>4, <1>5, <1>6, <1>7 DEF BHSize, BFSize

(* The header a body belongs to.                                           *)
LEMMA HeaderOfBody ==
  ASSUME Given, Item(1).kind = "header", NEW i, Body(i)
  PROVE  /\ i \in Nat /\ i - 1 \in 2..Len(laid) /\ (i - 1) + 1 = i
         /\ Item(i - 1).kind = "blockHeader" /\ ~IsEndMark(Item(i - 1))
<1>1. /\ i \in 2..Len(laid) /\ Len(laid) \in Nat
  BY ItemOrder DEF Body
<1>2. DataFollows(frame)
  BY DataItems
<1>3. frame.laid[i].item = Item(i) /\ frame.laid[i - 1].item = Item(i - 1) /\ laid = frame.laid
  BY DEF Item, laid
<1>4. i > 2 /\ Item(i - 1).kind = "blockHeader" /\ ~IsEndMark(Item(i - 1))
  BY <1>1, <1>2, <1>3 DEF DataFollows, Body
<1>5. QED  BY <1>1, <1>4

(* What a fault says of the items, and what no fault says.                 *)
LEMMA Faults ==
  ASSUME Given, Item(1).kind = "header"
  PROVE  LET max == GetBlockSize(Item(1).info.blockSizeID)
             seed == IF frame.dictionary THEN DictLength ELSE 0 IN
         /\ Item(1).sound <=> frame.fault # "header"
         /\ frame.fault \in {"none", "header", "block", "size", "body"}
         /\ frame.fault # "body" => \A i : Body(i) => Item(i).sound
         /\ frame.fault = "size" => Item(1).info.contentSize \notin {0, frame.content}
         /\ frame.fault = "block" =>
              \E i \in 2..Len(laid) : Item(i).kind = "blockHeader" /\ Item(i).length > max
         /\ frame.fault = "body" =>
              /\ Item(1).info.blockChecksum \/ Item(1).info.contentChecksum
              /\ \E i : Body(i) /\ ~Item(i).sound /\ Item(i).from < Item(i).to
         /\ frame.guarded =>
              /\ Item(1).info.blockChecksum
              /\ \A i : Body(i) /\ Item(i - 1).stored => Item(i).sound
         /\ frame.fault = "none" =>
              /\ Item(1).info.contentSize \in {0, frame.content}
              /\ \A i \in 2..Len(laid) : Item(i).kind = "blockHeader" => Item(i).length <= max
              /\ \A i : Body(i) => /\ Item(i).to - Item(i).from <= max
                                   /\ Item(i).reach <= Smaller(K64, seed + Item(i).base)
<1>1. FaultShows(frame)
  BY DataItems
<1>2. QED  BY <1>1, Zenon DEF FaultShows, Item, Body, laid

-----------------------------------------------------------------------------
(* Where the decoder is in the frame.                                      *)

(* Nothing wrong can have come out yet; c is not the content.              *)
Clean == frame.fault # "body" \/ (frame.guarded /\ ~lenient)
Altered(c) == \E p \in 1..Len(c) : c[p] # p
Shows(i) == Body(i) /\ ~Item(i).sound /\ Item(i).from < Item(i).to

(* What the decoder has found out when it has given content c, of the      *)
(* items before item i: how much is left, that no block was too long, what *)
(* the checksums are of, and that what was damaged has shown.              *)
Known(i, c) ==
  /\ Item(1).kind = "header" /\ Item(1).sound /\ info = Item(1).info
  /\ maxBlockSize = GetBlockSize(info.blockSizeID)
  /\ remaining = IF info.contentSize # 0 THEN info.contentSize - Len(c) ELSE 0
  /\ \A j \in 2..(i - 1) : Item(j).kind = "blockHeader" => Item(j).length <= maxBlockSize
  /\ info.blockChecksum /\ ~skip => \A j \in 2..(i - 1) : Body(j) => Item(j).sound
  /\ info.contentChecksum /\ ~skip => xxh = c
  /\ Clean => ~Altered(c)
  /\ (\E j \in 2..(i - 1) : Shows(j)) => Altered(c)

(* The block header that is item i comes next.                             *)
HeaderNext(i, c) ==
  /\ i \in 2..Len(laid) /\ Item(i).kind = "blockHeader"
  /\ Len(c) = Before(frame, i) /\ Known(i, c)

(* Inside the block whose body is item i.                                  *)
AtBody(i) == Body(i) /\ Known(i, out) /\ Len(out) >= Item(i).from

Gathering(from) == pos = from + Len(store) /\ store = Positions(from, Len(store))

AtFrameHeader ==
  /\ out = <<>> /\ remaining = 0
  /\ IF stage = "GetFrameHeader" THEN pos = 0 ELSE Gathering(0)

PastFrameHeader ==
  /\ out = <<>> /\ Item(1).kind = "header" /\ Item(1).sound /\ info = Item(1).info
  /\ maxBlockSize = GetBlockSize(info.blockSizeID)
  /\ remaining = info.contentSize /\ pos = Item(1).size

AtBlockHeader(i) ==
  /\ HeaderNext(i, out)
  /\ IF stage = "GetBlockHeader" THEN pos = Start(i) ELSE Gathering(Start(i))

(* n bytes of a stored body have been handed over.                         *)
Copied(i, n) ==
  /\ AtBody(i) /\ Item(i - 1).stored
  /\ n \in 0..Item(i).size /\ pos = Start(i) + n /\ target = Item(i).size - n
  /\ Len(out) = Item(i).from + n
  /\ info.blockChecksum /\ ~skip => blockXxh = Positions(Start(i), n)
  /\ ~Item(i).sound /\ n > 0 => Altered(out)

AtBlockCrc(i) ==
  /\ AtBody(i) /\ Item(i - 1).stored /\ info.blockChecksum
  /\ Gathering(Start(i + 1)) /\ Len(out) = Item(i).to
  /\ ~skip => blockXxh = Positions(Start(i), Item(i).size)
  /\ Shows(i) => Altered(out)

AtPacked(i) ==
  /\ AtBody(i) /\ ~Item(i - 1).stored
  /\ Len(out) = Item(i).from /\ target = Item(i).size + CrcSize
  /\ IF stage = "GetCBlock" THEN pos = Start(i) ELSE Gathering(Start(i))

HandingOver(i) == HeaderNext(i, Joined(out, tmpOut)) /\ pos = Start(i)

AtFrameEnd(i) ==
  /\ HeaderNext(i, out) /\ IsEndMark(Item(i))
  /\ IF stage = "GetSuffix" THEN pos = Start(i) + BHSize
     ELSE info.contentChecksum /\ remaining = 0 /\ Gathering(Start(i) + BHSize)

InSkippableFrame ==
  /\ Item(1).kind = "skippableMagic" /\ out = <<>>
  /\ stage = "GetSFrameSize" => pos = Word
  /\ stage = "StoreSFrameSize" =>
       pos = Len(store) /\ pos >= Word /\ \A k \in (Word + 1)..pos : store[k] = k
  /\ stage = "SkipSkippable" => pos + target = LengthOf(laid)

Where ==
  /\ stage \in {"GetFrameHeader", "StoreFrameHeader"} => AtFrameHeader
  /\ stage = "Init" => PastFrameHeader
  /\ stage \in {"GetBlockHeader", "StoreBlockHeader"} => \E i \in 2..Len(laid) : AtBlockHeader(i)
  /\ stage = "CopyDirect" => \E i \in 2..Len(laid) : \E n \in 0..Item(i).size : Copied(i, n)
  /\ stage = "GetBlockChecksum" => \E i \in 2..Len(laid) : AtBlockCrc(i)
  /\ stage \in {"GetCBlock", "StoreCBlock"} => \E i \in 2..Len(laid) : AtPacked(i)
  /\ stage = "FlushOut" => \E i \in 2..Len(laid) : HandingOver(i)
  /\ stage \in {"GetSuffix", "StoreSuffix"} => \E i \in 2..Len(laid) : AtFrameEnd(i)
  /\ stage \in {"GetSFrameSize", "StoreSFrameSize", "SkipSkippable"} => InSkippableFrame

Positioned ==
  /\ skip => lenient
  /\ pos <= LengthOf(laid)
  /\ verdict = "complete" => remaining = 0 /\ ~skip
  /\ verdict = "open" => Where

-----------------------------------------------------------------------------
(* What comes out of a pass.                                               *)

(* The decoder gets on, and what it asks for when it returns is there.     *)
Asks(h) ==
  /\ h \in Nat /\ h > 0
  /\ frame.fault = "none" /\ Item(1).kind = "header" =>
       pos' + h <= LengthOf(laid) + (IF stage' = "StoreCBlock" THEN CrcSize' ELSE 0)

GoesOn ==
  /\ Where' /\ skip' = skip
  /\ out' = out \/ \E data \in Seq(Nat) : out' = Joined(out, data)
  /\ (\E k, w : Again(k, w)) \/ (\E k, h : Stop(k, h) /\ Asks(h))

(* It refuses, and something is wrong.                                     *)
Rejects == (\E e : Fail(e)) /\ frame.fault # "none" /\ UNCHANGED skip

(* The frame is over, and all right as far as the client wants to know.    *)
Accepts ==
  /\ \E k \in Nat : Complete(k) /\ pos + k <= LengthOf(laid)
  /\ Len(out) = frame.content
  /\ frame.fault = "none" \/ (frame.fault = "body" /\ lenient)

Outcome == GoesOn \/ Rejects \/ Accepts

LEMMA PositionsType ==
  ASSUME NEW a \in Nat, NEW n \in Nat
  PROVE  /\ Positions(a, n) \in Seq(Nat) /\ Len(Positions(a, n)) = n
         /\ \A k \in 1..n : Positions(a, n)[k] = a + k
BY DEF Positions

LEMMA NothingGathered ==
  ASSUME NEW a \in Nat PROVE Positions(a, 0) = <<>>
<1>1. Positions(a, 0) \in Seq(Nat) /\ Len(Positions(a, 0)) = 0
  BY PositionsType
<1>2. QED  BY <1>1

(* What has been gathered, with the next bytes of the source, is again     *)
(* a stretch of the frame.                                                 *)
LEMMA PositionsSum ==
  ASSUME NEW a \in Nat, NEW n \in Nat, NEW k \in Nat
  PROVE  Joined(Positions(a, n), Positions(a + n, k)) = Positions(a, n + k)
<1> DEFINE s == Positions(a, n)
           t == Positions(a + n, k)
           u == Positions(a, n + k)
<1>1. a + n \in Nat /\ n + k \in Nat
  OBVIOUS
<1>2. s \in Seq(Nat) /\ Len(s) = n /\ \A j \in 1..n : s[j] = a + j
  BY PositionsType
<1>3. t \in Seq(Nat) /\ Len(t) = k /\ \A j \in 1..k : t[j] = a + n + j
  BY <1>1, PositionsType
<1>4. u \in Seq(Nat) /\ Len(u) = n + k /\ \A j \in 1..(n + k) : u[j] = a + j
  BY <1>1, PositionsType
<1> HIDE DEF s, t, u
<1>5. /\ Joined(s, t) \in Seq(Nat) /\ Len(Joined(s, t)) = n + k
      /\ \A j \in 1..(n + k) : Joined(s, t)[j] = IF j <= n THEN s[j] ELSE t[j - n]
  <2>1. /\ Joined(s, t) \in Seq(Nat) /\ Len(Joined(s, t)) = Len(s) + Len(t)
        /\ \A j \in 1..(Len(s) + Len(t)) :
             Joined(s, t)[j] = IF j <= Len(s) THEN s[j] ELSE t[j - Len(s)]
    BY ONLY <1>2, <1>3, ConcatProperties, Zenon DEF Joined
  <2>2. QED  BY <1>2, <1>3, <2>1
<1>6. ASSUME NEW j \in 1..(n + k) PROVE Joined(s, t)[j] = u[j]
  <2>1. CASE j <= n
    BY <1>2, <1>4, <1>5, <2>1
  <2>2. CASE ~(j <= n)
    <3>1. j - n \in 1..k
      BY <2>2
    <3>2. t[j - n] = a + j
      BY <1>3, <3>1
    <3>3. QED  BY <1>4, <1>5, <2>2, <3>2, Zenon
  <2>3. QED  BY <2>1, <2>2
<1>7. QED  BY <1>4, <1>5, <1>6, SeqEqual DEF s, t, u

LEMMA GatheredOn ==
  ASSUME pos \in Nat, store \in Seq(Nat), NEW a \in Nat, Gathering(a), NEW k \in Nat
  PROVE  /\ Len(Stored(k)) = Len(store) + k /\ Len(Stored(k)) \in Nat
         /\ Stored(k) = Positions(a, Len(Stored(k))) /\ pos + k = a + Len(Stored(k))
<1> DEFINE n == Len(store)
<1>1. n \in Nat /\ pos = a + n /\ store = Positions(a, n)
  BY DEF Gathering
<1> HIDE DEF n
<1>2. Src(k) = Positions(a + n, k)
  BY <1>1 DEF Src, Positions
<1>3. Stored(k) = Positions(a, n + k)
  <2>1. Joined(Positions(a, n), Positions(a + n, k)) = Positions(a, n + k)
    BY <1>1, PositionsSum
  <2>2. Stored(k) = Joined(store, Src(k))
    BY DEF Stored, Joined
  <2>3. QED  BY <1>1, <1>2, <2>1, <2>2
<1>4. n + k \in Nat /\ pos + k = a + (n + k)
  BY <1>1
<1>5. Len(Positions(a, n + k)) = n + k
  BY <1>4, PositionsType
<1>6. QED  BY <1>1, <1>3, <1>4, <1>5, Zenon DEF n

LEMMA GatheringStarts ==
  ASSUME NEW a \in Nat, pos' = a, store' = <<>> PROVE Gathering(a)'
BY NothingGathered DEF Gathering

LEMMA GatheringGoesOn ==
  ASSUME pos \in Nat, store \in Seq(Nat), NEW a \in Nat, Gathering(a), NEW k \in Nat,
         pos' = pos + k, store' = Stored(k)
  PROVE  Gathering(a)'
BY GatheredOn, Zenon DEF Gathering

(* The place a new stage goes with is the only one to show.                *)
LEMMA WhereBegins ==
  ASSUME stage' \in {"GetFrameHeader", "StoreFrameHeader"}, AtFrameHeader' PROVE Where'
BY DEF Where
LEMMA WhereInit ==
  ASSUME stage' = "Init", PastFrameHeader' PROVE Where'
BY DEF Where
LEMMA WhereBlockHeader ==
  ASSUME stage' \in {"GetBlockHeader", "StoreBlockHeader"}, laid' = laid,
         NEW i \in 2..Len(laid), AtBlockHeader(i)'
  PROVE  Where'
BY DEF Where
LEMMA WhereCopying ==
  ASSUME stage' = "CopyDirect", laid' = laid, NEW i \in 2..Len(laid),
         NEW n \in 0..Item(i).size, Copied(i, n)'
  PROVE  Where'
BY DEF Where, Item
LEMMA WhereBlockCrc ==
  ASSUME stage' = "GetBlockChecksum", laid' = laid, NEW i \in 2..Len(laid), AtBlockCrc(i)'
  PROVE  Where'
BY DEF Where
LEMMA WherePacked ==
  ASSUME stage' \in {"GetCBlock", "StoreCBlock"}, laid' = laid, NEW i \in 2..Len(laid),
         AtPacked(i)'
  PROVE  Where'
BY DEF Where
LEMMA WhereFlushing ==
  ASSUME stage' = "FlushOut", laid' = laid, NEW i \in 2..Len(laid), HandingOver(i)'
  PROVE  Where'
BY DEF Where
LEMMA WhereEnd ==
  ASSUME stage' \in {"GetSuffix", "StoreSuffix"}, laid' = laid, NEW i \in 2..Len(laid),
         AtFrameEnd(i)'
  PROVE  Where'
BY DEF Where
LEMMA WhereSkippable ==
  ASSUME stage' \in {"GetSFrameSize", "StoreSFrameSize", "SkipSkippable"}, InSkippableFrame'
  PROVE  Where'
BY DEF Where

-----------------------------------------------------------------------------
(* The frame header.                                                       *)

(* The bytes a frame starts with are seen for what they are.               *)
LEMMA BadHeaderBad ==
  ASSUME Given, NEW bytes, NEW n \in Nat, bytes = Positions(0, n), HeaderBad(bytes)
  PROVE  frame.fault # "none"
<1>1. StartsFrame(bytes)
  <2>1. 0 \in Nat
    OBVIOUS
  <2>2. Len(Positions(0, n)) = n /\ \A k \in 1..n : Positions(0, n)[k] = 0 + k
    BY <2>1, PositionsType, Zenon
  <2>3. QED  BY <2>2 DEF StartsFrame
<1>2. CASE Item(1).kind = "header" /\ ~Item(1).sound
  BY <1>2, Faults
<1>3. CASE Item(1).kind \notin {"header", "skippableMagic"}
  BY <1>3 DEF Given, FramesWellFormed, WellFormed, Item, laid
<1>4. QED  BY <1>1, <1>2, <1>3 DEF HeaderBad, Skippable, Descriptor, Item

LEMMA HeaderTaken ==
  ASSUME Given, NEW n \in Nat, n >= HeaderSizeMin, NEW bytes, bytes = Positions(0, n),
         NEW fromHeader \in BOOLEAN, DecodeHeader(bytes, fromHeader),
         fromHeader /\ Item(1).kind = "header" => n <= Item(1).size,
         out = <<>>, out' = out, remaining = 0, frame' = frame,
         pos' = IF fromHeader THEN n ELSE HeaderUsed(bytes)
  PROVE  Where'
<1>1. bytes \in Seq(Nat) /\ Len(bytes) = n /\ \A k \in 1..n : bytes[k] = k
  <2>1. 0 \in Nat
    OBVIOUS
  <2>2. /\ Positions(0, n) \in Seq(Nat) /\ Len(Positions(0, n)) = n
        /\ \A k \in 1..n : Positions(0, n)[k] = 0 + k
    BY <2>1, PositionsType, Zenon
  <2>3. QED  BY <2>2
<1>2. laid' = laid /\ Item(1)' = Item(1)
  BY DEF laid, Item
<1>3. Item(1).size \in Nat
  BY ItemOrder
<1>4. CASE Skippable(bytes)
  <2>1. /\ IF fromHeader
           THEN stage' = "StoreSFrameSize" /\ store' = bytes
           ELSE stage' = "GetSFrameSize"
        /\ Item(1).kind = "skippableMagic"
    BY <1>4 DEF DecodeHeader, Skippable, Descriptor, Item
  <2>2. n >= Word /\ HeaderUsed(bytes) = Word
    BY <1>4 DEF HeaderSizeMin, Word, HeaderUsed
  <2>3. InSkippableFrame'
    BY <1>1, <1>2, <2>1, <2>2 DEF InSkippableFrame, Word
  <2>4. QED  BY <2>1, <2>3, WhereSkippable
<1>5. CASE Descriptor(bytes)
  <2>1. ~Skippable(bytes) /\ Item(1).kind = "header"
    BY <1>5 DEF Skippable, Descriptor, Item
  <2>2. HeaderUsed(bytes) = Smaller(n, Item(1).size)
    BY <1>1, <2>1 DEF HeaderUsed, Item
  <2>3. CASE stage' = "StoreFrameHeader" /\ store' = bytes /\ UNCHANGED remaining
             /\ Len(bytes) < Item(1).size
    <3>1. pos' = n
      BY <1>1, <1>3, <2>2, <2>3 DEF Smaller
    <3>2. Gathering(0)'
      BY <1>1, <2>3, <3>1 DEF Gathering
    <3>3. AtFrameHeader'
      BY <2>3, <3>2 DEF AtFrameHeader
    <3>4. QED  BY <2>3, <3>3, WhereBegins
  <2>4. CASE /\ Len(bytes) >= Item(1).size /\ Item(1).sound
             /\ info' = Item(1).info /\ stage' = "Init"
             /\ maxBlockSize' = GetBlockSize(info'.blockSizeID)
             /\ remaining' = IF info'.contentSize # 0 THEN info'.contentSize ELSE remaining
    <3>1. pos' = Item(1).size
      BY <1>1, <1>3, <2>1, <2>2, <2>4 DEF Smaller
    <3>2. PastFrameHeader'
      BY <1>2, <2>1, <2>4, <3>1 DEF PastFrameHeader
    <3>3. QED  BY <2>4, <3>2, WhereInit
  <2>5. QED  BY <2>1, <2>3, <2>4 DEF DecodeHeader, Item
<1>6. QED  BY <1>4, <1>5 DEF DecodeHeader

(* What a header asks for is there.                                        *)
LEMMA FirstBlockHeader ==
  ASSUME Given, Item(1).kind = "header"
  PROVE  /\ Item(1).size \in HeaderSizeMin..HeaderSizeMax
         /\ Start(2) = Item(1).size /\ Item(1).size + BHSize <= LengthOf(laid)
<1>1. /\ Len(laid) >= 2 /\ Item(2).kind = "blockHeader" /\ Len(laid) \in Nat
      /\ Item(1).size \in HeaderSizeMin..HeaderSizeMax
  BY DataItems, ItemOrder
<1>2. 2 \in 2..Len(laid) /\ 1 \in 1..Len(laid) /\ 2 \in 1..Len(laid)
  BY <1>1
<1>3. Item(2).size = BHSize
  BY <1>1, <1>2, BlockItemsAt, EndItems
<1>4. Start(2) = Start(1) + Item(1).size /\ Start(1) = 0 /\ Item(1).size \in Nat
  BY <1>2, ItemOrder
<1>5. Start(2) + Item(2).size <= LengthOf(laid)
  BY <1>2, InsideFrame
<1>6. QED  BY <1>1, <1>3, <1>4, <1>5

LEMMA GetFrameHeaderOutcome ==
  ASSUME Given, DecoderInv, Positioned, GetFrameHeader PROVE Outcome
<1>1. /\ stage = "GetFrameHeader" /\ verdict = "open" /\ call.left \in Nat /\ ~Idle
  BY InvParts DEF GetFrameHeader, At, CallTyped, Settled, Idle
<1>2. pos = 0 /\ out = <<>> /\ remaining = 0
  BY <1>1 DEF Positioned, Where, AtFrameHeader
<1>3. Src(call.left) = Positions(0, call.left)
  BY <1>2 DEF Src, Positions
<1> DEFINE bytes == Src(call.left)
<1> HIDE DEF bytes
<1>4. CASE HeaderFails(bytes)
  <2>1. frame.fault # "none"
    BY <1>1, <1>3, <1>4, BadHeaderBad DEF HeaderFails, bytes
  <2>2. QED  BY <1>4, <2>1 DEF HeaderFails, Outcome, Rejects, BufferState
<1>5. CASE /\ call.left >= HeaderSizeMax /\ DecodeHeader(bytes, FALSE)
           /\ Again(HeaderUsed(bytes), 0) /\ UNCHANGED <<BufferState, out>>
  <2>1. pos' = HeaderUsed(bytes) /\ frame' = frame
    <3>1. pos' = pos + HeaderUsed(bytes) /\ frame' = frame
      BY <1>5 DEF Again, client
    <3>2. HeaderUsed(bytes) \in Nat
      <4>1. Len(bytes) = call.left /\ bytes \in Seq(Nat)
        BY <1>1, <1>2, SrcType DEF bytes
      <4>2. Len(bytes) >= HeaderSizeMin /\ Len(bytes) \in Nat
        BY <1>1, <1>5, <4>1 DEF HeaderSizeMin, HeaderSizeMax
      <4>3. FramesAssumption /\ frame \in Frames
        BY DEF Given
      <4>4. ~HeaderBad(bytes)
        BY <1>5, <4>2, <4>3, TakenIsGood, Zenon
      <4>5. QED  BY <4>1, <4>2, <4>3, <4>4, HeaderUsedType
    <3>3. QED  BY <1>2, <3>1, <3>2
  <2>2. call.left >= HeaderSizeMin
    BY <1>1, <1>5 DEF HeaderSizeMin, HeaderSizeMax
  <2>3. Where'
    BY <1>1, <1>2, <1>3, <1>5, <2>1, <2>2, HeaderTaken, Zenon DEF bytes
  <2>4. QED  BY <1>5, <2>3 DEF Outcome, GoesOn, BufferState
<1>6. CASE /\ Stop(0, HeaderSizeMin)
           /\ UNCHANGED <<stage, info, remaining, maxBlockSize, target, BufferState, out>>
  <2>1. pos' = 0
    BY <1>2, <1>6 DEF Stop
  <2>2. AtFrameHeader'
    BY <1>1, <1>2, <1>6, <2>1 DEF AtFrameHeader
  <2>3. Where'
    BY <1>1, <1>6, <2>2, WhereBegins
  <2>4. Asks(HeaderSizeMin)
    <3>1. Item(1).kind = "header" => HeaderSizeMin <= LengthOf(laid)
      BY FirstBlockHeader, InsideFrame DEF HeaderSizeMin, HeaderSizeMax, BHSize
    <3>2. stage' # "StoreCBlock"
      BY <1>1, <1>6
    <3>3. QED  BY <2>1, <3>1, <3>2, InsideFrame DEF Asks, HeaderSizeMin
  <2>5. QED  BY <1>6, <2>3, <2>4 DEF Outcome, GoesOn, BufferState
<1>7. CASE /\ store' = <<>> /\ target' = HeaderSizeMin /\ stage' = "StoreFrameHeader"
           /\ Again(0, 0)
           /\ UNCHANGED <<info, remaining, maxBlockSize, BufferState, out>>
  <2>1. pos' = 0
    BY <1>2, <1>7 DEF Again
  <2>2. AtFrameHeader'
    BY <1>2, <1>7, <2>1, GatheringStarts DEF AtFrameHeader
  <2>3. Where'
    BY <1>7, <2>2, WhereBegins
  <2>4. QED  BY <1>7, <2>3 DEF Outcome, GoesOn, BufferState
<1>8. QED  BY <1>4, <1>5, <1>6, <1>7, Zenon DEF GetFrameHeader, bytes

LEMMA StoreFrameHeaderOutcome ==
  ASSUME Given, DecoderInv, Positioned, StoreFrameHeader PROVE Outcome
<1>1. /\ stage = "StoreFrameHeader" /\ verdict = "open" /\ pos \in Nat /\ store \in Seq(Nat)
      /\ TypeOK /\ target \in Nat /\ Gathered /\ Len(store) <= target
  BY InvParts DEF StoreFrameHeader, At, CallTyped, Settled, Idle, TypeOK, Fitting, Gathered
<1>2. out = <<>> /\ remaining = 0 /\ Gathering(0)
  BY <1>1 DEF Positioned, Where, AtFrameHeader
<1> DEFINE k == Wanted
           bytes == Stored(k)
<1>3. k \in Nat /\ Len(bytes) <= target
  BY <1>1, FieldRestType DEF Wanted
<1> HIDE DEF k
<1>4. Len(bytes) \in Nat /\ bytes = Positions(0, Len(bytes)) /\ pos + k = Len(bytes)
  <2>1. 0 \in Nat
    OBVIOUS
  <2>2. /\ Len(bytes) \in Nat /\ bytes = Positions(0, Len(bytes)) /\ pos + k = 0 + Len(bytes)
    BY <1>1, <1>2, <1>3, <2>1, GatheredOn, Zenon
  <2>3. QED  BY <2>2
<1> HIDE DEF bytes
<1>9. target = HeaderSizeMin \/ (Item(1).kind = "header" /\ target = Item(1).size)
  BY <1>1 DEF Gathered, Item
<1>10. Item(1).kind = "header" =>
         /\ Item(1).size \in Nat /\ HeaderSizeMin <= Item(1).size
         /\ Item(1).size + BHSize <= LengthOf(laid)
  BY FirstBlockHeader DEF HeaderSizeMin, HeaderSizeMax
<1>5. CASE HeaderFails(bytes)
  <2>1. frame.fault # "none"
    BY <1>4, <1>5, BadHeaderBad DEF HeaderFails
  <2>2. QED  BY <1>5, <2>1 DEF HeaderFails, Outcome, Rejects, BufferState
<1>6. CASE /\ Len(bytes) >= target /\ DecodeHeader(bytes, TRUE) /\ Again(k, 0)
           /\ UNCHANGED <<BufferState, out>>
  <2>1. pos' = Len(bytes) /\ frame' = frame
    BY <1>4, <1>6 DEF Again, client
  <2>2. Item(1).kind = "header" => target <= Item(1).size
    BY <1>1, <1>9, <1>10
  <2>3. Item(1).kind = "header" => Len(bytes) <= Item(1).size
    BY <1>1, <1>3, <1>4, <1>10, <2>2
  <2>4. Len(bytes) >= HeaderSizeMin
    BY <1>1, <1>4, <1>6, <1>9, <1>10 DEF HeaderSizeMin
  <2>5. Where'
    BY <1>2, <1>4, <1>6, <2>1, <2>3, <2>4, HeaderTaken, Zenon
  <2>6. QED  BY <1>6, <2>5 DEF Outcome, GoesOn, BufferState
<1>7. CASE /\ Len(bytes) < target /\ store' = bytes /\ Stop(k, target - Len(bytes) + BHSize)
           /\ UNCHANGED <<stage, info, remaining, maxBlockSize, target, BufferState, out>>
  <2>1. pos' = Len(bytes)
    BY <1>4, <1>7 DEF Stop
  <2>2. Gathering(0)'
    BY <1>4, <1>7, <2>1 DEF Gathering
  <2>3. Where'
    BY <1>1, <1>2, <1>7, <2>2, WhereBegins DEF AtFrameHeader
  <2>4. Asks(target - Len(bytes) + BHSize)
    <3>1. Item(1).kind = "header" => target + BHSize <= LengthOf(laid)
      BY <1>1, <1>9, <1>10, InsideFrame DEF HeaderSizeMin, BHSize
    <3>2. stage' # "StoreCBlock"
      BY <1>1, <1>7
    <3>3. target - Len(bytes) + BHSize \in Nat /\ target - Len(bytes) + BHSize > 0
      BY <1>1, <1>4, <1>7 DEF BHSize
    <3>4. pos' + (target - Len(bytes) + BHSize) = target + BHSize
      BY <1>1, <1>4, <2>1 DEF BHSize
    <3> DEFINE h == target - Len(bytes) + BHSize
    <3>5. LengthOf(laid) \in Nat /\ h \in Nat /\ h > 0 /\ pos' + h = target + BHSize
      BY <3>3, <3>4, InsideFrame
    <3> HIDE DEF h
    <3>6. Asks(h)
      BY <3>1, <3>2, <3>5 DEF Asks
    <3>7. QED  BY <3>6 DEF h
  <2>5. QED  BY <1>7, <2>3, <2>4 DEF Outcome, GoesOn, BufferState
<1>8. QED  BY <1>5, <1>6, <1>7, Zenon DEF StoreFrameHeader, k, bytes

LEMMA InitFrameOutcome ==
  ASSUME Given, DecoderInv, Positioned, InitFrame PROVE Outcome
<1>1. stage = "Init" /\ verdict = "open" /\ pos \in Nat
  BY InvParts DEF InitFrame, At, CallTyped, Settled, Idle
<1>2. PastFrameHeader
  BY <1>1 DEF Positioned, Where
<1>3. /\ pos' = pos /\ frame' = frame /\ stage' = "GetBlockHeader"
      /\ xxh' = IF info.contentChecksum THEN <<>> ELSE xxh
      /\ UNCHANGED <<info, remaining, maxBlockSize, skip, out>> /\ Again(0, 0)
  BY <1>1 DEF InitFrame, Again, client
<1>4. laid' = laid
  BY <1>3 DEF laid
<1>5. 2 \in 2..Len(laid) /\ Item(2).kind = "blockHeader" /\ Before(frame, 2) = 0
  BY <1>2, DataItems, ItemOrder DEF PastFrameHeader
<1>6. Start(2) = Item(1).size
  BY <1>2, FirstBlockHeader DEF PastFrameHeader
<1>7. info.contentSize \in Nat
  BY <1>2, DataItems DEF PastFrameHeader, Infos
<1>8. Known(2, out)'
  <2>1. Len(out) = 0 /\ ~Altered(out)
    BY <1>2 DEF PastFrameHeader, Altered
  <2>2. 2..(2 - 1) = {}
    OBVIOUS
  <2>3. remaining = IF info.contentSize # 0 THEN info.contentSize - 0 ELSE 0
    BY <1>2, <1>7 DEF PastFrameHeader
  <2>4. Altered(out)' = Altered(out)
    BY <1>3 DEF Altered
  <2>5. QED  BY <1>2, <1>3, <1>4, <2>1, <2>2, <2>3, <2>4 DEF Known, PastFrameHeader, Item
<1>9. AtBlockHeader(2)'
  <2>1. Len(out) = 0
    BY <1>2 DEF PastFrameHeader
  <2>2. HeaderNext(2, out)'
    BY <1>3, <1>4, <1>5, <1>8, <2>1 DEF HeaderNext, Item, Before
  <2>3. pos' = Start(2)'
    BY <1>2, <1>3, <1>4, <1>6 DEF PastFrameHeader, Start
  <2>4. QED  BY <1>3, <2>2, <2>3 DEF AtBlockHeader
<1>10. Where'
  BY <1>3, <1>4, <1>5, <1>9, WhereBlockHeader
<1>11. QED  BY <1>3, <1>10 DEF Outcome, GoesOn

-----------------------------------------------------------------------------
(* Block headers.                                                          *)

(* What is known stays known while no content comes, and goes on with the  *)
(* items passed and the content given.                                     *)
LEMMA KnownStays ==
  ASSUME NEW i, Known(i, out),
         UNCHANGED <<info, maxBlockSize, remaining, xxh, skip, frame, lenient, out>>
  PROVE  Known(i, out)'
<1>1. laid' = laid /\ Clean' = Clean /\ Altered(out)' = Altered(out)
  BY DEF laid, Clean, Altered
<1>2. /\ \A j : Item(j)' = Item(j) /\ Body(j)' = Body(j) /\ Shows(j)' = Shows(j)
  BY <1>1 DEF Item, Body, Shows
<1>3. QED  BY <1>1, <1>2 DEF Known

LEMMA KnownOn ==
  ASSUME NEW c \in Seq(Nat), NEW d \in Seq(Nat), NEW i \in Nat, NEW j \in Nat, Known(i, c),
         UNCHANGED <<info, maxBlockSize, skip, frame, lenient>>,
         Len(c) <= Len(d), \A p \in 1..Len(c) : d[p] = c[p],
         remaining' = IF info.contentSize # 0 THEN info.contentSize - Len(d) ELSE 0,
         info.contentChecksum /\ ~skip => xxh' = d,
         Clean /\ ~Altered(c) => ~Altered(d),
         \A m \in i..(j - 1) :
           /\ Item(m).kind = "blockHeader" => Item(m).length <= maxBlockSize
           /\ info.blockChecksum /\ ~skip /\ Body(m) => Item(m).sound
           /\ Shows(m) => Altered(d)
  PROVE  Known(j, d)'
<1>1. laid' = laid /\ Clean' = Clean
  BY DEF laid, Clean
<1>2. \A m : Item(m)' = Item(m) /\ Body(m)' = Body(m) /\ Shows(m)' = Shows(m)
  BY <1>1 DEF Item, Body, Shows
<1>3. Altered(c) => Altered(d)
  <2>1. Len(c) \in Nat /\ Len(d) \in Nat
    OBVIOUS
  <2>2. QED  BY <2>1 DEF Altered
<1>4. \A m \in 2..(j - 1) : m \in 2..(i - 1) \/ m \in i..(j - 1)
  OBVIOUS
<1>5. /\ \A m \in 2..(j - 1) : Item(m).kind = "blockHeader" => Item(m).length <= maxBlockSize
      /\ info.blockChecksum /\ ~skip => \A m \in 2..(j - 1) : Body(m) => Item(m).sound
      /\ (\E m \in 2..(j - 1) : Shows(m)) => Altered(d)
  BY <1>3, <1>4 DEF Known
<1>6. Altered(d)' = Altered(d)
  BY DEF Altered
<1>7. QED  BY <1>1, <1>2, <1>5, <1>6 DEF Known

(* Past a block header, before what it announces.                          *)
LEMMA KnownHeader ==
  ASSUME Given, TypeOK, NEW i \in 2..Len(laid), Known(i, out), Item(i).kind = "blockHeader",
         Item(i).length <= maxBlockSize,
         UNCHANGED <<info, maxBlockSize, remaining, xxh, skip, frame, lenient, out>>
  PROVE  Known(i + 1, out)'
<1>1. i \in Nat /\ i + 1 \in Nat /\ i..((i + 1) - 1) = {i}
  BY ItemOrder
<1>2. laid' = laid /\ Clean' = Clean /\ Altered(out)' = Altered(out)
  BY DEF laid, Clean, Altered
<1>3. /\ \A j : Item(j)' = Item(j) /\ Body(j)' = Body(j) /\ Shows(j)' = Shows(j)
  BY <1>2 DEF Item, Body, Shows
<1>4. ~Body(i) /\ ~Shows(i)
  BY DEF Body, Shows
<1>5. \A m \in 2..((i + 1) - 1) : m \in 2..(i - 1) \/ m = i
  BY <1>1
<1>6. QED  BY <1>2, <1>3, <1>4, <1>5 DEF Known

(* After a block comes the next header, whole.                             *)
LEMMA AfterBlock ==
  ASSUME Given, Item(1).kind = "header", info = Item(1).info, NEW i \in 2..Len(laid),
         Item(i).kind = "blockHeader", ~IsEndMark(Item(i))
  PROVE  /\ Start(NextBlock(i)) = Start(i + 1) + Item(i).length + CrcSize
         /\ Start(NextBlock(i)) + BHSize <= LengthOf(laid)
         /\ Start(NextBlock(i)) \in Nat /\ Start(i + 1) \in Nat
<1>1. /\ NextBlock(i) \in 1..Len(laid) /\ i + 1 \in 1..Len(laid)
      /\ NextBlock(i) \in 2..Len(laid) /\ Item(NextBlock(i)).kind = "blockHeader"
      /\ Item(i + 1).size = Item(i).length /\ Item(i).length \in Nat
      /\ ~info.blockChecksum => Start(NextBlock(i)) = Start(i + 1) + Item(i + 1).size
      /\ info.blockChecksum => /\ Start(i + 2) = Start(i + 1) + Item(i + 1).size
                               /\ Start(NextBlock(i)) = Start(i + 2) + BFSize
  BY BlockItemsAt
<1>2. Item(NextBlock(i)).size = BHSize
  BY <1>1, BlockItemsAt, EndItems, Zenon
<1>3. Start(NextBlock(i)) \in Nat /\ Start(i + 1) \in Nat
  BY <1>1, ItemOrder
<1>4. Start(NextBlock(i)) + BHSize <= LengthOf(laid)
  BY <1>1, <1>2, InsideFrame
<1>5. QED  BY <1>1, <1>3, <1>4 DEF CrcSize, BFSize

LEMMA BlockHeaderOutcome ==
  ASSUME Given, TypeOK, NEW i \in 2..Len(laid), HeaderNext(i, out), ~Idle,
         NEW bytes, bytes = Positions(Start(i), BHSize),
         NEW k \in Nat, pos + k = Start(i) + BHSize,
         DecodeBlockHeader(bytes, k)
  PROVE  Outcome
<1>1. /\ Item(i).kind = "blockHeader" /\ Len(out) = Before(frame, i) /\ Known(i, out)
      /\ Item(1).kind = "header" /\ info = Item(1).info
      /\ maxBlockSize = GetBlockSize(info.blockSizeID)
  BY DEF HeaderNext, Known
<1>2. Item(i).size = BHSize /\ i \in 1..Len(laid) /\ i \in Nat
  BY <1>1, BlockItemsAt, EndItems, ItemOrder
<1>3. Recover(laid, bytes).item = Item(i)
  BY <1>2, Recovered DEF BHSize, Item
<1>4. Item(i).length \in Nat /\ maxBlockSize \in Nat /\ Start(i) \in Nat
  BY <1>1, <1>2, ItemOrder, Zenon DEF ItemTyped, TypeOK
<1>5. CASE /\ Item(i).length > maxBlockSize
           /\ Fail("maxBlockSizeInvalid") /\ UNCHANGED BlockState
  <2>1. frame.fault # "none"
    <3>1. frame.fault = "none" => Item(i).length <= maxBlockSize
      BY <1>1, Faults
    <3>2. QED  BY <1>4, <1>5, <3>1
  <2>2. QED  BY <1>5, <2>1 DEF Outcome, Rejects, BlockState
<1>6. ASSUME UNCHANGED <<BlockState, out>>, (\E w : Again(k, w)) \/ (\E h : Stop(k, h))
      PROVE  /\ UNCHANGED <<info, maxBlockSize, remaining, xxh, skip, frame, lenient, out>>
             /\ laid' = laid /\ pos' = Start(i) + BHSize
             /\ \A j : Item(j)' = Item(j) /\ Body(j)' = Body(j) /\ Start(j)' = Start(j)
  <2>1. UNCHANGED <<frame, lenient>> /\ pos' = pos + k
    BY <1>6 DEF Again, Stop, client
  <2>2. UNCHANGED <<info, maxBlockSize, remaining, xxh, skip, out>> /\ laid' = laid
    BY <1>6, <2>1 DEF BlockState, laid
  <2>3. QED  BY <2>1, <2>2 DEF Item, Body, Start
<1>7. CASE /\ IsEndMark(Item(i)) /\ stage' = "GetSuffix" /\ Again(k, 0)
           /\ UNCHANGED <<BlockState, out>>
  <2>1. /\ UNCHANGED <<info, maxBlockSize, remaining, xxh, skip, frame, lenient, out>>
        /\ laid' = laid /\ pos' = Start(i) + BHSize
        /\ \A j : Item(j)' = Item(j) /\ Body(j)' = Body(j) /\ Start(j)' = Start(j)
    BY <1>6, <1>7
  <2>2. Known(i, out)'
    BY <1>1, <2>1, KnownStays
  <2>3. AtFrameEnd(i)'
    BY <1>1, <1>7, <2>1, <2>2 DEF AtFrameEnd, HeaderNext, Before
  <2>4. Where'
    BY <1>7, <2>1, <2>3, WhereEnd
  <2>5. QED  BY <1>7, <2>1, <2>4 DEF Outcome, GoesOn
<1>8. ASSUME ~IsEndMark(Item(i)), Item(i).length <= maxBlockSize, UNCHANGED <<BlockState, out>>,
             (\E w : Again(k, w)) \/ (\E h : Stop(k, h))
      PROVE  /\ AtBody(i + 1)' /\ Item((i + 1) - 1) = Item(i) /\ i + 1 \in 2..Len(laid)
             /\ pos' = Start(i + 1) /\ Len(out) = Item(i + 1).from
             /\ Item(i + 1).size = Item(i).length /\ Start(i + 1) \in Nat
  <2>1. /\ UNCHANGED <<info, maxBlockSize, remaining, xxh, skip, frame, lenient, out>>
        /\ laid' = laid /\ pos' = Start(i) + BHSize
        /\ \A j : Item(j)' = Item(j) /\ Body(j)' = Body(j) /\ Start(j)' = Start(j)
    BY <1>6, <1>8
  <2>2. Known(i + 1, out)'
    BY <1>1, <1>8, <2>1, KnownHeader
  <2>3. /\ i + 1 \in 2..Len(laid) /\ Body(i + 1) /\ Item(i + 1).size = Item(i).length
        /\ Start(i + 1) = Start(i) + BHSize /\ Item(i + 1).from = Before(frame, i)
        /\ Item(i + 1).from \in Nat
    BY <1>1, <1>8, BlockItemsAt
  <2>4. Item((i + 1) - 1) = Item(i) /\ Start(i + 1) \in Nat
    <3>1. (i + 1) - 1 = i
      BY <1>2
    <3>2. QED  BY <1>4, <2>3, <3>1 DEF BHSize
  <2>5. QED  BY <1>1, <2>1, <2>2, <2>3, <2>4 DEF AtBody
<1>9. CASE /\ ~IsEndMark(Item(i)) /\ Item(i).length <= maxBlockSize /\ Item(i).stored
           /\ stage' = "CopyDirect" /\ target' = Item(i).length
           /\ blockXxh' = IF info.blockChecksum THEN <<>> ELSE blockXxh
           /\ Again(k, 0) /\ UNCHANGED <<BlockState, out>>
  <2>1. /\ UNCHANGED <<info, maxBlockSize, remaining, xxh, skip, frame, lenient, out>>
        /\ laid' = laid
        /\ \A j : Item(j)' = Item(j) /\ Body(j)' = Body(j) /\ Start(j)' = Start(j)
    BY <1>6, <1>9
  <2>2. /\ AtBody(i + 1)' /\ Item((i + 1) - 1) = Item(i) /\ i + 1 \in 2..Len(laid)
        /\ pos' = Start(i + 1) /\ Len(out) = Item(i + 1).from
        /\ Item(i + 1).size = Item(i).length /\ Start(i + 1) \in Nat
    BY <1>8, <1>9
  <2>3. Positions(Start(i + 1), 0) = <<>>
    BY <2>2, NothingGathered
  <2>4. Copied(i + 1, 0)'
    <3>1. 0 \in 0..Item(i + 1).size /\ pos' = Start(i + 1) + 0
          /\ target' = Item(i + 1).size - 0 /\ Len(out) = Item(i + 1).from + 0
      <4>1. Len(out) \in Nat
        BY DEF TypeOK
      <4>2. QED  BY <1>4, <1>9, <2>2, <4>1
    <3>2. info'.blockChecksum /\ ~skip' => blockXxh' = Positions(Start(i + 1), 0)
      BY <1>9, <2>1, <2>3
    <3>3. QED  BY <1>9, <2>1, <2>2, <3>1, <3>2 DEF Copied
  <2>5. Where'
    <3>1. 0 \in 0..Item(i + 1).size
      BY <1>4, <2>2
    <3>2. QED  BY <1>9, <2>1, <2>2, <2>4, <3>1, WhereCopying
  <2>6. QED  BY <1>9, <2>1, <2>5 DEF Outcome, GoesOn
<1>10. CASE /\ ~IsEndMark(Item(i)) /\ Item(i).length <= maxBlockSize /\ ~Item(i).stored
            /\ stage' = "GetCBlock" /\ target' = Item(i).length + CrcSize
            /\ Stop(k, BHSize + Item(i).length + CrcSize) \/ Again(k, 0)
            /\ UNCHANGED <<BlockState, out>>
  <2>1. /\ UNCHANGED <<info, maxBlockSize, remaining, xxh, skip, frame, lenient, out>>
        /\ laid' = laid
        /\ \A j : Item(j)' = Item(j) /\ Body(j)' = Body(j) /\ Start(j)' = Start(j)
    BY <1>6, <1>10
  <2>2. /\ AtBody(i + 1)' /\ Item((i + 1) - 1) = Item(i) /\ i + 1 \in 2..Len(laid)
        /\ pos' = Start(i + 1) /\ Len(out) = Item(i + 1).from
        /\ Item(i + 1).size = Item(i).length /\ Start(i + 1) \in Nat
    BY <1>8, <1>10
  <2>3. AtPacked(i + 1)'
    BY <1>10, <2>1, <2>2 DEF AtPacked, CrcSize
  <2>4. Where'
    BY <1>10, <2>1, <2>2, <2>3, WherePacked
  <2>5. Asks(BHSize + Item(i).length + CrcSize)
    <3> DEFINE h == BHSize + Item(i).length + CrcSize
    <3>1. /\ Start(NextBlock(i)) = Start(i + 1) + Item(i).length + CrcSize
          /\ Start(NextBlock(i)) + BHSize <= LengthOf(laid)
      BY <1>1, <1>10, AfterBlock
    <3>2. CrcSize \in Nat
      BY DEF CrcSize, BFSize
    <3>3. h \in Nat /\ h > 0 /\ pos' + h = Start(NextBlock(i)) + BHSize
      <4> DEFINE len == Item(i).length
                 from == Start(i + 1)
                 next == Start(NextBlock(i))
      <4>1. len \in Nat /\ from \in Nat /\ next = from + len + CrcSize /\ pos' = from
        BY <1>4, <2>2, <3>1
      <4> HIDE DEF len, from, next
      <4>2. BHSize + len + CrcSize > 0 /\ from + (BHSize + len + CrcSize) = next + BHSize
        BY <3>2, <4>1 DEF BHSize
      <4>3. BHSize + len + CrcSize \in Nat
        BY <3>2, <4>1 DEF BHSize
      <4>4. QED  BY <4>1, <4>2, <4>3 DEF len, from, next
    <3>4. LengthOf(laid) \in Nat /\ stage' # "StoreCBlock"
      BY <1>10, InsideFrame
    <3> HIDE DEF h
    <3>5. Asks(h)
      BY <3>1, <3>3, <3>4 DEF Asks
    <3>6. QED  BY <3>5 DEF h
  <2>6. QED  BY <1>10, <2>1, <2>4, <2>5 DEF Outcome, GoesOn
<1>11. \/ /\ Item(i).length > maxBlockSize
          /\ Fail("maxBlockSizeInvalid") /\ UNCHANGED BlockState
       \/ /\ IsEndMark(Item(i)) /\ stage' = "GetSuffix" /\ Again(k, 0)
          /\ UNCHANGED <<BlockState, out>>
       \/ /\ Item(i).stored /\ Item(i).length <= maxBlockSize
          /\ stage' = "CopyDirect" /\ target' = Item(i).length
          /\ blockXxh' = IF info.blockChecksum THEN <<>> ELSE blockXxh
          /\ Again(k, 0) /\ UNCHANGED <<BlockState, out>>
       \/ /\ ~Item(i).stored /\ Item(i).length \in 1..maxBlockSize
          /\ stage' = "GetCBlock" /\ target' = Item(i).length + CrcSize
          /\ Stop(k, BHSize + Item(i).length + CrcSize) \/ Again(k, 0)
          /\ UNCHANGED <<BlockState, out>>
  BY <1>1, <1>3 DEF DecodeBlockHeader, IsEndMark
<1>12. /\ Item(i).stored => ~IsEndMark(Item(i))
       /\ Item(i).length \in 1..maxBlockSize => ~IsEndMark(Item(i)) /\ Item(i).length <= maxBlockSize
  BY <1>4 DEF IsEndMark
<1>13. QED  BY <1>5, <1>7, <1>9, <1>10, <1>11, <1>12

(* Gathering a field: what is there after it, when it is not whole yet.    *)
LEMMA BlockHeaderPassOutcome ==
  ASSUME Given, DecoderInv, Positioned, GetBlockHeader \/ StoreBlockHeader PROVE Outcome
<1>1. /\ stage \in {"GetBlockHeader", "StoreBlockHeader"} /\ verdict = "open" /\ pos \in Nat
      /\ store \in Seq(Nat) /\ TypeOK /\ Gathered /\ ~Idle
  BY InvParts DEF GetBlockHeader, StoreBlockHeader, At, CallTyped, Settled, Idle, TypeOK, Fitting
<1>2. PICK i \in 2..Len(laid) : AtBlockHeader(i)
  BY <1>1 DEF Positioned, Where
<1>3. HeaderNext(i, out) /\ Start(i) \in Nat /\ Start(i) + BHSize <= LengthOf(laid)
  <2>1. HeaderNext(i, out) /\ i \in 1..Len(laid)
    BY <1>2, ItemOrder DEF AtBlockHeader
  <2>2. Item(i).size = BHSize
    BY <2>1, BlockItemsAt, EndItems DEF HeaderNext, Known
  <2>3. QED  BY <2>1, <2>2, ItemOrder, InsideFrame
<1>4. ASSUME stage' = "StoreBlockHeader", UNCHANGED <<BlockState, out>>, Gathering(Start(i))',
             (\E k, w : Again(k, w)) \/ (\E k, h : Stop(k, h))
      PROVE  Where'
  <2>1. /\ UNCHANGED <<info, maxBlockSize, remaining, xxh, skip, frame, lenient, out>>
        /\ laid' = laid
    BY <1>4 DEF Again, Stop, client, BlockState, laid
  <2>2. Known(i, out)'
    BY <1>3, <2>1, KnownStays DEF HeaderNext
  <2>3. AtBlockHeader(i)'
    BY <1>3, <1>4, <2>1, <2>2 DEF AtBlockHeader, HeaderNext, Before, Item, Start
  <2>4. QED  BY <1>4, <2>1, <2>3, WhereBlockHeader
<1>5. CASE GetBlockHeader
  <2>1. pos = Start(i)
    BY <1>2, <1>5 DEF AtBlockHeader, GetBlockHeader, At
  <2>2. CASE DecodeBlockHeader(Src(BHSize), BHSize)
    <3>1. Src(BHSize) = Positions(Start(i), BHSize) /\ BHSize \in Nat
      BY <2>1 DEF Src, Positions, BHSize
    <3>2. QED  BY <1>1, <1>3, <2>1, <2>2, <3>1, BlockHeaderOutcome
  <2>3. CASE /\ store' = <<>> /\ stage' = "StoreBlockHeader" /\ Again(0, 0)
             /\ UNCHANGED <<target, blockXxh, BlockState, out>>
    <3>1. pos' = Start(i) /\ laid' = laid
      BY <1>3, <2>1, <2>3 DEF Again, client, laid
    <3>2. Gathering(Start(i))'
      <4>1. Start(i)' = Start(i)
        BY <3>1 DEF Start
      <4>2. Positions(Start(i), 0) = <<>>
        BY <1>3, NothingGathered
      <4>3. QED  BY <1>3, <2>3, <3>1, <4>1, <4>2 DEF Gathering
    <3>3. QED  BY <1>4, <2>3, <3>2 DEF Outcome, GoesOn, BlockState
  <2>4. QED  BY <1>5, <2>2, <2>3 DEF GetBlockHeader
<1>6. CASE StoreBlockHeader
  <2>1. stage = "StoreBlockHeader" /\ Gathering(Start(i)) /\ Len(store) <= BHSize
    BY <1>1, <1>2, <1>6 DEF AtBlockHeader, StoreBlockHeader, At, Gathered
  <2> DEFINE k == FieldRest(BHSize)
             bytes == Stored(k)
  <2>2. k \in Nat /\ Len(bytes) <= BHSize
    BY <1>1, <2>1, FieldRestType DEF BHSize
  <2> HIDE DEF k
  <2>3. /\ Len(bytes) \in Nat /\ bytes = Positions(Start(i), Len(bytes))
        /\ pos + k = Start(i) + Len(bytes)
    BY <1>1, <1>3, <2>1, <2>2, GatheredOn, Zenon
  <2> HIDE DEF bytes
  <2>4. CASE Len(bytes) >= BHSize /\ DecodeBlockHeader(bytes, k)
    <3> DEFINE len == Len(bytes)
    <3>0. len \in Nat /\ len <= 4 /\ len >= 4
      BY <2>2, <2>3, <2>4 DEF BHSize
    <3> HIDE DEF len
    <3>1. Len(bytes) = BHSize
      <4>1. len = 4
        BY <3>0
      <4>2. QED  BY <4>1 DEF len, BHSize
    <3>2. QED  BY <1>1, <1>3, <2>2, <2>3, <2>4, <3>1, BlockHeaderOutcome
  <2>5. CASE /\ store' = bytes /\ Len(bytes) < BHSize /\ Stop(k, BHSize - Len(bytes))
             /\ UNCHANGED <<stage, target, blockXxh, BlockState, out>>
    <3>1. pos' = Start(i) + Len(bytes) /\ laid' = laid
      BY <2>3, <2>5 DEF Stop, client, laid
    <3>2. Gathering(Start(i))'
      BY <2>3, <2>5, <3>1 DEF Gathering, Start
    <3>3. Asks(BHSize - Len(bytes))
      <4>1. BHSize - Len(bytes) \in Nat /\ BHSize - Len(bytes) > 0
        BY <2>3, <2>5 DEF BHSize
      <4>2. pos' + (BHSize - Len(bytes)) <= LengthOf(laid)
        BY <1>3, <2>3, <3>1 DEF BHSize
      <4>3. stage' # "StoreCBlock"
        BY <2>1, <2>5
      <4>4. QED  BY <4>1, <4>2, <4>3, InsideFrame DEF Asks
    <3>4. QED  BY <1>4, <2>1, <2>5, <3>2, <3>3 DEF Outcome, GoesOn, BlockState
  <2>6. QED  BY <1>6, <2>4, <2>5 DEF StoreBlockHeader, k, bytes
<1>7. QED  BY <1>5, <1>6

-----------------------------------------------------------------------------
(* Blocks.                                                                 *)

(* The block header after the body that is item i.                         *)
After(i) == IF info.blockChecksum THEN i + 2 ELSE i + 1

LEMMA BodyPlace ==
  ASSUME Given, Item(1).kind = "header", info = Item(1).info, NEW i, Body(i)
  PROVE  /\ i \in Nat /\ i \in 2..Len(laid)
         /\ Item(i).size \in Nat /\ Start(i) \in Nat
         /\ Item(i).from \in Nat /\ Item(i).to \in Nat /\ Item(i).from <= Item(i).to
         /\ Item(i).reach \in Nat /\ Item(i).base = IF info.linked THEN Item(i).from ELSE 0
         /\ Item(i - 1).stored => Item(i).to - Item(i).from = Item(i).size
         /\ After(i) \in 2..Len(laid) /\ Item(After(i)).kind = "blockHeader"
         /\ Before(frame, After(i)) = Item(i).to
         /\ Start(After(i)) = Start(i) + Item(i).size + CrcSize
         /\ Start(After(i)) + BHSize <= LengthOf(laid)
         /\ info.blockChecksum =>
              /\ i + 1 \in 1..Len(laid) /\ Item(i + 1).kind = "blockCrc"
              /\ Item(i + 1).size = BFSize /\ Item(i + 1).covers = Item(i).size
              /\ Item(i + 1).sound = Item(i).sound
              /\ Start(i + 1) = Start(i) + Item(i).size
         /\ Clean /\ Item(i - 1).stored => Item(i).sound
<1> DEFINE h == i - 1
<1>1. /\ i \in Nat /\ h \in 2..Len(laid) /\ h + 1 = i /\ h \in Nat
      /\ Item(h).kind = "blockHeader" /\ ~IsEndMark(Item(h))
  BY HeaderOfBody
<1>2. After(i) = NextBlock(h) /\ h + 2 = i + 1
  BY <1>1 DEF After, NextBlock
<1> HIDE DEF h
<1>3. i \in 2..Len(laid) /\ i \in 1..Len(laid)
  BY ItemOrder DEF Body
<1>4. Start(i) \in Nat
  BY <1>3, ItemOrder
<1>5. /\ Item(h).length \in Nat /\ Item(i).size = Item(h).length
      /\ Item(h).stored => Item(i).to - Item(i).from = Item(i).size
      /\ Item(i).from \in Nat /\ Item(i).to \in Nat /\ Item(i).from <= Item(i).to
      /\ Item(i).reach \in Nat /\ Item(i).base = IF info.linked THEN Item(i).from ELSE 0
      /\ After(i) \in 2..Len(laid) /\ Item(After(i)).kind = "blockHeader"
      /\ Before(frame, After(i)) = Item(i).to
      /\ info.blockChecksum =>
           /\ i + 1 \in 2..Len(laid) /\ Item(i + 1).kind = "blockCrc"
           /\ Item(i + 1).size = BFSize /\ Item(i + 1).covers = Item(h).length
           /\ Item(i + 1).sound = Item(i).sound
           /\ Start(i + 1) = Start(i) + Item(i).size
  BY <1>1, <1>2, BlockItemsAt
<1>6. /\ Start(After(i)) = Start(i) + Item(h).length + CrcSize
      /\ Start(After(i)) + BHSize <= LengthOf(laid)
  BY <1>1, <1>2, AfterBlock
<1>7. Clean /\ Item(h).stored => Item(i).sound
  <2>1. frame.fault # "body" => Item(i).sound
    BY Faults
  <2>2. frame.guarded /\ Item(h).stored => Item(i).sound
    BY Faults DEF h
  <2>3. QED  BY <2>1, <2>2 DEF Clean
<1>8. QED  BY <1>1, <1>3, <1>4, <1>5, <1>6, <1>7 DEF h

(* What comes out next: the content, or something else.                    *)
LEMMA Appended ==
  ASSUME NEW c \in Seq(Nat), NEW data \in Seq(Nat)
  PROVE  /\ Joined(c, data) \in Seq(Nat) /\ Len(Joined(c, data)) = Len(c) + Len(data)
         /\ Len(c) <= Len(Joined(c, data))
         /\ \A p \in 1..Len(c) : Joined(c, data)[p] = c[p]
         /\ (\A m \in 1..Len(data) : data[m] = Len(c) + m) /\ ~Altered(c) => ~Altered(Joined(c, data))
         /\ Len(data) > 0 /\ data[1] = 0 => Altered(Joined(c, data))
         /\ Altered(c) => Altered(Joined(c, data))
<1> DEFINE d == Joined(c, data)
<1>1. Len(c) \in Nat /\ Len(data) \in Nat
  OBVIOUS
<1>2. /\ d \in Seq(Nat) /\ Len(d) = Len(c) + Len(data)
      /\ \A p \in 1..(Len(c) + Len(data)) :
           d[p] = IF p <= Len(c) THEN c[p] ELSE data[p - Len(c)]
  BY ConcatProperties DEF Joined
<1> HIDE DEF d
<1>3. \A p \in 1..Len(c) : d[p] = c[p]
  BY <1>1, <1>2
<1>4. ASSUME \A m \in 1..Len(data) : data[m] = Len(c) + m, ~Altered(c) PROVE ~Altered(d)
  <2>1. SUFFICES ASSUME NEW p \in 1..Len(d) PROVE d[p] = p
    BY DEF Altered
  <2>2. p \in 1..(Len(c) + Len(data)) /\ p \in Nat
    BY <1>2
  <2>3. CASE p <= Len(c)
    <3>1. p \in 1..Len(c)
      BY <1>1, <2>2, <2>3
    <3>2. QED  BY <1>3, <1>4, <3>1 DEF Altered
  <2>4. CASE ~(p <= Len(c))
    <3>1. p - Len(c) \in 1..Len(data)
      BY <1>1, <2>2, <2>4
    <3>2. data[p - Len(c)] = Len(c) + (p - Len(c))
      BY <1>4, <3>1, Zenon
    <3>3. QED  BY <1>1, <1>2, <2>2, <2>4, <3>2
  <2>5. QED  BY <2>3, <2>4
<1>5. ASSUME Len(data) > 0, data[1] = 0 PROVE Altered(d)
  <2> DEFINE p == Len(c) + 1
  <2>1. p \in 1..(Len(c) + Len(data)) /\ p - Len(c) = 1 /\ ~(p <= Len(c)) /\ p # 0
    BY <1>1, <1>5
  <2> HIDE DEF p
  <2>2. d[p] = 0
    BY <1>2, <1>5, <2>1, Zenon
  <2>3. QED  BY <1>2, <2>1, <2>2, Zenon DEF Altered
<1>6. Altered(c) => Altered(d)
  BY <1>1, <1>2, <1>3 DEF Altered
<1>7. QED  BY <1>1, <1>2, <1>3, <1>4, <1>5, <1>6 DEF d

(* A stored block, as it is copied.                                        *)
StoredBytes(k) == [m \in 1..k |-> StoredByte(laid, pos + m)]

LEMMA StoredData ==
  ASSUME Given, TypeOK, NEW i, NEW n, Copied(i, n), NEW k \in Nat, n + k <= Item(i).size,
         NEW data, data = StoredBytes(k)
  PROVE  /\ data \in Seq(Nat) /\ Len(data) = k
         /\ Item(i).sound => \A m \in 1..k : data[m] = Len(out) + m
         /\ ~Item(i).sound => \A m \in 1..k : data[m] = 0
         /\ Joined(Positions(Start(i), n), Src(k)) = Positions(Start(i), n + k)
<1>1. /\ Item(1).kind = "header" /\ info = Item(1).info /\ Body(i)
      /\ n \in 0..Item(i).size /\ pos = Start(i) + n /\ Len(out) = Item(i).from + n
  BY DEF Copied, AtBody, Known
<1>2. /\ i \in 1..Len(laid) /\ Start(i) \in Nat /\ Item(i).size \in Nat /\ n \in Nat
      /\ Item(i).from \in Nat
  BY <1>1, BodyPlace, ItemOrder DEF Body
<1>3. ASSUME NEW m \in 1..k
      PROVE  /\ pos + m \in (Start(i) + 1)..(Start(i) + Item(i).size)
             /\ (pos + m) - Start(i) = n + m
  <2> DEFINE at == Start(i)
             size == Item(i).size
  <2>1. /\ at \in Nat /\ size \in Nat /\ n \in Nat /\ pos = at + n /\ n + k <= size
        /\ m \in 1..k
    BY <1>1, <1>2, <1>3
  <2> HIDE DEF at, size
  <2>2. pos + m \in (at + 1)..(at + size) /\ (pos + m) - at = n + m
    BY <2>1
  <2>3. QED  BY <2>2 DEF at, size
<1>4. ASSUME NEW m \in 1..k
      PROVE  StoredByte(laid, pos + m) = IF Item(i).sound THEN Len(out) + m ELSE 0
  <2>1. pos + m \in (Start(i) + 1)..(Start(i) + Item(i).size)
    BY <1>3
  <2>2. StoredByte(laid, pos + m) = IF Item(i).kind = "body" /\ Item(i).sound
                                    THEN Item(i).from + ((pos + m) - Start(i)) ELSE 0
    BY <1>2, <2>1, StoredAt, Zenon
  <2>3. Item(i).from + ((pos + m) - Start(i)) = Len(out) + m
    <3> DEFINE from == Item(i).from
               l == Len(out)
    <3>1. (pos + m) - Start(i) = n + m /\ from \in Nat /\ n \in Nat /\ l = from + n
      BY <1>1, <1>2, <1>3
    <3> HIDE DEF from, l
    <3>2. from + (n + m) = l + m
      BY <3>1
    <3>3. QED  BY <3>1, <3>2 DEF from, l
  <2>4. QED  BY <1>1, <2>2, <2>3 DEF Body
<1>5. \A m \in 1..k : StoredByte(laid, pos + m) \in Nat
  <2>1. Len(out) \in Nat
    BY DEF TypeOK
  <2>2. QED  BY <1>4, <2>1
<1>6. data \in Seq(Nat) /\ Len(data) = k /\ \A m \in 1..k : data[m] = StoredByte(laid, pos + m)
  BY <1>5 DEF StoredBytes
<1>7. Joined(Positions(Start(i), n), Src(k)) = Positions(Start(i), n + k)
  <2>1. Src(k) = Positions(Start(i) + n, k)
    BY <1>1 DEF Src, Positions
  <2> DEFINE at == Start(i)
  <2>2. at \in Nat /\ n \in Nat
    BY <1>2
  <2> HIDE DEF at
  <2>3. Joined(Positions(at, n), Positions(at + n, k)) = Positions(at, n + k)
    BY <2>2, PositionsSum
  <2>4. QED  BY <2>1, <2>3 DEF at
<1>8. QED  BY <1>4, <1>6, <1>7, Zenon

LEMMA CopyDirectOutcome ==
  ASSUME Given, DecoderInv, Positioned, CopyDirect PROVE Outcome
<1>1. /\ stage = "CopyDirect" /\ verdict = "open" /\ TypeOK /\ ~Idle
      /\ pos \in Nat /\ target \in Nat /\ call.left \in Nat /\ call.room \in Nat
      /\ out \in Seq(Nat) /\ Len(out) \in Nat /\ remaining \in Int
  BY InvParts DEF CopyDirect, At, CallTyped, Settled, Idle, TypeOK
<1>2. PICK i \in 2..Len(laid) : \E n \in 0..Item(i).size : Copied(i, n)
  BY <1>1 DEF Positioned, Where
<1>3. PICK n \in 0..Item(i).size : Copied(i, n)
  BY <1>2
<1>4. /\ Item(1).kind = "header" /\ info = Item(1).info /\ Body(i) /\ Known(i, out)
      /\ Item(i - 1).stored /\ pos = Start(i) + n /\ target = Item(i).size - n
      /\ Len(out) = Item(i).from + n
      /\ info.blockChecksum /\ ~skip => blockXxh = Positions(Start(i), n)
      /\ ~Item(i).sound /\ n > 0 => Altered(out)
  BY <1>3 DEF Copied, AtBody, Known
<1>5. /\ i \in Nat /\ Item(i).size \in Nat /\ Start(i) \in Nat /\ n \in Nat /\ n <= Item(i).size
      /\ Item(i).from \in Nat /\ Item(i).to \in Nat
      /\ Item(i).to - Item(i).from = Item(i).size
      /\ After(i) \in 2..Len(laid) /\ Item(After(i)).kind = "blockHeader"
      /\ Before(frame, After(i)) = Item(i).to
      /\ Start(After(i)) = Start(i) + Item(i).size + CrcSize
      /\ Start(After(i)) + BHSize <= LengthOf(laid)
      /\ info.blockChecksum => Start(i + 1) = Start(i) + Item(i).size
      /\ Clean => Item(i).sound
  BY <1>3, <1>4, BodyPlace
<1> DEFINE k == Smaller(target, Smaller(call.left, call.room))
           data == [m \in 1..k |-> StoredByte(laid, pos + m)]
<1>6. k \in Nat /\ k <= target /\ n + k <= Item(i).size /\ (k = target => n + k = Item(i).size)
  <2>1. k \in Nat /\ k <= target
    BY <1>1 DEF Smaller
  <2> DEFINE size == Item(i).size
  <2>2. size \in Nat /\ n \in Nat /\ target = size - n
    BY <1>4, <1>5
  <2> HIDE DEF size, k
  <2>3. n + k <= size /\ (k = target => n + k = size)
    BY <2>1, <2>2
  <2>4. QED  BY <2>1, <2>3 DEF size
<1>7. /\ out' = Joined(out, data)
      /\ blockXxh' = IF info.blockChecksum /\ ~skip THEN Joined(blockXxh, Src(k)) ELSE blockXxh
      /\ xxh' = Hashed(data) /\ remaining' = Left(k)
      /\ IF k = target
         THEN /\ IF info.blockChecksum THEN stage' = "GetBlockChecksum" /\ store' = <<>>
                 ELSE stage' = "GetBlockHeader"
              /\ Again(k, k)
         ELSE /\ target' = target - k /\ Stop(k, target - k + CrcSize + BHSize)
              /\ UNCHANGED stage
      /\ UNCHANGED <<info, maxBlockSize, skip>>
  BY DEF CopyDirect, Joined
<1> HIDE DEF k
<1>8. /\ data \in Seq(Nat) /\ Len(data) = k
      /\ Item(i).sound => \A m \in 1..k : data[m] = Len(out) + m
      /\ ~Item(i).sound => \A m \in 1..k : data[m] = 0
      /\ Joined(Positions(Start(i), n), Src(k)) = Positions(Start(i), n + k)
  <2>1. data = StoredBytes(k)
    BY DEF StoredBytes
  <2> HIDE DEF data
  <2>2. QED  BY <1>1, <1>3, <1>6, <2>1, StoredData
<1> HIDE DEF data
<1>9. /\ pos' = Start(i) + (n + k) /\ UNCHANGED <<frame, lenient, verdict>> /\ laid' = laid
  <2>1. pos' = pos + k /\ UNCHANGED <<frame, lenient, verdict>>
    BY <1>7 DEF Again, Stop, client
  <2>2. QED  BY <1>4, <1>5, <1>6, <2>1 DEF laid
<1>10. /\ Clean' = Clean /\ CrcSize' = CrcSize
       /\ \A j : Item(j)' = Item(j) /\ Start(j)' = Start(j) /\ Body(j)' = Body(j) /\ Shows(j)' = Shows(j)
  BY <1>7, <1>9 DEF Clean, CrcSize, Item, Start, Body, Shows
<1>11. /\ out' \in Seq(Nat) /\ Len(out') = Item(i).from + (n + k) /\ Len(out) <= Len(out')
       /\ \A p \in 1..Len(out) : out'[p] = out[p]
       /\ Item(i).sound /\ ~Altered(out) => ~Altered(out')
       /\ ~Item(i).sound /\ n + k > 0 => Altered(out')
  <2>1. /\ out' \in Seq(Nat) /\ Len(out') = Len(out) + k /\ Len(out) <= Len(out')
        /\ \A p \in 1..Len(out) : out'[p] = out[p]
        /\ Item(i).sound /\ ~Altered(out) => ~Altered(out')
        /\ Altered(out) => Altered(out')
        /\ k > 0 /\ data[1] = 0 => Altered(out')
    BY <1>1, <1>7, <1>8, Appended, Zenon
  <2>2. ASSUME ~Item(i).sound, n + k > 0 PROVE Altered(out')
    <3>1. CASE n > 0
      BY <1>4, <2>1, <2>2, <3>1
    <3>2. CASE k > 0
      <4>1. 1 \in 1..k
        BY <1>6, <3>2
      <4>2. QED  BY <1>8, <2>1, <2>2, <3>2, <4>1
    <3>3. QED  BY <1>5, <1>6, <2>2, <3>1, <3>2
  <2>3. Len(out') = Item(i).from + (n + k)
    BY <1>4, <1>5, <1>6, <2>1, SMTT(30)
  <2>4. QED  BY <2>1, <2>2, <2>3
<1>12. /\ remaining' = IF info.contentSize # 0 THEN info.contentSize - Len(out') ELSE 0
       /\ info.contentChecksum /\ ~skip => xxh' = out'
  <2>1. info.contentSize \in Nat
    BY <1>4, DataItems DEF Infos
  <2>2. remaining = IF info.contentSize # 0 THEN info.contentSize - Len(out) ELSE 0
    BY <1>4 DEF Known
  <2>3. remaining' = IF info.contentSize # 0 THEN remaining - k ELSE remaining
    BY <1>7 DEF Left
  <2>4. Len(out') = Len(out) + k
    BY <1>4, <1>5, <1>6, <1>11, SMTT(30)
  <2>5. info.contentChecksum /\ ~skip => xxh = out
    BY <1>4 DEF Known
  <2>6. info.contentChecksum /\ ~skip => xxh' = Joined(xxh, data)
    BY <1>7 DEF Hashed, Joined
  <2>7. QED  BY <1>1, <1>6, <1>7, <2>1, <2>2, <2>3, <2>4, <2>5, <2>6
<1>13. ASSUME NEW j \in {i, i + 1}, j = i + 1 => n + k = Item(i).size /\ ~info.blockChecksum
       PROVE  Known(j, out)'
  <2>1. j \in Nat
    BY <1>5
  <2>2. Clean /\ ~Altered(out) => ~Altered(out')
    BY <1>5, <1>11
  <2>3. ASSUME NEW m \in i..(j - 1)
        PROVE  /\ Item(m).kind = "blockHeader" => Item(m).length <= maxBlockSize
               /\ info.blockChecksum /\ ~skip /\ Body(m) => Item(m).sound
               /\ Shows(m) => Altered(out')
    <3>1. m = i /\ j = i + 1
      BY <1>5, <1>13
    <3>2. Shows(i) => ~Item(i).sound /\ n + k > 0
      BY <1>5, <1>13, <3>1 DEF Shows
    <3>3. QED  BY <1>4, <1>11, <1>13, <3>1, <3>2 DEF Body
  <2>4. QED  BY <1>1, <1>4, <1>5, <1>7, <1>9, <1>11, <1>12, <2>1, <2>2, <2>3, KnownOn, Zenon
<1>14. Where' /\ ((\E l, w : Again(l, w)) \/ (\E l, h : Stop(l, h) /\ Asks(h)))
  <2>1. CASE k = target /\ info.blockChecksum
    <3>1. stage' = "GetBlockChecksum" /\ store' = <<>> /\ pos' = Start(i + 1)
      BY <1>5, <1>6, <1>7, <1>9, <2>1
    <3>2. Gathering(Start(i + 1))'
      <4>1. Start(i + 1) \in Nat
        BY <1>5, <2>1
      <4>2. Positions(Start(i + 1), 0) = <<>>
        BY <4>1, NothingGathered
      <4>3. QED  BY <1>10, <3>1, <4>1, <4>2 DEF Gathering
    <3>3. Len(out') = Item(i).to
      <4> DEFINE from == Item(i).from
                 to == Item(i).to
                 size == Item(i).size
      <4>1. from \in Nat /\ to \in Nat /\ to - from = size /\ n + k = size /\ Len(out') = from + (n + k)
        BY <1>5, <1>6, <1>11, <2>1
      <4> HIDE DEF from, to, size
      <4>2. Len(out') = to
        BY <4>1
      <4>3. QED  BY <4>2 DEF to
    <3>4. ~skip => blockXxh' = Positions(Start(i), Item(i).size)
      BY <1>4, <1>6, <1>7, <1>8, <2>1
    <3>5. Shows(i) => Altered(out')
      BY <1>5, <1>6, <1>11, <2>1 DEF Shows
    <3>6. AtBody(i)'
      <4>1. Known(i, out)'
        BY <1>5, <1>13
      <4>2. Len(out') >= Item(i).from
        BY <1>5, <1>6, <1>11
      <4>3. QED  BY <1>4, <1>10, <4>1, <4>2 DEF AtBody
    <3>7. Altered(out)' = Altered(out')
      BY DEF Altered
    <3>8. AtBlockCrc(i)'
      BY <1>4, <1>7, <1>10, <2>1, <3>2, <3>3, <3>4, <3>5, <3>6, <3>7, Zenon DEF AtBlockCrc
    <3>9. QED  BY <1>7, <1>9, <2>1, <3>1, <3>8, WhereBlockCrc
  <2>2. CASE k = target /\ ~info.blockChecksum
    <3>1. After(i) = i + 1 /\ CrcSize = 0
      BY <2>2 DEF After, CrcSize
    <3>2. stage' = "GetBlockHeader" /\ pos' = Start(i + 1)
      BY <1>5, <1>6, <1>7, <1>9, <2>2, <3>1
    <3>3. Known(i + 1, out)'
      BY <1>6, <1>13, <2>2
    <3>4. Len(out') = Item(i).to
      <4> DEFINE from == Item(i).from
                 to == Item(i).to
                 size == Item(i).size
      <4>1. from \in Nat /\ to \in Nat /\ to - from = size /\ n + k = size /\ Len(out') = from + (n + k)
        BY <1>5, <1>6, <1>11, <2>2
      <4> HIDE DEF from, to, size
      <4>2. Len(out') = to
        BY <4>1
      <4>3. QED  BY <4>2 DEF to
    <3>5. HeaderNext(i + 1, out)'
      BY <1>5, <1>9, <1>10, <3>1, <3>3, <3>4 DEF HeaderNext, Before
    <3>6. AtBlockHeader(i + 1)'
      BY <1>10, <3>2, <3>5 DEF AtBlockHeader
    <3>7. QED  BY <1>5, <1>7, <1>9, <2>2, <3>1, <3>2, <3>6, WhereBlockHeader
  <2>3. CASE k # target
    <3>1. PICK m \in 0..Item(i).size : m = n + k
      <4>1. n + k \in 0..Item(i).size
        BY <1>5, <1>6
      <4>2. QED  BY <4>1
    <3>2. Known(i, out)'
      BY <1>5, <1>13
    <3>3. Copied(i, m)'
      <4>1. AtBody(i)'
        <5>1. Len(out') >= Item(i).from
          BY <1>5, <1>6, <1>11, SMTT(30)
        <5>2. QED  BY <1>4, <1>10, <3>2, <5>1 DEF AtBody
      <4>2. target' = Item(i).size - m
        <5> DEFINE size == Item(i).size
        <5>1. size \in Nat /\ n \in Nat /\ target = size - n /\ target' = target - k
          BY <1>4, <1>5, <1>7, <2>3
        <5> HIDE DEF size
        <5>2. target' = size - m
          BY <1>6, <3>1, <5>1
        <5>3. QED  BY <5>2 DEF size
      <4>3. info.blockChecksum /\ ~skip => blockXxh' = Positions(Start(i), m)
        BY <1>4, <1>7, <1>8, <3>1
      <4>4. Altered(out)' = Altered(out')
        BY DEF Altered
      <4>5. /\ pos' = Start(i) + m /\ Len(out') = Item(i).from + m
            /\ ~Item(i).sound /\ m > 0 => Altered(out')
        BY <1>9, <1>11, <3>1
      <4>6. Item(i - 1)' = Item(i - 1) /\ Item(i - 1).stored /\ info' = info /\ skip' = skip
        BY <1>4, <1>7, <1>10
      <4>7. QED
        BY <1>10, <3>1, <4>1, <4>2, <4>3, <4>4, <4>5, <4>6 DEF Copied
    <3>4. Where'
      BY <1>1, <1>7, <1>9, <2>3, <3>1, <3>3, WhereCopying
    <3>5. Asks(target - k + CrcSize + BHSize)
      <4> DEFINE h == target - k + CrcSize + BHSize
                 next == Start(After(i))
      <4>1. CrcSize \in Nat
        BY DEF CrcSize, BFSize
      <4>2. target - k \in Nat
        BY <1>1, <1>6
      <4>3. h \in Nat /\ h > 0
        BY <4>1, <4>2 DEF BHSize
      <4>4. pos' + h = Start(After(i)) + BHSize
        <5> DEFINE size == Item(i).size
                   at == Start(i)
        <5>1. /\ size \in Nat /\ at \in Nat /\ n \in Nat /\ target = size - n
              /\ next = at + size + CrcSize /\ pos' = at + (n + k)
          BY <1>4, <1>5, <1>9
        <5> HIDE DEF size, at, next
        <5>2. pos' + (target - k + CrcSize + BHSize) = next + BHSize
          BY <1>6, <4>1, <5>1 DEF BHSize
        <5>3. QED  BY <5>2 DEF next
      <4>5. stage' # "StoreCBlock"
        BY <1>1, <1>7, <2>3
      <4> HIDE DEF h
      <4>6. Asks(h)
        BY <1>5, <4>3, <4>4, <4>5, InsideFrame DEF Asks
      <4>7. QED  BY <4>6 DEF h
    <3>6. QED  BY <1>7, <2>3, <3>4, <3>5
  <2>4. QED  BY <2>1, <2>2, <2>3
<1>15. QED  BY <1>7, <1>8, <1>14 DEF Outcome, GoesOn

(* A block's checksum is right exactly when the block is.                  *)
LEMMA CrcMatches ==
  ASSUME Given, Item(1).kind = "header", info = Item(1).info, NEW i, Body(i),
         info.blockChecksum, NEW bytes, bytes = Positions(Start(i + 1), BFSize),
         NEW hashed, hashed = Positions(Start(i), Item(i).size)
  PROVE  BlockCrcMatches(laid, bytes, hashed) <=> Item(i).sound
<1>1. /\ i + 1 \in 1..Len(laid) /\ Item(i + 1).kind = "blockCrc"
      /\ Item(i + 1).size = BFSize /\ Item(i + 1).covers = Item(i).size
      /\ Item(i + 1).sound = Item(i).sound
      /\ Start(i + 1) = Start(i) + Item(i).size
      /\ Start(i) \in Nat /\ Item(i).size \in Nat
  BY BodyPlace
<1>2. Recover(laid, bytes) = laid[i + 1]
  BY <1>1, Recovered DEF BFSize
<1>3. Start(i + 1) - Item(i).size = Start(i)
  BY <1>1
<1>4. laid[i + 1].item = Item(i + 1) /\ laid[i + 1].at = Start(i + 1)
  BY DEF Item, Start
<1>5. hashed = [m \in 1..Item(i + 1).covers |-> Start(i + 1) - Item(i + 1).covers + m]
  BY <1>1, <1>3 DEF Positions
<1>6. QED  BY <1>1, <1>2, <1>4, <1>5 DEF BlockCrcMatches

(* Past a block, before the next block header.                             *)
LEMMA KnownBlock ==
  ASSUME Given, NEW i, AtBody(i), NEW c \in Seq(Nat), Known(i, c), NEW d \in Seq(Nat),
         UNCHANGED <<info, maxBlockSize, skip, frame, lenient>>,
         Len(c) <= Len(d), \A p \in 1..Len(c) : d[p] = c[p],
         remaining' = IF info.contentSize # 0 THEN info.contentSize - Len(d) ELSE 0,
         info.contentChecksum /\ ~skip => xxh' = d,
         Clean /\ ~Altered(c) => ~Altered(d),
         info.blockChecksum /\ ~skip => Item(i).sound,
         Shows(i) => Altered(d), Len(d) = Item(i).to
  PROVE  HeaderNext(After(i), d)'
<1>1. /\ Item(1).kind = "header" /\ info = Item(1).info /\ Body(i)
  BY DEF AtBody, Known
<1>2. /\ i \in Nat /\ After(i) \in 2..Len(laid) /\ Item(After(i)).kind = "blockHeader"
      /\ Before(frame, After(i)) = Item(i).to
      /\ info.blockChecksum => Item(i + 1).kind = "blockCrc"
  BY <1>1, BodyPlace
<1>3. laid' = laid /\ After(i)' = After(i) /\ Item(After(i))' = Item(After(i))
  BY DEF laid, After, Item
<1>4. ASSUME NEW m \in i..(After(i) - 1)
      PROVE  /\ Item(m).kind = "blockHeader" => Item(m).length <= maxBlockSize
             /\ info.blockChecksum /\ ~skip /\ Body(m) => Item(m).sound
             /\ Shows(m) => Altered(d)
  <2>1. m = i \/ (info.blockChecksum /\ m = i + 1)
    BY <1>2, <1>4 DEF After
  <2>2. CASE m = i
    BY <1>1, <2>2 DEF Body
  <2>3. CASE info.blockChecksum /\ m = i + 1
    BY <1>2, <2>3 DEF Body, Shows
  <2>4. QED  BY <2>1, <2>2, <2>3
<1>5. After(i) \in Nat
  BY <1>2 DEF After
<1>6. Known(After(i), d)'
  <2> DEFINE j == After(i)
  <2> HIDE DEF j
  <2>1. j \in Nat /\ j = After(i) /\ j' = j
    BY <1>3, <1>5 DEF j
  <2>2. \A m \in i..(j - 1) :
           /\ Item(m).kind = "blockHeader" => Item(m).length <= maxBlockSize
           /\ info.blockChecksum /\ ~skip /\ Body(m) => Item(m).sound
           /\ Shows(m) => Altered(d)
    BY <1>4, <2>1
  <2>3. PICK m \in Nat : m = j
    BY <2>1
  <2>4. Known(m, d)'
    BY <1>2, <2>2, <2>3, KnownOn, Zenon
  <2>5. m = After(i) /\ m = After(i)'
    BY <1>3, <2>1, <2>3
  <2>6. QED  BY <2>4, <2>5 DEF Known
<1>7. QED  BY <1>2, <1>3, <1>6 DEF HeaderNext, Before

LEMMA GetBlockChecksumOutcome ==
  ASSUME Given, DecoderInv, Positioned, GetBlockChecksum PROVE Outcome
<1>1. /\ stage = "GetBlockChecksum" /\ verdict = "open" /\ TypeOK /\ ~Idle
      /\ pos \in Nat /\ store \in Seq(Nat) /\ out \in Seq(Nat) /\ Len(store) <= BFSize
  BY InvParts DEF GetBlockChecksum, At, CallTyped, Settled, Idle, TypeOK, Fitting, Gathered,
    BHSize, BFSize
<1>2. PICK i \in 2..Len(laid) : AtBlockCrc(i)
  BY <1>1 DEF Positioned, Where
<1>3. /\ Item(1).kind = "header" /\ info = Item(1).info /\ Body(i) /\ Known(i, out)
      /\ AtBody(i) /\ info.blockChecksum /\ Gathering(Start(i + 1)) /\ Len(out) = Item(i).to
      /\ ~skip => blockXxh = Positions(Start(i), Item(i).size)
      /\ Shows(i) => Altered(out)
  BY <1>2 DEF AtBlockCrc, AtBody, Known
<1>4. /\ Start(i + 1) \in Nat /\ i \in Nat /\ Start(i + 1) + BFSize = Start(After(i))
      /\ Start(After(i)) + BHSize <= LengthOf(laid) /\ After(i) \in 2..Len(laid)
  <2>1. /\ Start(i) \in Nat /\ Item(i).size \in Nat /\ Start(i + 1) = Start(i) + Item(i).size
        /\ Start(After(i)) = Start(i) + Item(i).size + CrcSize /\ i \in Nat
        /\ Start(After(i)) + BHSize <= LengthOf(laid) /\ After(i) \in 2..Len(laid)
    BY <1>3, BodyPlace
  <2>2. CrcSize = BFSize
    BY <1>3 DEF CrcSize
  <2>3. QED  BY <2>1, <2>2
<1> DEFINE k == FieldRest(BFSize)
           bytes == Stored(k)
<1>5. k \in Nat /\ Len(bytes) <= BFSize
  BY <1>1, FieldRestType DEF BFSize
<1> HIDE DEF k
<1>6. /\ Len(bytes) \in Nat /\ bytes = Positions(Start(i + 1), Len(bytes))
      /\ pos + k = Start(i + 1) + Len(bytes)
  BY <1>1, <1>3, <1>4, <1>5, GatheredOn, Zenon
<1> HIDE DEF bytes
<1>7. UNCHANGED <<info, maxBlockSize, remaining, xxh, skip, blockXxh>>
  BY DEF GetBlockChecksum, BlockState
<1>8. CASE Len(bytes) < BFSize /\ store' = bytes /\ Stop(k, 1) /\ UNCHANGED <<stage, out>>
  <2>1. /\ pos' = Start(i + 1) + Len(bytes) /\ UNCHANGED <<frame, lenient>> /\ laid' = laid
    BY <1>6, <1>8 DEF Stop, client, laid
  <2>2. Known(i, out)'
    BY <1>3, <1>7, <1>8, <2>1, KnownStays
  <2>3. /\ \A j : Item(j)' = Item(j) /\ Start(j)' = Start(j) /\ Body(j)' = Body(j)
        /\ Shows(i)' = Shows(i) /\ Altered(out)' = Altered(out)
    BY <1>8, <2>1 DEF Item, Start, Body, Shows, Altered
  <2>4. Gathering(Start(i + 1))'
    BY <1>6, <1>8, <2>1, <2>3 DEF Gathering
  <2>5. AtBody(i)'
    BY <1>3, <1>8, <2>2, <2>3 DEF AtBody
  <2>6. Item(i - 1)' = Item(i - 1) /\ Item(i - 1).stored
    BY <1>2, <2>3 DEF AtBlockCrc
  <2>7. AtBlockCrc(i)'
    BY <1>3, <1>7, <1>8, <2>3, <2>4, <2>5, <2>6 DEF AtBlockCrc
  <2>8. Where'
    BY <1>1, <1>8, <2>1, <2>7, WhereBlockCrc
  <2>9. Asks(1)
    <3>1. pos' + 1 <= LengthOf(laid)
      BY <1>4, <1>6, <1>8, <2>1, InsideFrame DEF BFSize, BHSize
    <3>2. QED  BY <1>1, <1>8, <3>1, InsideFrame DEF Asks
  <2>10. QED  BY <1>7, <1>8, <2>8, <2>9 DEF Outcome, GoesOn
<1>9. ASSUME Len(bytes) >= BFSize
      PROVE  /\ Len(bytes) = BFSize /\ bytes = Positions(Start(i + 1), BFSize)
             /\ ~skip => (BlockCrcMatches(laid, bytes, blockXxh) <=> Item(i).sound)
  <2> DEFINE held == Len(bytes)
  <2>1. Len(bytes) = BFSize
    <3>1. held \in Nat /\ held <= 4 /\ held >= 4
      BY <1>5, <1>6, <1>9 DEF BFSize
    <3> HIDE DEF held
    <3>2. held = 4
      BY <3>1
    <3>3. QED  BY <3>2 DEF held, BFSize
  <2> HIDE DEF held
  <2>2. bytes = Positions(Start(i + 1), BFSize)
    BY <1>6, <2>1
  <2>3. ASSUME ~skip PROVE BlockCrcMatches(laid, bytes, blockXxh) <=> Item(i).sound
    BY <1>3, <2>2, <2>3, CrcMatches
  <2>4. QED  BY <2>1, <2>2, <2>3
<1>10. CASE /\ Len(bytes) >= BFSize /\ (skip \/ BlockCrcMatches(laid, bytes, blockXxh))
            /\ stage' = "GetBlockHeader" /\ Again(k, 0) /\ UNCHANGED out
  <2>1. /\ pos' = Start(After(i)) /\ UNCHANGED <<frame, lenient>> /\ laid' = laid
    BY <1>4, <1>6, <1>9, <1>10 DEF Again, client, laid
  <2>2. remaining = IF info.contentSize # 0 THEN info.contentSize - Len(out) ELSE 0
    BY <1>3 DEF Known
  <2>3. info.contentChecksum /\ ~skip => xxh = out
    BY <1>3 DEF Known
  <2>4. HeaderNext(After(i), out)'
    BY <1>1, <1>3, <1>7, <1>9, <1>10, <2>1, <2>2, <2>3, KnownBlock
  <2>5. After(i)' = After(i) /\ Start(After(i))' = Start(After(i))
    BY <1>7, <2>1 DEF After, Start
  <2>6. AtBlockHeader(After(i))'
    BY <1>10, <2>1, <2>4, <2>5 DEF AtBlockHeader
  <2>7. Where'
    <3> DEFINE j == After(i)
    <3>1. j \in 2..Len(laid) /\ j' = j
      BY <1>4, <2>5
    <3> HIDE DEF j
    <3>2. AtBlockHeader(j)'
      BY <2>6, <3>1 DEF j
    <3>3. QED  BY <1>10, <2>1, <3>1, <3>2, WhereBlockHeader
  <2>8. QED  BY <1>7, <1>10, <2>7 DEF Outcome, GoesOn
<1>11. CASE /\ Len(bytes) >= BFSize /\ ~(skip \/ BlockCrcMatches(laid, bytes, blockXxh))
            /\ Fail("blockChecksumInvalid")
  <2>1. ~Item(i).sound
    BY <1>9, <1>11
  <2>2. frame.fault # "none"
    BY <1>3, <2>1, Faults
  <2>3. QED  BY <1>7, <1>11, <2>2 DEF Outcome, Rejects
<1>12. QED  BY <1>8, <1>10, <1>11 DEF GetBlockChecksum, k, bytes

(* The history: what is kept of it, numbered.                              *)
LEMMA HistoryNumbered ==
  ASSUME TypeOK, Ends(dict, Past), ~Altered(out), NEW r \in Nat, r <= Len(dict)
  PROVE  LastBytes(dict, r) = [m \in 1..r |-> (IF info.linked THEN Len(out) ELSE 0) - r + m]
<1>1. /\ Seed \in Seq(Int) /\ \A q \in 1..Len(Seed) : Seed[q] = q - Len(Seed)
  <2>1. CASE frame.dictionary
    <3>1. Seed = Dictionary /\ DictLength \in Nat
      BY <2>1, OffersNatural DEF Seed
    <3>2. Len(Dictionary) = DictLength /\ Dictionary \in Seq(Int)
      BY DictionaryType
    <3>3. \A q \in 1..DictLength : Dictionary[q] = q - DictLength
      BY DEF Dictionary
    <3>4. QED  BY <3>1, <3>2, <3>3
  <2>2. CASE ~frame.dictionary
    <3>1. Seed = <<>>
      BY <2>2 DEF Seed
    <3>2. QED  BY <3>1
  <2>3. QED  BY <2>1, <2>2
<1> DEFINE last == IF info.linked THEN Len(out) ELSE 0
           d == Len(dict)
           p == Len(Past)
<1>2. /\ dict \in Seq(Int) /\ out \in Seq(Nat) /\ Past \in Seq(Int)
      /\ d \in Nat /\ p \in Nat /\ Len(Seed) \in Nat /\ Len(out) \in Nat /\ last \in Nat
  <2>1. dict \in Seq(Int) /\ out \in Seq(Nat) /\ Past \in Seq(Int)
    BY PastType DEF TypeOK
  <2>2. QED  BY <1>1, <2>1
<1>3. \A q \in 1..Len(out) : out[q] = q
  BY DEF Altered
<1>4. /\ p = Len(Seed) + last
      /\ \A q \in 1..p : Past[q] = q - Len(Seed)
  <2>1. CASE info.linked
    <3>1. Past = Joined(Seed, out) /\ last = Len(out)
      BY <2>1 DEF Past, Joined
    <3>2. out \in Seq(Int)
      BY <1>2
    <3>3. /\ Len(Joined(Seed, out)) = Len(Seed) + Len(out)
          /\ \A q \in 1..(Len(Seed) + Len(out)) :
               Joined(Seed, out)[q] = IF q <= Len(Seed) THEN Seed[q] ELSE out[q - Len(Seed)]
      BY <1>1, <3>2, ConcatProperties DEF Joined
    <3>4. ASSUME NEW q \in 1..(Len(Seed) + Len(out)) PROVE Joined(Seed, out)[q] = q - Len(Seed)
      <4>1. CASE q <= Len(Seed)
        <5>1. q \in 1..Len(Seed)
          BY <1>2, <4>1
        <5>2. QED  BY <1>1, <3>3, <4>1, <5>1
      <4>2. CASE ~(q <= Len(Seed))
        <5>1. q - Len(Seed) \in 1..Len(out)
          BY <1>2, <4>2
        <5>2. QED  BY <1>3, <3>3, <4>2, <5>1, Zenon
      <4>3. QED  BY <4>1, <4>2
    <3>5. QED  BY <3>1, <3>3, <3>4
  <2>2. CASE ~info.linked
    <3>1. Past = Seed /\ last = 0
      BY <2>2 DEF Past
    <3>2. QED  BY <1>1, <1>2, <3>1
  <2>3. QED  BY <2>1, <2>2
<1>5. /\ d <= p /\ \A q \in 1..d : dict[q] = Past[p - d + q]
  <2>1. LastBytes(Past, d) = dict
    BY DEF Ends
  <2>2. /\ Len(LastBytes(Past, d)) = Smaller(p, d)
        /\ \A q \in 1..Len(LastBytes(Past, d)) :
             LastBytes(Past, d)[q] = Past[p - Len(LastBytes(Past, d)) + q]
    BY <1>2, LastBytesType
  <2>3. d = Smaller(p, d)
    BY <2>1, <2>2
  <2>4. d <= p
    BY <1>2, <2>3 DEF Smaller
  <2>5. QED  BY <2>1, <2>2, <2>4
<1> DEFINE e == LastBytes(dict, r)
<1>6. /\ e \in Seq(Int) /\ Len(e) = r /\ \A m \in 1..r : e[m] = dict[d - r + m]
  <2>1. /\ e \in Seq(Int) /\ Len(e) = Smaller(d, r)
        /\ \A m \in 1..Len(e) : e[m] = dict[d - Len(e) + m]
    BY <1>2, LastBytesType
  <2>2. Smaller(d, r) = r
    BY <1>2 DEF Smaller
  <2>3. QED  BY <2>1, <2>2
<1> HIDE DEF e, d, p, last
<1>7. ASSUME NEW m \in 1..r PROVE e[m] = last - r + m
  <2>0. r <= d
    BY DEF d
  <2>1. d - r + m \in 1..d
    BY <1>2, <1>7, <2>0
  <2>2. e[m] = Past[p - d + (d - r + m)]
    BY <1>5, <1>6, <2>1
  <2>3. p - d + (d - r + m) \in 1..p /\ p - d + (d - r + m) = p - r + m
    BY <1>2, <1>5, <2>0, <2>1
  <2>4. Past[p - r + m] = p - r + m - Len(Seed)
    BY <1>4, <2>3
  <2>5. QED  BY <1>2, <1>4, <2>2, <2>3, <2>4
<1>8. e = [m \in 1..r |-> last - r + m]
  <2> DEFINE f == [m \in 1..r |-> last - r + m]
  <2>1. f \in Seq(Int) /\ Len(f) = r /\ \A m \in 1..r : f[m] = last - r + m
    BY <1>2
  <2> HIDE DEF f
  <2>2. QED  BY <1>6, <1>7, <2>1, SeqEqual DEF f
<1>9. QED  BY <1>8 DEF e, last

LEMMA PositionsHead ==
  ASSUME NEW a \in Nat, NEW n \in Nat, NEW l \in Nat, n <= l, NEW s, s = Positions(a, l)
  PROVE  SubSeq(s, 1, n) = Positions(a, n)
<1> DEFINE u == Positions(a, n)
           x == SubSeq(s, 1, n)
<1>1. s \in Seq(Nat) /\ Len(s) = l /\ \A j \in 1..l : s[j] = a + j
  BY PositionsType, Zenon
<1>2. u \in Seq(Nat) /\ Len(u) = n /\ \A j \in 1..n : u[j] = a + j
  BY PositionsType, Zenon
<1>3. x \in Seq(Nat) /\ Len(x) = n /\ \A j \in 1..n : x[j] = s[j]
  BY <1>1
<1> HIDE DEF u, x
<1>4. ASSUME NEW j \in 1..n PROVE x[j] = u[j]
  <2>1. j \in 1..l
    OBVIOUS
  <2>2. QED  BY <1>1, <1>2, <1>3, <2>1
<1>5. x = u
  BY <1>2, <1>3, <1>4, SeqEqual
<1>6. QED  BY <1>5 DEF u, x

LEMMA PositionsTail ==
  ASSUME NEW a \in Nat, NEW n \in Nat, NEW k \in Nat, NEW l \in Nat, l = n + k,
         NEW e \in Nat, e = a + n, NEW m \in Nat, m = n + 1, NEW s, s = Positions(a, l)
  PROVE  SubSeq(s, m, l) = Positions(e, k)
<1>1. s \in Seq(Nat) /\ Len(s) = l /\ \A j \in 1..l : s[j] = a + j
  BY ONLY l \in Nat, a \in Nat, s = Positions(a, l), PositionsType, Zenon
<1> DEFINE v == Positions(e, k)
           y == SubSeq(s, m, l)
<1>2. v \in Seq(Nat) /\ Len(v) = k /\ \A j \in 1..k : v[j] = e + j
  BY PositionsType, Zenon
<1>3. y \in Seq(Nat) /\ Len(y) = k /\ \A j \in 1..k : y[j] = s[n + j]
  <2> DEFINE z == SubSeq(s, n + 1, n + k)
  <2>1. Len(s) = n + k /\ \A j \in 1..(n + k) : s[j] \in Nat
    BY <1>1
  <2>2. z \in Seq(Nat) /\ Len(z) = k /\ \A j \in 1..k : z[j] = s[n + j]
    BY ONLY <1>1, <2>1, n \in Nat, k \in Nat
  <2>3. y = z
    OBVIOUS
  <2> HIDE DEF y, z
  <2>4. QED  BY <2>2, <2>3
<1> HIDE DEF v, y
<1>4. ASSUME NEW j \in 1..k PROVE y[j] = v[j]
  <2>1. n + j \in 1..l /\ a + (n + j) = e + j
    OBVIOUS
  <2>2. s[n + j] = a + (n + j)
    BY <1>1, <2>1, Zenon
  <2>3. QED  BY <1>2, <1>3, <2>1, <2>2
<1>5. y = v
  BY <1>2, <1>3, <1>4, SeqEqual
<1>6. QED  BY <1>5 DEF v, y

(* What the block decoder makes of a body: the content, unless the body is *)
(* damaged or the history is not what it should be.                        *)
LEMMA DecodedData ==
  ASSUME Given, TypeOK, Ends(dict, Past), NEW i, AtBody(i), Len(out) = Item(i).from,
         NEW cap \in Nat, NEW data \in Decoded(Item(i), cap)
  PROVE  /\ data \in Seq(Nat) /\ Len(data) = Item(i).to - Item(i).from /\ Len(data) <= cap
         /\ Item(i).sound /\ ~Altered(out) => \A m \in 1..Len(data) : data[m] = Len(out) + m
         /\ ~Item(i).sound => \A m \in 1..Len(data) : data[m] = 0
<1> DEFINE body == Item(i)
           n == body.to - body.from
           history == [m \in 1..body.reach |-> body.base - body.reach + m]
           other == [m \in 1..n |-> 0]
           right == [m \in 1..n |-> body.from + m]
<1>1. /\ Item(1).kind = "header" /\ info = Item(1).info /\ Body(i)
  BY DEF AtBody, Known
<1>2. /\ body.from \in Nat /\ body.to \in Nat /\ body.from <= body.to /\ body.reach \in Nat
      /\ body.base = IF info.linked THEN body.from ELSE 0
  BY <1>1, BodyPlace
<1>3. /\ ~(n > cap) /\ ~(body.reach > Len(dict))
      /\ data = IF body.sound /\ LastBytes(dict, body.reach) = history THEN right ELSE other
  BY DEF Decoded
<1>4. n \in Nat /\ n <= cap
  <2> DEFINE from == body.from
             to == body.to
  <2>1. from \in Nat /\ to \in Nat /\ from <= to /\ ~(to - from > cap)
    BY <1>2, <1>3
  <2> HIDE DEF from, to
  <2>2. to - from \in Nat /\ to - from <= cap
    BY <2>1
  <2>3. QED  BY <2>2 DEF from, to
<1>5. ~Altered(out) => LastBytes(dict, body.reach) = history
  <2>1. body.reach <= Len(dict)
    <3>1. Len(dict) \in Nat
      BY DEF TypeOK
    <3>2. QED  BY <1>2, <1>3, <3>1
  <2>2. body.base = IF info.linked THEN Len(out) ELSE 0
    BY <1>2
  <2> DEFINE r == body.reach
             b == body.base
  <2>3. r \in Nat /\ r <= Len(dict) /\ b = (IF info.linked THEN Len(out) ELSE 0)
        /\ history = [m \in 1..r |-> b - r + m]
    BY <1>2, <2>1, <2>2
  <2> HIDE DEF r, b, history
  <2>4. ~Altered(out) => LastBytes(dict, r) = history
    BY <2>3, HistoryNumbered
  <2>5. QED  BY <2>4 DEF r
<1>6. /\ other \in Seq(Nat) /\ Len(other) = n /\ \A m \in 1..n : other[m] = 0
  <2> HIDE DEF n
  <2>1. QED  BY <1>4
<1>7. /\ right \in Seq(Nat) /\ Len(right) = n /\ \A m \in 1..n : right[m] = Len(out) + m
  <2> DEFINE from == body.from
  <2>1. from \in Nat /\ right = [m \in 1..n |-> from + m] /\ Len(out) = from
    BY <1>2
  <2> HIDE DEF from, n, right
  <2>2. QED  BY <1>4, <2>1
<1> HIDE DEF history, other, right, n
<1>8. QED  BY <1>3, <1>4, <1>5, <1>6, <1>7, Zenon DEF n

(* Nothing keeps the decoder from a block of a frame with nothing wrong.   *)
LEMMA SoundDecodes ==
  ASSUME Given, TypeOK, Ends(dict, Past), NEW i, AtBody(i), Len(out) = Item(i).from,
         frame.fault = "none", NEW cap \in Nat, maxBlockSize <= cap
  PROVE  ~Undecodable(Item(i), cap)
<1> DEFINE body == Item(i)
           n == body.to - body.from
           seed == IF frame.dictionary THEN DictLength ELSE 0
<1>1. /\ Item(1).kind = "header" /\ info = Item(1).info /\ Body(i)
      /\ maxBlockSize = GetBlockSize(info.blockSizeID) /\ maxBlockSize \in Nat
  BY DEF AtBody, Known, TypeOK
<1>2. /\ body.from \in Nat /\ body.to \in Nat /\ body.from <= body.to /\ body.reach \in Nat
      /\ body.base = IF info.linked THEN body.from ELSE 0
  BY <1>1, BodyPlace
<1>3. body.sound /\ n <= maxBlockSize /\ body.reach <= Smaller(K64, seed + body.base)
  BY <1>1, Faults
<1>4. n <= cap
  <2>1. n \in Nat
    BY <1>2
  <2> HIDE DEF n
  <2>2. QED  BY <1>1, <1>3, <2>1
<1>5. body.reach <= Len(dict)
  <2>1. /\ Seed \in Seq(Int) /\ Len(Seed) = seed /\ seed \in Nat
    <3>1. Len(Dictionary) = DictLength /\ DictLength \in Nat
      BY DictionaryType, OffersNatural
    <3>2. QED  BY <3>1, PastType DEF Seed
  <2>2. Len(Past) = seed + body.base
    <3>1. CASE info.linked
      <4>1. out \in Seq(Int)
        BY DEF TypeOK
      <4>2. Past = Seed \o out
        BY <3>1 DEF Past
      <4>3. Len(Past) = Len(Seed) + Len(out)
        BY <2>1, <4>1, <4>2, JoinedType, Zenon
      <4>4. QED  BY <1>2, <2>1, <3>1, <4>3
    <3>2. CASE ~info.linked
      BY <1>2, <2>1, <3>2 DEF Past
    <3>3. QED  BY <3>1, <3>2
  <2>3. Len(dict) >= Smaller(Len(Past), K64) /\ Len(dict) \in Nat /\ K64 \in Nat
    BY BlockUnitPositive DEF Ends, TypeOK
  <2> DEFINE r == body.reach
             p == seed + body.base
  <2>4. r \in Nat /\ p \in Nat /\ r <= Smaller(K64, p) /\ Len(dict) >= Smaller(p, K64)
    BY <1>2, <1>3, <2>1, <2>2, <2>3
  <2> HIDE DEF r, p
  <2>5. r <= Len(dict)
    BY <2>3, <2>4 DEF Smaller
  <2>6. QED  BY <2>5 DEF r
<1>6. ~(n > cap) /\ ~(body.reach > Len(dict))
  <2>1. n \in Nat /\ Len(dict) \in Nat
    BY <1>2 DEF TypeOK
  <2> HIDE DEF n
  <2>2. QED  BY <1>2, <1>4, <1>5, <2>1
<1>7. Decoded(body, cap) # {}
  BY <1>1, <1>6, Zenon DEF Decoded, Body
<1>8. QED  BY <1>3, <1>7 DEF Undecodable

LEMMA HistoryThere ==
  ASSUME TypeOK, Seeding, AskedOnce, verdict = "open", stage \in BlockStages
  PROVE  Ends(dict, Past)
<1>1. frame.dictionary => asks <= 1
  <2>1. asks \in 0..MaxAsks /\ frame \in Frames /\ MaxAsks \in Nat
    BY OffersNatural DEF TypeOK
  <2>2. frame.dictionary => MaxAsks <= 1
    BY <2>1 DEF AskedOnce
  <2>3. QED  BY <2>1, <2>2
<1>2. QED  BY <1>1 DEF Seeding

(* A gathered compressed block is its body and then its checksum.          *)
LEMMA BlockCut ==
  ASSUME NEW i, Start(i) \in Nat, Item(i).size \in Nat, CrcSize \in Nat,
         NEW block, block = Positions(Start(i), Item(i).size + CrcSize)
  PROVE  /\ SubSeq(block, 1, Item(i).size) = Positions(Start(i), Item(i).size)
         /\ SubSeq(block, Item(i).size + 1, Len(block))
              = Positions(Start(i) + Item(i).size, CrcSize)
<1>1. PICK a \in Nat : a = Start(i)
  OBVIOUS
<1>2. PICK n \in Nat : n = Item(i).size
  OBVIOUS
<1>3. PICK c \in Nat : c = CrcSize
  OBVIOUS
<1>4. PICK l \in Nat : l = n + c
  OBVIOUS
<1>5. PICK e \in Nat : e = a + n
  OBVIOUS
<1>6. PICK m \in Nat : m = n + 1
  OBVIOUS
<1>7. block = Positions(a, l)
  BY <1>1, <1>2, <1>3, <1>4
<1>8. n <= l /\ Len(block) = l
  <2>1. n <= l
    BY <1>4
  <2>2. Len(block) = l
    BY ONLY <1>7, PositionsType
  <2>3. QED  BY <2>1, <2>2
<1>9. SubSeq(block, 1, n) = Positions(a, n)
  BY ONLY <1>7, <1>8, PositionsHead
<1>10. SubSeq(block, m, l) = Positions(e, c)
  BY ONLY <1>4, <1>5, <1>6, <1>7, PositionsTail
<1>11. QED  BY <1>1, <1>2, <1>3, <1>5, <1>6, <1>8, <1>9, <1>10, Zenon

LEMMA BlockOutcome ==
  ASSUME Given, AskedOnce, DecoderInv, Seeding, Positioned, ~Idle, verdict = "open",
         stage \in {"GetCBlock", "StoreCBlock"}, NEW i \in 2..Len(laid), AtPacked(i),
         NEW block, block = Positions(Start(i), target),
         NEW k \in Nat, pos + k = Start(i) + target, DecodeCBlock(block, k)
  PROVE  Outcome
<1>1. /\ TypeOK /\ BuffersFit /\ out \in Seq(Nat) /\ Len(out) \in Nat /\ remaining \in Int
      /\ maxBlockSize \in Nat /\ maxBufferSize \in Nat /\ target \in Nat /\ pos \in Nat
      /\ target \in (CrcSize + 1)..(maxBlockSize + CrcSize) /\ maxBlockSize <= maxBufferSize
  <2>1. TypeOK /\ BuffersFit /\ Gathered
    BY InvParts DEF Fitting
  <2>2. target \in (CrcSize + 1)..(maxBlockSize + CrcSize)
    BY <2>1 DEF Gathered
  <2>3. maxBlockSize <= maxBufferSize
    BY <2>1 DEF BuffersFit
  <2>4. QED  BY <2>1, <2>2, <2>3 DEF TypeOK
<1>2. /\ Item(1).kind = "header" /\ info = Item(1).info /\ Body(i) /\ Known(i, out) /\ AtBody(i)
      /\ ~Item(i - 1).stored /\ Len(out) = Item(i).from /\ target = Item(i).size + CrcSize
  BY DEF AtPacked, AtBody, Known
<1>3. /\ i \in 1..Len(laid) /\ Item(i).size \in Nat /\ Start(i) \in Nat
      /\ Item(i).from \in Nat /\ Item(i).to \in Nat /\ Item(i).from <= Item(i).to
      /\ After(i) \in 2..Len(laid)
      /\ Start(After(i)) = Start(i) + Item(i).size + CrcSize
      /\ info.blockChecksum => Start(i + 1) = Start(i) + Item(i).size
  BY <1>2, BodyPlace, ItemOrder DEF Body
<1>4. CrcSize \in Nat /\ (info.blockChecksum => CrcSize = BFSize)
  BY DEF CrcSize, BFSize
<1>5. Ends(dict, Past)
  <2>1. stage \in BlockStages
    BY DEF BlockStages, Stages, HeaderStages
  <2>2. QED  BY <1>1, <2>1, HistoryThere
<1> DEFINE size == target - CrcSize
           direct == call.room >= maxBlockSize
           cap == IF direct THEN maxBlockSize ELSE Smaller(maxBlockSize, maxBufferSize)
           crc == SubSeq(block, size + 1, Len(block))
           intact == ~info.blockChecksum \/ skip
                     \/ BlockCrcMatches(laid, crc, SubSeq(block, 1, size))
<1>6. size = Item(i).size /\ Item(i).size > 0
  <2> DEFINE n == Item(i).size
  <2>1. n \in Nat /\ target = n + CrcSize /\ target >= CrcSize + 1
    BY <1>1, <1>2, <1>3, <1>4
  <2> HIDE DEF n
  <2>2. target - CrcSize = n /\ n > 0
    BY <1>1, <1>4, <2>1
  <2>3. QED  BY <2>2 DEF n
<1>7. cap \in Nat /\ maxBlockSize <= cap
  BY <1>1 DEF Smaller
<1>8. /\ SubSeq(block, 1, size) = Positions(Start(i), Item(i).size)
      /\ info.blockChecksum => crc = Positions(Start(i + 1), BFSize)
  <2>1. block = Positions(Start(i), Item(i).size + CrcSize)
    BY <1>2
  <2>2. /\ SubSeq(block, 1, Item(i).size) = Positions(Start(i), Item(i).size)
        /\ SubSeq(block, Item(i).size + 1, Len(block))
             = Positions(Start(i) + Item(i).size, CrcSize)
    BY <1>3, <1>4, <2>1, BlockCut, Zenon
  <2>3. QED  BY <1>3, <1>4, <1>6, <2>2, Zenon
<1>9. Recover(laid, SubSeq(block, 1, size)).item = Item(i)
  <2>1. Recover(laid, Positions(Start(i), Item(i).size)) = laid[i]
    BY <1>3, <1>6, Recovered
  <2>2. QED  BY <1>8, <2>1, Zenon DEF Item
<1>10. info.blockChecksum /\ ~skip => (intact <=> Item(i).sound)
  BY <1>2, <1>8, CrcMatches, Zenon
<1>11. /\ UNCHANGED <<info, maxBlockSize, skip>>
       /\ \/ ~intact /\ Fail("blockChecksumInvalid")
          \/ intact /\ Undecodable(Item(i), cap) /\ Fail("decompressionFailed")
          \/ /\ intact
             /\ \E data \in Decoded(Item(i), cap) :
                  /\ xxh' = Hashed(data) /\ remaining' = Left(Len(data))
                  /\ IF direct
                     THEN /\ out' = out \o data
                          /\ stage' = "GetBlockHeader" /\ Again(k, Len(data))
                     ELSE /\ tmpOut' = data /\ stage' = "FlushOut"
                          /\ Again(k, 0) /\ UNCHANGED out
  BY <1>9, Zenon DEF DecodeCBlock
<1> HIDE DEF size, direct, cap, crc, intact
<1>12. CASE ~intact /\ Fail("blockChecksumInvalid")
  <2>1. ~Item(i).sound
    BY <1>10, <1>12 DEF intact
  <2>2. frame.fault # "none"
    BY <1>2, <2>1, Faults
  <2>3. QED  BY <1>11, <1>12, <2>2 DEF Outcome, Rejects
<1>13. CASE Undecodable(Item(i), cap) /\ Fail("decompressionFailed")
  <2>1. frame.fault # "none"
    BY <1>1, <1>2, <1>5, <1>7, <1>13, SoundDecodes
  <2>2. QED  BY <1>11, <1>13, <2>1 DEF Outcome, Rejects
<1>14. CASE /\ intact
            /\ \E data \in Decoded(Item(i), cap) :
                 /\ xxh' = Hashed(data) /\ remaining' = Left(Len(data))
                 /\ IF direct
                    THEN /\ out' = out \o data
                         /\ stage' = "GetBlockHeader" /\ Again(k, Len(data))
                    ELSE /\ tmpOut' = data /\ stage' = "FlushOut"
                         /\ Again(k, 0) /\ UNCHANGED out
  <2>1. PICK data \in Decoded(Item(i), cap) :
          /\ xxh' = Hashed(data) /\ remaining' = Left(Len(data))
          /\ IF direct
             THEN /\ out' = out \o data
                  /\ stage' = "GetBlockHeader" /\ Again(k, Len(data))
             ELSE /\ tmpOut' = data /\ stage' = "FlushOut"
                  /\ Again(k, 0) /\ UNCHANGED out
    BY <1>14
  <2> DEFINE d == Joined(out, data)
  <2>2. /\ data \in Seq(Nat) /\ Len(data) = Item(i).to - Item(i).from
        /\ Item(i).sound /\ ~Altered(out) => \A m \in 1..Len(data) : data[m] = Len(out) + m
        /\ ~Item(i).sound => \A m \in 1..Len(data) : data[m] = 0
    BY <1>1, <1>2, <1>5, <1>7, DecodedData
  <2>3. /\ UNCHANGED <<frame, lenient>> /\ laid' = laid /\ pos' = Start(After(i))
    <3>1. pos' = pos + k /\ UNCHANGED <<frame, lenient>>
      BY <2>1 DEF Again, client
    <3>2. QED  BY <1>2, <1>3, <1>4, <3>1 DEF laid
  <2>4. /\ d \in Seq(Nat) /\ Len(d) = Len(out) + Len(data) /\ Len(out) <= Len(d)
        /\ \A p \in 1..Len(out) : d[p] = out[p]
        /\ (\A m \in 1..Len(data) : data[m] = Len(out) + m) /\ ~Altered(out) => ~Altered(d)
        /\ Len(data) > 0 /\ data[1] = 0 => Altered(d)
    BY <1>1, <2>2, Appended, Zenon
  <2> HIDE DEF d
  <2>5. Len(d) = Item(i).to
    BY <1>2, <1>3, <2>2, <2>4, SMTT(30)
  <2>6. Clean => Item(i).sound
    <3>1. frame.fault # "body" => Item(i).sound
      BY <1>2, Faults
    <3>2. frame.guarded => info.blockChecksum
      BY <1>2, Faults
    <3>3. skip => lenient
      BY DEF Positioned
    <3>4. QED  BY <1>10, <1>14, <3>1, <3>2, <3>3 DEF Clean
  <2>7. Shows(i) => Altered(d)
    <3>1. ASSUME Shows(i) PROVE Len(data) > 0 /\ ~Item(i).sound /\ 1 \in 1..Len(data)
      BY <1>3, <2>2, <3>1 DEF Shows
    <3>2. QED  BY <2>2, <2>4, <3>1
  <2>8. /\ remaining' = IF info.contentSize # 0 THEN info.contentSize - Len(d) ELSE 0
        /\ info.contentChecksum /\ ~skip => xxh' = d
    <3>1. /\ remaining = IF info.contentSize # 0 THEN info.contentSize - Len(out) ELSE 0
          /\ info.contentChecksum /\ ~skip => xxh = out
      BY <1>2 DEF Known
    <3>2. info.contentSize \in Nat /\ Len(data) \in Nat
      BY <1>2, <2>2, DataItems DEF Infos
    <3>3. remaining' = IF info.contentSize # 0 THEN remaining - Len(data) ELSE remaining
      BY <2>1 DEF Left
    <3>4. info.contentChecksum /\ ~skip => xxh' = Joined(xxh, data)
      BY <2>1 DEF Hashed, Joined
    <3>5. Len(d) = Len(out) + Len(data) /\ d = Joined(out, data)
      BY <2>4 DEF d
    <3>6. remaining' = IF info.contentSize # 0 THEN info.contentSize - Len(d) ELSE 0
      <4> DEFINE a == Len(out)
                 b == Len(data)
                 total == info.contentSize
      <4>1. /\ a \in Nat /\ b \in Nat /\ total \in Nat /\ Len(d) = a + b
            /\ remaining = IF total # 0 THEN total - a ELSE 0
            /\ remaining' = IF total # 0 THEN remaining - b ELSE remaining
        BY <1>1, <3>1, <3>2, <3>3, <3>5
      <4> HIDE DEF a, b, total
      <4>2. remaining' = IF total # 0 THEN total - Len(d) ELSE 0
        BY <4>1
      <4>3. QED  BY <4>2 DEF total
    <3>7. QED  BY <3>1, <3>4, <3>5, <3>6
  <2>9. info.blockChecksum /\ ~skip => Item(i).sound
    BY <1>10, <1>14
  <2>10. Clean /\ ~Altered(out) => ~Altered(d)
    BY <2>2, <2>4, <2>6
  <2>11. After(i)' = After(i) /\ Start(After(i))' = Start(After(i))
    BY <1>11, <2>3 DEF After, Start
  <2>12. CASE direct
    <3>1. out' = d /\ stage' = "GetBlockHeader"
      BY <2>1, <2>12 DEF d, Joined
    <3>2. HeaderNext(After(i), out)'
      BY <1>1, <1>2, <1>11, <2>3, <2>4, <2>5, <2>7, <2>8, <2>9, <2>10, <3>1, KnownBlock, Zenon
    <3>3. AtBlockHeader(After(i))'
      BY <2>3, <2>11, <3>1, <3>2 DEF AtBlockHeader
    <3>4. Where'
      <4> DEFINE j == After(i)
      <4>1. j \in 2..Len(laid) /\ j' = j
        BY <1>3, <2>11
      <4> HIDE DEF j
      <4>2. AtBlockHeader(j)'
        BY <3>3, <4>1 DEF j
      <4>3. QED  BY <2>3, <3>1, <4>1, <4>2, WhereBlockHeader
    <3>5. QED  BY <1>11, <2>1, <2>2, <2>12, <3>1, <3>4 DEF Outcome, GoesOn, d
  <2>13. CASE ~direct
    <3>1. tmpOut' = data /\ stage' = "FlushOut" /\ out' = out
      BY <2>1, <2>13
    <3>2. Joined(out', tmpOut') = d
      BY <3>1 DEF d
    <3>3. HeaderNext(After(i), Joined(out, tmpOut))'
      <4>1. Joined(out', tmpOut') \in Seq(Nat)
        BY <2>4, <3>2
      <4>2. QED
        BY <1>1, <1>2, <1>11, <2>3, <2>4, <2>5, <2>7, <2>8, <2>9, <2>10, <3>2, <4>1, KnownBlock, Zenon
    <3>4. HandingOver(After(i))'
      BY <2>3, <2>11, <3>3 DEF HandingOver
    <3>5. Where'
      <4> DEFINE j == After(i)
      <4>1. j \in 2..Len(laid) /\ j' = j
        BY <1>3, <2>11
      <4> HIDE DEF j
      <4>2. HandingOver(j)'
        BY <3>4, <4>1 DEF j
      <4>3. QED  BY <2>3, <3>1, <4>1, <4>2, WhereFlushing
    <3>6. QED  BY <1>11, <2>1, <2>13, <3>1, <3>5 DEF Outcome, GoesOn
  <2>14. QED  BY <2>12, <2>13
<1>15. QED  BY <1>11, <1>12, <1>13, <1>14

LEMMA BlockPassOutcome ==
  ASSUME Given, AskedOnce, DecoderInv, Seeding, Positioned, GetCBlock \/ StoreCBlock
  PROVE  Outcome
<1>1. /\ stage \in {"GetCBlock", "StoreCBlock"} /\ verdict = "open" /\ TypeOK /\ ~Idle
      /\ pos \in Nat /\ store \in Seq(Nat) /\ target \in Nat /\ maxBlockSize \in Nat
      /\ target \in (CrcSize + 1)..(maxBlockSize + CrcSize)
      /\ stage = "StoreCBlock" => Len(store) <= target
  BY InvParts, Zenon DEF GetCBlock, StoreCBlock, At, CallTyped, Settled, Idle, TypeOK, Fitting, Gathered
<1>2. PICK i \in 2..Len(laid) : AtPacked(i)
  BY <1>1 DEF Positioned, Where
<1>3. /\ Item(1).kind = "header" /\ info = Item(1).info /\ Body(i) /\ Known(i, out) /\ AtBody(i)
      /\ ~Item(i - 1).stored /\ Len(out) = Item(i).from /\ target = Item(i).size + CrcSize
  BY <1>2 DEF AtPacked, AtBody, Known
<1>4. /\ Start(i) \in Nat /\ Item(i).size \in Nat
      /\ Start(After(i)) = Start(i) + Item(i).size + CrcSize
      /\ Start(After(i)) + BHSize <= LengthOf(laid)
  BY <1>3, BodyPlace
<1>5. ASSUME stage' = "StoreCBlock", UNCHANGED <<target, BlockState, out>>, Gathering(Start(i))',
             (\E k, w : Again(k, w)) \/ (\E k, h : Stop(k, h))
      PROVE  Where'
  <2>1. /\ UNCHANGED <<info, maxBlockSize, remaining, xxh, skip, frame, lenient, out, target>>
        /\ laid' = laid
    BY <1>5 DEF Again, Stop, client, BlockState, laid
  <2>2. Known(i, out)'
    BY <1>3, <2>1, KnownStays
  <2>3. \A j : Item(j)' = Item(j) /\ Start(j)' = Start(j) /\ Body(j)' = Body(j)
    BY <2>1 DEF Item, Start, Body
  <2>4. AtBody(i)' /\ CrcSize' = CrcSize /\ Item(i - 1)' = Item(i - 1)
    BY <1>3, <2>1, <2>2, <2>3 DEF AtBody, CrcSize
  <2>5. AtPacked(i)'
    BY <1>3, <1>5, <2>1, <2>3, <2>4 DEF AtPacked
  <2>6. QED  BY <1>5, <2>1, <2>5, WherePacked
<1>6. CASE GetCBlock
  <2>1. pos = Start(i)
    BY <1>2, <1>6 DEF AtPacked, GetCBlock, At
  <2>2. CASE DecodeCBlock(Src(target), target)
    <3>1. Src(target) = Positions(Start(i), target)
      BY <2>1 DEF Src, Positions
    <3>2. pos + target = Start(i) + target
      BY <2>1
    <3>3. QED  BY <1>1, <1>2, <2>2, <3>1, <3>2, BlockOutcome
  <2>3. CASE /\ store' = <<>> /\ stage' = "StoreCBlock" /\ Again(0, 0)
             /\ UNCHANGED <<target, blockXxh, BlockState, out>>
    <3>1. pos' = Start(i) /\ laid' = laid
      BY <1>4, <2>1, <2>3 DEF Again, client, laid
    <3>2. Gathering(Start(i))'
      <4>1. Start(i)' = Start(i)
        BY <3>1 DEF Start
      <4>2. Positions(Start(i), 0) = <<>>
        BY <1>4, NothingGathered
      <4>3. QED  BY <1>4, <2>3, <3>1, <4>1, <4>2 DEF Gathering
    <3>3. QED  BY <1>5, <2>3, <3>2 DEF Outcome, GoesOn, BlockState
  <2>4. QED  BY <1>6, <2>2, <2>3 DEF GetCBlock
<1>7. CASE StoreCBlock
  <2>1. stage = "StoreCBlock" /\ Gathering(Start(i)) /\ Len(store) <= target
    BY <1>1, <1>2, <1>7 DEF AtPacked, StoreCBlock, At
  <2> DEFINE k == Wanted
             bytes == Stored(k)
  <2>2. k \in Nat /\ Len(bytes) <= target
    BY <1>1, <2>1, FieldRestType DEF Wanted
  <2> HIDE DEF k
  <2>3. /\ Len(bytes) \in Nat /\ bytes = Positions(Start(i), Len(bytes))
        /\ pos + k = Start(i) + Len(bytes)
    BY <1>1, <1>4, <2>1, <2>2, GatheredOn, Zenon
  <2> HIDE DEF bytes
  <2>4. CASE Len(bytes) >= target /\ DecodeCBlock(bytes, k)
    <3> DEFINE len == Len(bytes)
    <3>1. len \in Nat /\ len >= target /\ len <= target
      BY <2>2, <2>3, <2>4
    <3> HIDE DEF len
    <3>2. len = target
      BY <1>1, <3>1
    <3>3. bytes = Positions(Start(i), target) /\ pos + k = Start(i) + target
      BY <2>3, <3>2 DEF len
    <3>4. QED  BY <1>1, <1>2, <2>2, <2>4, <3>3, BlockOutcome
  <2>5. CASE /\ store' = bytes /\ Len(bytes) < target /\ Stop(k, HintRestOfBlock(Len(bytes)))
             /\ UNCHANGED <<stage, target, blockXxh, BlockState, out>>
    <3>1. pos' = Start(i) + Len(bytes) /\ laid' = laid
      BY <2>3, <2>5 DEF Stop, client, laid
    <3>2. Gathering(Start(i))'
      BY <2>3, <2>5, <3>1 DEF Gathering, Start
    <3>3. Asks(HintRestOfBlock(Len(bytes)))
      <4> DEFINE len == Len(bytes)
                 h == target - len + CrcSize + BHSize
                 size == Item(i).size
                 from == Start(i)
                 end == LengthOf(laid)
      <4>1. CrcSize \in Nat /\ CrcSize' = CrcSize /\ HintRestOfBlock(Len(bytes)) = h
        BY <2>5 DEF CrcSize, BFSize, BlockState, HintRestOfBlock
      <4>2. /\ len \in Nat /\ len < target /\ pos' = from + len /\ target = size + CrcSize
            /\ from \in Nat /\ size \in Nat /\ end \in Nat
            /\ from + size + CrcSize + BHSize <= end
        BY <1>3, <1>4, <2>3, <2>5, <3>1, InsideFrame
      <4> HIDE DEF len, size, from, end
      <4>3. h \in Nat /\ h > 0 /\ pos' + h <= end + CrcSize
        BY <1>1, <4>1, <4>2 DEF BHSize
      <4>4. stage' = "StoreCBlock"
        BY <2>1, <2>5
      <4> HIDE DEF h
      <4>5. Asks(h)
        BY <4>1, <4>3, <4>4 DEF Asks, end
      <4>6. QED  BY <4>1, <4>5
    <3>4. QED  BY <1>5, <2>1, <2>5, <3>2, <3>3 DEF Outcome, GoesOn, BlockState
  <2>6. QED  BY <1>7, <2>4, <2>5 DEF StoreCBlock, k, bytes
<1>8. QED  BY <1>6, <1>7

LEMMA HeaderKept ==
  ASSUME NEW i, NEW c, HeaderNext(i, c),
         UNCHANGED <<info, maxBlockSize, remaining, xxh, skip, frame, lenient>>
  PROVE  HeaderNext(i, c)'
<1>1. laid' = laid /\ Clean' = Clean /\ Altered(c)' = Altered(c)
  BY DEF laid, Clean, Altered
<1>2. /\ \A j : Item(j)' = Item(j) /\ Body(j)' = Body(j) /\ Shows(j)' = Shows(j)
  BY <1>1 DEF Item, Body, Shows
<1>3. Known(i, c)'
  BY <1>1, <1>2 DEF Known, HeaderNext
<1>4. QED  BY <1>1, <1>2, <1>3 DEF HeaderNext, Before

(* Cutting what is handed over off what is not loses nothing.              *)
LEMMA Halves ==
  ASSUME NEW s \in Seq(Nat), NEW n \in Nat, n <= Len(s)
  PROVE  Joined(SubSeq(s, 1, n), SubSeq(s, n + 1, Len(s))) = s
<1> DEFINE x == SubSeq(s, 1, n)
           y == SubSeq(s, n + 1, Len(s))
           z == Joined(x, y)
<1>1. Len(s) \in Nat
  OBVIOUS
<1>2. /\ x \in Seq(Nat) /\ Len(x) = n /\ \A j \in 1..n : x[j] = s[j]
  BY <1>1
<1>3. /\ y \in Seq(Nat) /\ Len(y) = Len(s) - n /\ \A j \in 1..(Len(s) - n) : y[j] = s[n + j]
  BY <1>1
<1> HIDE DEF x, y
<1>4. /\ z \in Seq(Nat) /\ Len(z) = Len(s)
      /\ \A j \in 1..Len(s) : z[j] = IF j <= n THEN x[j] ELSE y[j - n]
  <2>1. /\ z \in Seq(Nat) /\ Len(z) = Len(x) + Len(y)
        /\ \A j \in 1..(Len(x) + Len(y)) : z[j] = IF j <= Len(x) THEN x[j] ELSE y[j - Len(x)]
    BY <1>2, <1>3, ConcatProperties DEF Joined
  <2>2. Len(x) + Len(y) = Len(s)
    BY <1>1, <1>2, <1>3
  <2>3. QED  BY <1>2, <2>1, <2>2, Zenon
<1> HIDE DEF z
<1>5. ASSUME NEW j \in 1..Len(s) PROVE z[j] = s[j]
  <2>1. CASE j <= n
    <3>1. j \in 1..n
      BY <2>1
    <3>2. QED  BY <1>2, <1>4, <2>1, <3>1
  <2>2. CASE ~(j <= n)
    <3>1. j - n \in 1..(Len(s) - n) /\ n + (j - n) = j
      BY <1>1, <2>2
    <3>2. QED  BY <1>3, <1>4, <2>2, <3>1, Zenon
  <2>3. QED  BY <2>1, <2>2
<1>6. z = s
  BY <1>4, <1>5, SeqEqual, Zenon
<1>7. QED  BY <1>6 DEF x, y, z

LEMMA FlushOutOutcome ==
  ASSUME Given, DecoderInv, Positioned, FlushOut PROVE Outcome
<1>1. /\ stage = "FlushOut" /\ verdict = "open" /\ TypeOK /\ ~Idle /\ pos \in Nat
      /\ out \in Seq(Nat) /\ tmpOut \in Seq(Nat)
  BY InvParts DEF FlushOut, At, CallTyped, Settled, Idle, TypeOK
<1>2. PICK i \in 2..Len(laid) : HandingOver(i)
  BY <1>1 DEF Positioned, Where
<1> DEFINE n == Handed
           data == SubSeq(tmpOut, 1, n)
           rest == SubSeq(tmpOut, n + 1, Len(tmpOut))
           all == Joined(out, tmpOut)
<1>3. n \in Nat /\ n <= Len(tmpOut) /\ data \in Seq(Nat) /\ rest \in Seq(Nat)
  BY <1>1, HandedParts, Zenon
<1>4. /\ out' = Joined(out, data) /\ tmpOut' = rest
      /\ IF n = Len(tmpOut) THEN stage' = "GetBlockHeader" /\ Again(0, n)
         ELSE Stop(0, BHSize) /\ UNCHANGED stage
      /\ UNCHANGED <<info, remaining, maxBlockSize, xxh, skip>>
  BY DEF FlushOut, Joined
<1>5. Joined(out', tmpOut') = all
  <2> HIDE DEF n
  <2>1. Joined(data, rest) = tmpOut
    BY <1>1, <1>3, Halves
  <2> HIDE DEF data, rest
  <2>2. Joined(Joined(out, data), rest) = Joined(out, Joined(data, rest))
    BY <1>1, <1>3, JoinedAssociative
  <2>3. QED  BY <1>4, <2>1, <2>2
<1>6. n = Len(tmpOut) => data = tmpOut
  <2> DEFINE m == Len(tmpOut)
  <2>1. m \in Nat
    BY <1>1
  <2>2. SubSeq(tmpOut, 1, m) = tmpOut
    BY <1>1
  <2>3. QED  BY <2>2
<1> HIDE DEF n, data, rest, all
<1>7. pos' = pos /\ UNCHANGED <<frame, lenient>> /\ laid' = laid
  BY <1>1, <1>4 DEF Again, Stop, client, laid
<1>8. HeaderNext(i, all)' /\ all' = all
  <2>1. HeaderNext(i, all)
    BY <1>2 DEF HandingOver, all
  <2>2. UNCHANGED <<info, maxBlockSize, remaining, xxh, skip, frame, lenient>>
    BY <1>4, <1>7
  <2>3. all' = all
    BY <1>5 DEF all
  <2>4. QED  BY <2>1, <2>2, <2>3, HeaderKept
<1>9. Start(i) \in Nat /\ Start(i) + BHSize <= LengthOf(laid) /\ pos = Start(i) /\ Start(i)' = Start(i)
  <2>1. HeaderNext(i, all) /\ i \in 1..Len(laid) /\ pos = Start(i)
    BY <1>2, ItemOrder DEF HandingOver, all
  <2>2. Item(i).size = BHSize
    BY <2>1, BlockItemsAt, EndItems DEF HeaderNext, Known
  <2>3. QED  BY <1>7, <2>1, <2>2, ItemOrder, InsideFrame DEF Start
<1>10. CASE n = Len(tmpOut)
  <2>1. out' = all /\ stage' = "GetBlockHeader"
    BY <1>4, <1>6, <1>10 DEF all
  <2>2. HeaderNext(i, out)'
    BY <1>8, <2>1
  <2>3. AtBlockHeader(i)'
    BY <1>7, <1>9, <2>1, <2>2 DEF AtBlockHeader
  <2>4. Where'
    BY <1>7, <2>1, <2>3, WhereBlockHeader
  <2>5. QED  BY <1>3, <1>4, <1>10, <2>4 DEF Outcome, GoesOn
<1>11. CASE n # Len(tmpOut)
  <2>1. HandingOver(i)'
    BY <1>7, <1>8, <1>9 DEF HandingOver, all
  <2>2. Where'
    BY <1>1, <1>4, <1>7, <1>11, <2>1, WhereFlushing
  <2>3. Asks(BHSize)
    <3>1. stage' # "StoreCBlock" /\ pos' + BHSize <= LengthOf(laid)
      BY <1>1, <1>4, <1>7, <1>9, <1>11
    <3>2. QED  BY <3>1, InsideFrame DEF Asks, BHSize
  <2>4. QED  BY <1>3, <1>4, <1>11, <2>2, <2>3 DEF Outcome, GoesOn
<1>12. QED  BY <1>10, <1>11

-----------------------------------------------------------------------------
(* The end of a frame.                                                     *)

(* A frame whose end mark has been reached, whose declared size was right  *)
(* and whose content nobody doubts has nothing wrong with it, or nothing   *)
(* the client wants to know of.                                            *)
LEMMA Finished ==
  ASSUME Given, TypeOK, NEW i, HeaderNext(i, out), IsEndMark(Item(i)), skip => lenient,
         remaining = 0, info.contentChecksum /\ ~skip => ~Altered(out)
  PROVE  /\ Len(out) = frame.content
         /\ frame.fault = "none" \/ (frame.fault = "body" /\ lenient)
<1>1. /\ i \in 2..Len(laid) /\ Item(i).kind = "blockHeader" /\ Len(out) = Before(frame, i)
      /\ Item(1).kind = "header" /\ Item(1).sound /\ info = Item(1).info
      /\ maxBlockSize = GetBlockSize(info.blockSizeID)
      /\ remaining = IF info.contentSize # 0 THEN info.contentSize - Len(out) ELSE 0
      /\ \A j \in 2..(i - 1) : Item(j).kind = "blockHeader" => Item(j).length <= maxBlockSize
      /\ info.blockChecksum /\ ~skip => \A j \in 2..(i - 1) : Body(j) => Item(j).sound
      /\ (\E j \in 2..(i - 1) : Shows(j)) => Altered(out)
  BY DEF HeaderNext, Known
<1>2. /\ i \in Nat /\ Len(out) = frame.content
      /\ ~info.contentChecksum => Len(laid) = i
      /\ info.contentChecksum => Len(laid) = i + 1 /\ Item(i + 1).kind = "contentCrc"
  BY <1>1, EndItems
<1>3. \A j \in 2..Len(laid) :
         j \in 2..(i - 1) \/ j = i \/ (j = i + 1 /\ Item(j).kind = "contentCrc")
  BY <1>1, <1>2
<1>4. frame.fault # "block"
  <2>1. maxBlockSize \in Nat /\ Item(i).length = 0
    BY DEF TypeOK, IsEndMark
  <2>2. ASSUME NEW j \in 2..Len(laid), Item(j).kind = "blockHeader"
        PROVE  ~(Item(j).length > maxBlockSize)
    <3>1. CASE j \in 2..(i - 1)
      <4>1. Item(j).length <= maxBlockSize /\ Item(j).length \in Nat
        BY <1>1, <2>2, <3>1, ItemOrder DEF ItemTyped
      <4>2. QED  BY <2>1, <4>1
    <3>2. CASE j = i
      BY <2>1, <3>2
    <3>3. QED  BY <1>3, <2>2, <3>1, <3>2
  <2>3. QED  BY <1>1, <2>2, Faults
<1>5. frame.fault # "size"
  <2>1. info.contentSize \in Nat /\ frame.content \in Nat
    BY <1>1, <1>2, DataItems, SMTT(30) DEF Infos, TypeOK
  <2>2. info.contentSize \in {0, frame.content}
    BY <1>1, <1>2, <2>1
  <2>3. QED  BY <1>1, <2>2, Faults
<1>6. ASSUME NEW j, Body(j) PROVE j \in 2..(i - 1)
  <2>1. j \in 2..Len(laid)
    BY <1>6 DEF Body
  <2>2. QED  BY <1>1, <1>3, <1>6, <2>1 DEF Body
<1>7. frame.fault = "body" => skip
  <2>1. SUFFICES ASSUME frame.fault = "body", ~skip PROVE FALSE
    OBVIOUS
  <2>2. PICK j : Body(j) /\ ~Item(j).sound /\ Item(j).from < Item(j).to
    BY <1>1, <2>1, Faults
  <2>3. j \in 2..(i - 1) /\ Shows(j)
    BY <1>6, <2>2 DEF Shows
  <2>4. info.blockChecksum \/ info.contentChecksum
    BY <1>1, <2>1, Faults
  <2>5. CASE info.blockChecksum
    BY <1>1, <2>1, <2>2, <2>3, <2>5
  <2>6. CASE info.contentChecksum
    BY <1>1, <2>1, <2>3, <2>6
  <2>7. QED  BY <2>4, <2>5, <2>6
<1>8. frame.fault \in {"none", "header", "block", "size", "body"} /\ frame.fault # "header"
  BY <1>1, Faults
<1>9. QED  BY <1>2, <1>4, <1>5, <1>7, <1>8

LEMMA ContentCrcMeans ==
  ASSUME Given, TypeOK, NEW i, HeaderNext(i, out), IsEndMark(Item(i)), info.contentChecksum, ~skip,
         NEW bytes, bytes = Positions(Start(i) + BHSize, BFSize)
  PROVE  ContentCrcMatches(laid, bytes, xxh) <=> ~Altered(out)
<1>1. /\ i \in 2..Len(laid) /\ Item(i).kind = "blockHeader" /\ Len(out) = Before(frame, i)
      /\ Item(1).kind = "header" /\ info = Item(1).info /\ xxh = out
  BY DEF HeaderNext, Known
<1>2. /\ i + 1 \in 1..Len(laid) /\ Len(out) = frame.content
      /\ Item(i + 1).kind = "contentCrc" /\ Item(i + 1).size = BFSize
      /\ Item(i + 1).covers = frame.content /\ Start(i + 1) = Start(i) + BHSize
  BY <1>1, EndItems
<1>3. Recover(laid, bytes) = laid[i + 1]
  BY <1>2, Recovered DEF BFSize
<1>4. laid[i + 1].item = Item(i + 1)
  BY DEF Item
<1>5. ContentCrcMatches(laid, bytes, xxh) <=> out = [k \in 1..Len(out) |-> k]
  BY <1>1, <1>2, <1>3, <1>4 DEF ContentCrcMatches
<1>6. out \in Seq(Nat)
  BY DEF TypeOK
<1>7. out = [k \in 1..Len(out) |-> k] <=> \A k \in 1..Len(out) : out[k] = k
  BY <1>6
<1>8. QED  BY <1>5, <1>7 DEF Altered

LEMMA EndOutcome ==
  ASSUME Given, DecoderInv, Positioned, ~Idle, verdict = "open", NEW i, HeaderNext(i, out),
         IsEndMark(Item(i)), info.contentChecksum, remaining = 0,
         NEW bytes, bytes = Positions(Start(i) + BHSize, BFSize),
         NEW k \in Nat, pos + k = Start(i) + BHSize + BFSize, CheckContentCrc(bytes, k)
  PROVE  Outcome
<1>1. TypeOK /\ (skip => lenient)
  BY InvParts DEF Positioned
<1>2. ~skip => (ContentCrcMatches(laid, bytes, xxh) <=> ~Altered(out))
  BY <1>1, ContentCrcMeans
<1>3. CASE (skip \/ ContentCrcMatches(laid, bytes, xxh)) /\ Complete(k)
  <2>1. /\ Len(out) = frame.content
        /\ frame.fault = "none" \/ (frame.fault = "body" /\ lenient)
    BY <1>1, <1>2, <1>3, Finished
  <2>2. pos + k <= LengthOf(laid)
    <3>1. LengthOf(laid) = Start(i) + BHSize + BFSize
      BY EndItems DEF HeaderNext, Known
    <3>2. QED  BY <3>1, InsideFrame
  <2>3. QED  BY <1>3, <2>1, <2>2 DEF Outcome, Accepts
<1>4. CASE ~skip /\ ~ContentCrcMatches(laid, bytes, xxh) /\ Fail("contentChecksumInvalid")
           /\ UNCHANGED skip
  <2>1. Altered(out)
    BY <1>2, <1>4
  <2>2. frame.fault # "none"
    BY <2>1 DEF HeaderNext, Known, Clean
  <2>3. QED  BY <1>4, <2>2 DEF Outcome, Rejects
<1>5. QED  BY <1>3, <1>4 DEF CheckContentCrc

LEMMA SuffixOutcome ==
  ASSUME Given, DecoderInv, Positioned, GetSuffix \/ StoreSuffix PROVE Outcome
<1>1. /\ stage \in {"GetSuffix", "StoreSuffix"} /\ verdict = "open" /\ TypeOK /\ ~Idle
      /\ pos \in Nat /\ store \in Seq(Nat) /\ out \in Seq(Nat)
      /\ stage = "StoreSuffix" => Len(store) <= BFSize
  BY InvParts, Zenon DEF GetSuffix, StoreSuffix, At, CallTyped, Settled, Idle, TypeOK, Fitting, Gathered,
    BHSize, BFSize
<1>2. PICK i \in 2..Len(laid) : AtFrameEnd(i)
  BY <1>1 DEF Positioned, Where
<1>3. /\ HeaderNext(i, out) /\ IsEndMark(Item(i)) /\ Item(1).kind = "header" /\ info = Item(1).info
      /\ remaining = (IF info.contentSize # 0 THEN info.contentSize - Len(out) ELSE 0)
      /\ Item(i).kind = "blockHeader" /\ Len(out) = Before(frame, i)
  BY <1>2 DEF AtFrameEnd, HeaderNext, Known
<1>4. /\ Start(i) \in Nat /\ Len(out) = frame.content
      /\ ~info.contentChecksum => LengthOf(laid) = Start(i) + BHSize
      /\ info.contentChecksum => LengthOf(laid) = Start(i) + BHSize + BFSize
  BY <1>3, EndItems, ItemOrder
<1> DEFINE from == Start(i) + BHSize
<1>5. from \in Nat
  BY <1>4 DEF BHSize
<1>6. ASSUME stage' = "StoreSuffix", info.contentChecksum, remaining = 0, Gathering(from)',
             UNCHANGED <<info, maxBlockSize, xxh, skip, remaining, out>>,
             (\E k, w : Again(k, w)) \/ (\E k, h : Stop(k, h))
      PROVE  Where'
  <2>1. UNCHANGED <<frame, lenient>> /\ laid' = laid
    BY <1>6 DEF Again, Stop, client, laid
  <2>2. HeaderNext(i, out)'
    <3>1. HeaderNext(i, out')
      BY <1>3, <1>6
    <3>2. HeaderNext(i, out)'
      BY <1>6, <2>1, <3>1, HeaderKept
    <3>3. QED  BY <3>2
  <2>3. Item(i)' = Item(i) /\ Start(i)' = Start(i)
    BY <2>1 DEF Item, Start
  <2>4. AtFrameEnd(i)'
    BY <1>3, <1>6, <2>2, <2>3 DEF AtFrameEnd
  <2>5. QED  BY <1>6, <2>1, <2>4, WhereEnd
<1>7. CASE GetSuffix
  <2>1. pos = from
    BY <1>2, <1>7 DEF AtFrameEnd, GetSuffix, At
  <2>2. CASE remaining # 0 /\ Fail("frameSizeWrong") /\ UNCHANGED skip
    <3>1. frame.fault # "none"
      <4>1. frame.fault = "none" => info.contentSize \in {0, frame.content}
        BY <1>3, Faults
      <4>2. info.contentSize \in Nat /\ frame.content \in Nat
        BY <1>1, <1>3, <1>4, DataItems DEF Infos
      <4>3. QED  BY <1>3, <1>4, <2>2, <4>1, <4>2
    <3>2. QED  BY <2>2, <3>1 DEF Outcome, Rejects
  <2>3. CASE remaining = 0 /\ ~info.contentChecksum /\ Complete(0)
    <3>1. /\ Len(out) = frame.content
          /\ frame.fault = "none" \/ (frame.fault = "body" /\ lenient)
      BY <1>1, <1>3, <2>3, Finished DEF Positioned
    <3>2. pos + 0 <= LengthOf(laid) /\ 0 \in Nat
      BY <1>4, <1>5, <2>1, <2>3
    <3>3. QED  BY <2>3, <3>1, <3>2 DEF Outcome, Accepts
  <2>4. CASE /\ remaining = 0 /\ info.contentChecksum
             /\ store' = <<>> /\ stage' = "StoreSuffix" /\ Again(0, 0)
             /\ UNCHANGED <<dict, skip, remaining, out>> /\ UNCHANGED <<target, Untouched>>
    <3>1. pos' = from
      BY <1>1, <2>1, <2>4 DEF Again
    <3>2. Gathering(from)'
      <4>1. laid' = laid
        BY <2>4 DEF Again, client, laid
      <4>2. from' = from /\ Positions(from, 0) = <<>>
        BY <1>5, <4>1, NothingGathered DEF Start
      <4> HIDE DEF from
      <4>3. QED  BY <1>5, <2>4, <3>1, <4>2 DEF Gathering
    <3>3. QED  BY <1>6, <2>4, <3>2 DEF Outcome, GoesOn, Untouched
  <2>5. CASE remaining = 0 /\ info.contentChecksum /\ CheckContentCrc(Src(BFSize), BFSize)
    <3>1. Src(BFSize) = Positions(from, BFSize) /\ BFSize \in Nat /\ pos + BFSize = from + BFSize
      BY <2>1 DEF Src, Positions, BFSize
    <3>2. QED  BY <1>1, <1>3, <2>5, <3>1, EndOutcome
  <2>6. QED  BY <1>7, <2>2, <2>3, <2>4, <2>5 DEF GetSuffix
<1>8. CASE StoreSuffix
  <2>1. /\ stage = "StoreSuffix" /\ Gathering(from) /\ info.contentChecksum /\ Len(store) <= BFSize
    BY <1>1, <1>2, <1>8 DEF AtFrameEnd, StoreSuffix, At
  <2>2. remaining = 0
    BY <1>2, <2>1 DEF AtFrameEnd
  <2> DEFINE k == FieldRest(BFSize)
             bytes == Stored(k)
  <2>3. k \in Nat /\ Len(bytes) <= BFSize
    BY <1>1, <2>1, FieldRestType DEF BFSize
  <2> HIDE DEF k
  <2>4. /\ Len(bytes) \in Nat /\ bytes = Positions(from, Len(bytes))
        /\ pos + k = from + Len(bytes)
    <3> HIDE DEF from
    <3>1. QED  BY <1>1, <1>5, <2>1, <2>3, GatheredOn
  <2> HIDE DEF bytes
  <2>5. CASE Len(bytes) >= BFSize /\ CheckContentCrc(bytes, k)
    <3>1. Len(bytes) = BFSize
      <4> DEFINE held == Len(bytes)
      <4>1. held \in Nat /\ held <= 4 /\ held >= 4
        BY <2>3, <2>4, <2>5 DEF BFSize
      <4> HIDE DEF held
      <4>2. held = 4
        BY <4>1
      <4>3. QED  BY <4>2 DEF held, BFSize
    <3>2. QED  BY <1>1, <1>3, <2>1, <2>2, <2>3, <2>4, <2>5, <3>1, EndOutcome, Zenon
  <2>6. CASE /\ store' = bytes /\ Len(bytes) < BFSize /\ Stop(k, BFSize - Len(bytes))
             /\ UNCHANGED <<stage, dict, skip, remaining, out>> /\ UNCHANGED <<target, Untouched>>
    <3>1. pos' = from + Len(bytes) /\ laid' = laid
      BY <2>4, <2>6 DEF Stop, client, laid
    <3>2. Gathering(from)'
      <4>1. from' = from
        BY <3>1 DEF Start
      <4> HIDE DEF from
      <4>2. QED  BY <2>4, <2>6, <3>1, <4>1 DEF Gathering
    <3>3. Asks(BFSize - Len(bytes))
      <4>1. BFSize - Len(bytes) \in Nat /\ BFSize - Len(bytes) > 0
        BY <2>4, <2>6 DEF BFSize
      <4>2. pos' + (BFSize - Len(bytes)) <= LengthOf(laid)
        BY <1>4, <1>5, <2>1, <2>4, <3>1 DEF BFSize
      <4>3. stage' # "StoreCBlock"
        BY <2>1, <2>6
      <4>4. QED  BY <4>1, <4>2, <4>3, InsideFrame DEF Asks
    <3>4. QED  BY <1>6, <2>1, <2>2, <2>6, <3>2, <3>3 DEF Outcome, GoesOn, Untouched
  <2>7. QED  BY <1>8, <2>5, <2>6 DEF StoreSuffix, k, bytes
<1>9. QED  BY <1>7, <1>8

-----------------------------------------------------------------------------
(* Skippable frames.                                                       *)

LEMMA SkippableItemsAt ==
  ASSUME Given, Item(1).kind = "skippableMagic"
  PROVE  /\ frame.fault = "none" /\ frame.content = 0 /\ Len(laid) = 3
         /\ Item(2).kind = "skippableSize" /\ Item(2).length \in Nat
         /\ Recover(laid, Positions(Word, Word)) = laid[2]
         /\ LengthOf(laid) = 2 * Word + Item(2).length
<1>1. WellFormed(frame)
  BY DEF Given, FramesWellFormed
<1>2. /\ frame.fault = "none" /\ frame.content = 0 /\ Len(laid) = 3
      /\ Item(2).kind = "skippableSize" /\ Item(1).size = Word /\ Item(2).size = Word
      /\ Item(3).size = Item(2).length
  BY <1>1 DEF WellFormed, Item, laid
<1>3. 1 \in 1..3 /\ 2 \in 1..3 /\ 3 \in 1..3 /\ 1 < 2 /\ 2 < 3 /\ 2 = 1 + 1 /\ 3 = 2 + 1
  OBVIOUS
<1>4. Start(1) = 0 /\ Start(2) = Start(1) + Word /\ Start(3) = Start(2) + Word
  BY <1>2, <1>3, ItemOrder
<1>5. Start(2) = Word /\ Start(3) = 2 * Word
  BY <1>4 DEF Word
<1>6. Item(2).length \in Nat
  BY <1>2, <1>3, ItemOrder DEF ItemTyped
<1>7. Recover(laid, Positions(Word, Word)) = laid[2]
  BY <1>2, <1>3, <1>5, Recovered DEF Word
<1>8. LengthOf(laid) = Start(3) + Item(3).size
  BY <1>2 DEF LengthOf, Start, Item
<1>9. QED  BY <1>2, <1>5, <1>6, <1>7, <1>8

LEMMA SFrameSizeOutcome ==
  ASSUME Given, Item(1).kind = "skippableMagic", out = <<>>, pos \in Nat,
         NEW bytes, bytes = Positions(Word, Word), NEW k \in Nat, pos + k = 2 * Word,
         SFrameSize(bytes, k), UNCHANGED <<skip, out>>
  PROVE  Outcome
<1>1. Recover(laid, bytes).item = Item(2) /\ Item(2).length \in Nat
      /\ LengthOf(laid) = 2 * Word + Item(2).length
  BY SkippableItemsAt DEF Item
<1>2. /\ stage' = "SkipSkippable" /\ target' = Item(2).length /\ pos' = pos + k
      /\ laid' = laid /\ Again(k, 0)
  BY <1>1 DEF SFrameSize, Again, client, laid
<1>3. pos' + target' = LengthOf(laid')
  BY <1>1, <1>2
<1>4. InSkippableFrame'
  BY <1>2, <1>3 DEF InSkippableFrame, Item
<1>5. QED  BY <1>2, <1>4, WhereSkippable DEF Outcome, GoesOn

LEMMA SkippableOutcome ==
  ASSUME Given, DecoderInv, Positioned, GetSFrameSize \/ StoreSFrameSize \/ SkipSkippable
  PROVE  Outcome
<1>1. /\ stage \in {"GetSFrameSize", "StoreSFrameSize", "SkipSkippable"} /\ verdict = "open"
      /\ TypeOK /\ pos \in Nat /\ store \in Seq(Nat) /\ target \in Nat /\ call.left \in Nat
      /\ stage = "StoreSFrameSize" => target = 8 /\ Len(store) <= target
  BY InvParts, Zenon DEF GetSFrameSize, StoreSFrameSize, SkipSkippable, At, CallTyped, Settled, Idle,
    TypeOK, Fitting, Gathered
<1>2. /\ Item(1).kind = "skippableMagic" /\ out = <<>> /\ InSkippableFrame
  BY <1>1 DEF Positioned, Where, InSkippableFrame
<1>3. /\ frame.fault = "none" /\ frame.content = 0 /\ LengthOf(laid) \in Nat
      /\ LengthOf(laid) = 2 * Word + Item(2).length
  BY <1>2, SkippableItemsAt, InsideFrame
<1>4. \A h \in Nat : h > 0 => Asks(h)
  BY <1>2 DEF Asks
<1>5. CASE GetSFrameSize
  <2>1. pos = Word
    BY <1>2, <1>5 DEF InSkippableFrame, GetSFrameSize, At
  <2>2. UNCHANGED <<skip, out>>
    BY <1>5 DEF GetSFrameSize, BufferState
  <2>3. CASE SFrameSize(Src(Word), Word)
    <3>1. Src(Word) = Positions(Word, Word) /\ Word \in Nat /\ pos + Word = 2 * Word
      BY <2>1 DEF Src, Positions, Word
    <3>2. QED  BY <1>1, <1>2, <2>2, <2>3, <3>1, SFrameSizeOutcome
  <2>4. CASE store' = <<0, 0, 0, 0>> /\ stage' = "StoreSFrameSize" /\ Again(0, 0)
    <3>1. pos' = 4 /\ laid' = laid /\ Len(store') = 4
      BY <2>1, <2>4 DEF Again, client, laid, Word
    <3>2. InSkippableFrame'
      BY <1>2, <2>2, <2>4, <3>1 DEF InSkippableFrame, Item, Word
    <3>3. QED  BY <2>2, <2>4, <3>2, WhereSkippable DEF Outcome, GoesOn
  <2>5. QED  BY <1>5, <2>3, <2>4 DEF GetSFrameSize
<1>6. CASE StoreSFrameSize
  <2>1. /\ stage = "StoreSFrameSize" /\ target = 8 /\ Len(store) <= 8
        /\ pos = Len(store) /\ pos >= Word /\ \A j \in (Word + 1)..pos : store[j] = j
        /\ UNCHANGED <<skip, out>>
    BY <1>1, <1>2, <1>6 DEF InSkippableFrame, StoreSFrameSize, At, BufferState
  <2> DEFINE k == Wanted
             bytes == Stored(k)
             n == Len(bytes)
  <2>2. /\ k \in Nat /\ bytes \in Seq(Nat) /\ n \in Nat /\ n = Len(store) + k /\ n <= 8
    <3>1. k = FieldRest(target)
      BY DEF Wanted
    <3>2. QED  BY <1>1, <2>1, <3>1, FieldRestType
  <2>3. Src(k) \in Seq(Nat) /\ Len(Src(k)) = k /\ \A j \in 1..k : Src(k)[j] = pos + j
    <3>1. k \in Nat
      BY <2>2
    <3> HIDE DEF k
    <3>2. QED  BY <1>1, <3>1 DEF Src
  <2> HIDE DEF k
  <2>4. pos + k = n /\ \A j \in (Word + 1)..n : bytes[j] = j
    <3>1. pos + k = n
      BY <2>1, <2>2
    <3>2. \A j \in 1..n : bytes[j] = IF j <= pos THEN store[j] ELSE Src(k)[j - pos]
      BY <1>1, <2>1, <2>2, <2>3, ConcatProperties DEF Stored
    <3>3. ASSUME NEW j \in (Word + 1)..n PROVE bytes[j] = j
      <4>1. j \in 1..n /\ j \in Nat
        BY <2>2 DEF Word
      <4>2. CASE j <= pos
        BY <1>1, <2>1, <3>2, <4>1, <4>2 DEF Word
      <4>3. CASE ~(j <= pos)
        <5>1. j - pos \in 1..k /\ pos + (j - pos) = j
          BY <1>1, <2>2, <3>1, <4>1, <4>3
        <5>2. Src(k)[j - pos] = pos + (j - pos)
          BY <2>3, <5>1
        <5>3. QED  BY <3>2, <4>1, <4>3, <5>1, <5>2
      <4>4. QED  BY <4>2, <4>3
    <3>4. QED  BY <3>1, <3>3
  <2> HIDE DEF n
  <2>5. CASE n >= target /\ SFrameSize(SubSeq(bytes, Word + 1, Len(bytes)), k)
    <3>1. n = 8 /\ Len(bytes) = 8
      BY <2>1, <2>2, <2>5 DEF n
    <3>2. SubSeq(bytes, 5, 8) = Positions(4, 4)
      <4>1. /\ SubSeq(bytes, 5, 8) \in Seq(Nat) /\ Len(SubSeq(bytes, 5, 8)) = 4
            /\ \A j \in 1..4 : SubSeq(bytes, 5, 8)[j] = bytes[5 + j - 1]
        <5> HIDE DEF bytes
        <5>1. bytes \in Seq(Nat) /\ Len(bytes) = 8
          BY <2>2, <3>1
        <5>2. 5 \in Int /\ 8 \in Int /\ 8 - 5 + 1 = 4 /\ 5 <= 8
          OBVIOUS
        <5>3. ASSUME NEW j \in 5..8 PROVE bytes[j] \in Nat
          <6>1. j \in (Word + 1)..n /\ j \in Nat
            BY <3>1 DEF Word
          <6>2. QED  BY <2>4, <6>1
        <5>4. /\ SubSeq(bytes, 5, 8) \in Seq(Nat)
              /\ Len(SubSeq(bytes, 5, 8)) = IF 5 <= 8 THEN 8 - 5 + 1 ELSE 0
              /\ \A j \in 1..(8 - 5 + 1) : SubSeq(bytes, 5, 8)[j] = bytes[5 + j - 1]
          BY <5>2, <5>3, SubSeqProperties
        <5>5. QED  BY <5>2, <5>4
      <4>2. ASSUME NEW j \in 1..4 PROVE SubSeq(bytes, 5, 8)[j] = 4 + j
        <5>1. 5 + j - 1 \in (Word + 1)..n /\ 5 + j - 1 = 4 + j
          BY <3>1 DEF Word
        <5>2. QED  BY <2>4, <4>1, <5>1
      <4> DEFINE s == SubSeq(bytes, 5, 8)
                 t == Positions(4, 4)
      <4>3. 4 \in Nat
        OBVIOUS
      <4>4. t \in Seq(Nat) /\ Len(t) = 4 /\ \A j \in 1..4 : t[j] = 4 + j
        BY <4>3, PositionsType, Zenon
      <4>5. s \in Seq(Nat) /\ Len(s) = 4 /\ \A j \in 1..4 : s[j] = t[j]
        BY <4>1, <4>2, <4>4, Zenon
      <4> HIDE DEF s, t
      <4>6. s = t
        BY <4>4, <4>5, SeqEqual, Zenon
      <4>7. QED  BY <4>6 DEF s, t
    <3>3. SubSeq(bytes, Word + 1, Len(bytes)) = Positions(Word, Word) /\ pos + k = 2 * Word
      BY <2>4, <3>1, <3>2 DEF Word
    <3>4. QED  BY <1>1, <1>2, <2>1, <2>2, <2>5, <3>3, SFrameSizeOutcome, Zenon
  <2>6. CASE /\ store' = bytes /\ n < target /\ Stop(k, target - n) /\ UNCHANGED <<stage, target, info>>
    <3>1. pos' = n /\ laid' = laid
      BY <2>4, <2>6 DEF Stop, client, laid
    <3>2. InSkippableFrame'
      <4>1. pos' = Len(store') /\ pos' >= Word
        BY <2>1, <2>2, <2>6, <3>1 DEF n, Word
      <4>2. Item(1)' = Item(1) /\ stage' = "StoreSFrameSize" /\ out' = <<>>
        BY <1>2, <2>1, <2>6, <3>1 DEF Item
      <4>3. \A j \in (Word + 1)..pos' : store'[j] = j
        BY <2>4, <2>6, <3>1
      <4>4. QED  BY <1>2, <4>1, <4>2, <4>3 DEF InSkippableFrame
    <3>3. target - n \in Nat /\ target - n > 0
      BY <2>1, <2>2, <2>6
    <3>4. QED  BY <1>4, <2>1, <2>6, <3>2, <3>3, WhereSkippable DEF Outcome, GoesOn
  <2>7. QED  BY <1>6, <2>5, <2>6 DEF StoreSFrameSize, k, bytes, n
<1>7. CASE SkipSkippable
  <2> DEFINE k == SkipSize
  <2>1. /\ stage = "SkipSkippable" /\ pos + target = LengthOf(laid)
        /\ k \in Nat /\ k <= target /\ target - k \in Nat
    BY <1>1, <1>2, <1>7 DEF InSkippableFrame, SkipSkippable, At, SkipSize, Smaller
  <2> HIDE DEF k
  <2>2. CASE target' = target - k /\ target' = 0 /\ Complete(k)
    <3>1. pos + k <= LengthOf(laid) /\ Len(out) = frame.content
      BY <1>1, <1>2, <1>3, <2>1, <2>2
    <3>2. QED  BY <1>3, <2>1, <2>2, <3>1 DEF Outcome, Accepts
  <2>3. CASE /\ target' = target - k /\ target' # 0 /\ Stop(k, target')
             /\ UNCHANGED <<stage, dict, skip, remaining, out>>
    <3>1. pos' = pos + k /\ laid' = laid
      BY <2>3 DEF Stop, client, laid
    <3>2. pos' + target' = LengthOf(laid)
      BY <1>1, <2>1, <2>3, <3>1
    <3>3. InSkippableFrame'
      BY <1>2, <2>1, <2>3, <3>1, <3>2 DEF InSkippableFrame, Item
    <3>4. target' \in Nat /\ target' > 0
      BY <2>1, <2>3
    <3>5. Asks(target')
      BY <1>4, <3>4
    <3>6. QED  BY <2>1, <2>3, <3>3, <3>5, WhereSkippable DEF Outcome, GoesOn
  <2>4. QED  BY <1>7, <2>2, <2>3 DEF SkipSkippable, k
<1>8. QED  BY <1>5, <1>6, <1>7

-----------------------------------------------------------------------------
(* Between the passes.                                                     *)

LEMMA PassOutcome ==
  ASSUME Given, AskedOnce, DecoderInv, Seeding, Positioned, Pass PROVE Outcome
<1>1. CASE GetFrameHeader \/ StoreFrameHeader \/ InitFrame
  BY <1>1, GetFrameHeaderOutcome, StoreFrameHeaderOutcome, InitFrameOutcome
<1>2. CASE GetBlockHeader \/ StoreBlockHeader
  BY <1>2, BlockHeaderPassOutcome
<1>3. CASE CopyDirect \/ GetBlockChecksum
  BY <1>3, CopyDirectOutcome, GetBlockChecksumOutcome
<1>4. CASE GetCBlock \/ StoreCBlock
  BY <1>4, BlockPassOutcome
<1>5. CASE FlushOut
  BY <1>5, FlushOutOutcome
<1>6. CASE GetSuffix \/ StoreSuffix
  BY <1>6, SuffixOutcome
<1>7. CASE GetSFrameSize \/ StoreSFrameSize \/ SkipSkippable
  BY <1>7, SkippableOutcome
<1>8. QED  BY <1>1, <1>2, <1>3, <1>4, <1>5, <1>6, <1>7 DEF Pass

(* The place in the frame stays when only the client's wishes change.      *)
LEMMA WhereHeld ==
  ASSUME Where, skip => skip', lenient => lenient',
         UNCHANGED <<stage, info, remaining, maxBlockSize, store, target, tmpOut, xxh,
                     blockXxh, pos, out, frame>>
  PROVE  Where'
<1>1. laid' = laid /\ (Clean' => Clean) /\ CrcSize' = CrcSize
      /\ \A c : Altered(c)' = Altered(c)
  BY DEF laid, Clean, CrcSize, Altered
<1>2. \A j : /\ Item(j)' = Item(j) /\ Body(j)' = Body(j) /\ Shows(j)' = Shows(j)
             /\ Start(j)' = Start(j)
  BY <1>1 DEF Item, Body, Shows, Start
<1>3. \A i, c : Known(i, c) => Known(i, c)'
  BY <1>1, <1>2 DEF Known
<1>4. \A i, c : HeaderNext(i, c) => HeaderNext(i, c)'
  BY <1>1, <1>2, <1>3 DEF HeaderNext, Before
<1>5. \A a : Gathering(a) => Gathering(a)'
  BY DEF Gathering
<1>6. \A i : Known(i, out) => Known(i, out)'
  BY <1>1, <1>2 DEF Known
<1>7. \A i : AtBody(i) => AtBody(i)'
  BY <1>2, <1>6 DEF AtBody
<1>8. AtFrameHeader => AtFrameHeader'
  BY DEF AtFrameHeader, Gathering
<1>9. PastFrameHeader => PastFrameHeader'
  BY <1>2 DEF PastFrameHeader
<1>10. \A i : AtBlockHeader(i) => AtBlockHeader(i)'
  BY <1>1, <1>2, <1>6 DEF AtBlockHeader, HeaderNext, Before, Gathering
<1>11. \A i, n : Copied(i, n) => Copied(i, n)'
  BY <1>2, <1>7 DEF Copied, Altered
<1>12. \A i : AtBlockCrc(i) => AtBlockCrc(i)'
  BY <1>2, <1>7 DEF AtBlockCrc, Altered, Gathering
<1>13. \A i : AtPacked(i) => AtPacked(i)'
  BY <1>1, <1>2, <1>7 DEF AtPacked, Gathering
<1>14. ASSUME NEW i, HandingOver(i) PROVE HandingOver(i)'
  <2>1. HeaderNext(i, Joined(out, tmpOut))'
    <3> DEFINE all == Joined(out, tmpOut)
    <3>1. all' = all /\ HeaderNext(i, all)
      BY <1>14 DEF HandingOver
    <3> HIDE DEF all
    <3>2. HeaderNext(i, all)'
      BY <1>4, <3>1
    <3>3. QED  BY <3>2 DEF all
  <2>2. QED  BY <1>2, <1>14, <2>1 DEF HandingOver
<1>15. \A i : AtFrameEnd(i) => AtFrameEnd(i)'
  <2>1. \A i : HeaderNext(i, out) => HeaderNext(i, out)'
    BY <1>1, <1>2, <1>6 DEF HeaderNext, Before
  <2>2. QED  BY <1>2, <2>1 DEF AtFrameEnd, Gathering
<1>16. InSkippableFrame => InSkippableFrame'
  BY <1>1, <1>2 DEF InSkippableFrame
<1>17. QED
  BY <1>1, <1>2, <1>8, <1>9, <1>10, <1>11, <1>12, <1>13, <1>14, <1>15, <1>16 DEF Where

(* What has come out is the beginning of the content, as long as nothing   *)
(* wrong can have.                                                         *)
BeginsContent(c) == Len(c) <= frame.content /\ (Clean => ~Altered(c))

LEMMA NothingBegins ==
  ASSUME Given PROVE BeginsContent(<<>>)
<1>1. frame.content \in Nat
  BY DEF Given, FramesWellFormed, WellFormed
<1>2. Len(<<>>) = 0
  OBVIOUS
<1>3. QED  BY <1>1, <1>2 DEF BeginsContent, Altered

LEMMA HeaderBegins ==
  ASSUME Given, NEW i, NEW c, HeaderNext(i, c) PROVE BeginsContent(c)
<1>1. /\ i \in 2..Len(laid) /\ Item(i).kind = "blockHeader" /\ Len(c) = Before(frame, i)
      /\ Item(1).kind = "header" /\ (Clean => ~Altered(c))
  BY DEF HeaderNext, Known
<1>2. CASE IsEndMark(Item(i))
  <2>1. Len(c) = frame.content
    BY <1>1, <1>2, EndItems
  <2>2. frame.content \in Nat
    BY DEF Given, FramesWellFormed, WellFormed
  <2>3. QED  BY <1>1, <2>1, <2>2 DEF BeginsContent
<1>3. CASE ~IsEndMark(Item(i))
  <2>1. /\ Len(c) = Item(i + 1).from /\ Item(i + 1).from <= Item(i + 1).to
        /\ Item(i + 1).to <= frame.content /\ Item(i + 1).from \in Nat /\ Item(i + 1).to \in Nat
    BY <1>1, <1>3, BlockItemsAt
  <2>2. frame.content \in Nat
    BY DEF Given, FramesWellFormed, WellFormed
  <2>3. Len(c) <= frame.content
    BY <2>1, <2>2
  <2>4. QED  BY <1>1, <2>3 DEF BeginsContent
<1>4. QED  BY <1>2, <1>3

LEMMA BodyBegins ==
  ASSUME Given, NEW i, AtBody(i), Len(out) <= Item(i).to, Len(out) \in Nat PROVE BeginsContent(out)
<1>1. Item(1).kind = "header" /\ Body(i) /\ (Clean => ~Altered(out))
  BY DEF AtBody, Known
<1>2. /\ i \in Nat /\ i - 1 \in 2..Len(laid) /\ (i - 1) + 1 = i
      /\ Item(i - 1).kind = "blockHeader" /\ ~IsEndMark(Item(i - 1))
  BY <1>1, HeaderOfBody
<1>3. Item(i).to <= frame.content /\ Item(i).to \in Nat
  BY <1>1, <1>2, BlockItemsAt
<1>4. frame.content \in Nat
  BY DEF Given, FramesWellFormed, WellFormed
<1>5. Len(out) <= frame.content
  BY <1>3, <1>4
<1>6. QED  BY <1>1, <1>5 DEF BeginsContent

LEMMA WhereContent ==
  ASSUME Given, TypeOK, Where PROVE BeginsContent(out)
<1>1. stage \in Stages /\ out \in Seq(Nat) /\ tmpOut \in Seq(Nat) /\ Len(out) \in Nat
  BY DEF TypeOK
<1>2. ASSUME out = <<>> PROVE BeginsContent(out)
  BY <1>2, NothingBegins
<1>3. CASE stage \in {"GetFrameHeader", "StoreFrameHeader", "Init"}
  BY <1>2, <1>3 DEF Where, AtFrameHeader, PastFrameHeader
<1>4. CASE stage \in {"GetSFrameSize", "StoreSFrameSize", "SkipSkippable"}
  BY <1>2, <1>4 DEF Where, InSkippableFrame
<1>5. CASE stage \in {"GetBlockHeader", "StoreBlockHeader"}
  <2>1. PICK i : AtBlockHeader(i)
    BY <1>5 DEF Where
  <2>2. QED  BY <2>1, HeaderBegins DEF AtBlockHeader
<1>6. CASE stage \in {"GetSuffix", "StoreSuffix"}
  <2>1. PICK i : AtFrameEnd(i)
    BY <1>6 DEF Where
  <2>2. QED  BY <2>1, HeaderBegins DEF AtFrameEnd
<1>7. CASE stage = "FlushOut"
  <2> DEFINE all == Joined(out, tmpOut)
  <2>1. PICK i : HeaderNext(i, all)
    BY <1>7 DEF Where, HandingOver
  <2>2. BeginsContent(all)
    <3> HIDE DEF all
    <3>1. QED  BY <2>1, HeaderBegins
  <2>3. /\ all \in Seq(Nat) /\ Len(all) = Len(out) + Len(tmpOut)
        /\ \A j \in 1..Len(out) : all[j] = out[j]
    BY <1>1, ConcatProperties DEF Joined
  <2>4. frame.content \in Nat /\ Len(tmpOut) \in Nat
    BY <1>1 DEF Given, FramesWellFormed, WellFormed
  <2> HIDE DEF all
  <2>5. Len(out) <= frame.content /\ Len(out) <= Len(all)
    BY <1>1, <2>2, <2>3, <2>4 DEF BeginsContent
  <2>6. Altered(out) => Altered(all)
    BY <1>1, <2>3, <2>4, <2>5 DEF Altered
  <2>7. QED  BY <2>2, <2>5, <2>6 DEF BeginsContent
<1>8. CASE stage = "CopyDirect"
  <2>1. PICK i \in 2..Len(laid) : \E n \in 0..Item(i).size : Copied(i, n)
    BY <1>8 DEF Where
  <2>2. PICK n \in 0..Item(i).size : Copied(i, n)
    BY <2>1
  <2>3. /\ AtBody(i) /\ Body(i) /\ Item(i - 1).stored /\ Len(out) = Item(i).from + n
        /\ Item(1).kind = "header" /\ info = Item(1).info
    BY <2>2 DEF Copied, AtBody, Known
  <2>4. /\ Item(i).to - Item(i).from = Item(i).size
        /\ Item(i).size \in Nat /\ Item(i).from \in Nat /\ Item(i).to \in Nat
    BY <2>3, BodyPlace
  <2>5. Len(out) <= Item(i).to
    BY <2>2, <2>3, <2>4
  <2>6. QED  BY <1>1, <2>3, <2>5, BodyBegins
<1>9. CASE stage = "GetBlockChecksum"
  <2>1. PICK i : AtBlockCrc(i)
    BY <1>9 DEF Where
  <2>2. AtBody(i) /\ Len(out) = Item(i).to
    BY <2>1 DEF AtBlockCrc
  <2>3. QED  BY <1>1, <2>2, BodyBegins
<1>10. CASE stage \in {"GetCBlock", "StoreCBlock"}
  <2>1. PICK i : AtPacked(i)
    BY <1>10 DEF Where
  <2>2. AtBody(i) /\ Len(out) = Item(i).from /\ Body(i) /\ Item(1).kind = "header" /\ info = Item(1).info
    BY <2>1 DEF AtPacked, AtBody, Known
  <2>3. Item(i).from <= Item(i).to
    BY <2>2, BodyPlace
  <2>4. QED  BY <1>1, <2>2, <2>3, BodyBegins
<1>11. QED
  BY <1>1, <1>3, <1>4, <1>5, <1>6, <1>7, <1>8, <1>9, <1>10 DEF Stages

(* And the decoder is inside the frame.                                    *)
LEMMA HeaderInside ==
  ASSUME Given, NEW i, NEW c, HeaderNext(i, c)
  PROVE  /\ Start(i) \in Nat /\ Start(i) + BHSize <= LengthOf(laid)
         /\ IsEndMark(Item(i)) /\ info.contentChecksum =>
              Start(i) + BHSize + BFSize <= LengthOf(laid)
<1>1. /\ i \in 2..Len(laid) /\ i \in 1..Len(laid) /\ Item(i).kind = "blockHeader"
      /\ Item(1).kind = "header" /\ info = Item(1).info
  BY ItemOrder DEF HeaderNext, Known
<1>2. Item(i).size = BHSize
  BY <1>1, BlockItemsAt, EndItems
<1>3. Start(i) \in Nat /\ Start(i) + BHSize <= LengthOf(laid)
  BY <1>1, <1>2, ItemOrder, InsideFrame
<1>4. IsEndMark(Item(i)) /\ info.contentChecksum =>
        LengthOf(laid) = Start(i) + BHSize + BFSize
  BY <1>1, EndItems
<1>5. QED  BY <1>3, <1>4, InsideFrame

LEMMA WherePos ==
  ASSUME Given, TypeOK, Gathered, verdict = "open", Where PROVE pos <= LengthOf(laid)
<1>1. /\ stage \in Stages /\ store \in Seq(Nat) /\ Len(store) \in Nat /\ pos \in Nat
      /\ target \in Nat /\ LengthOf(laid) \in Nat
  BY InsideFrame DEF TypeOK
<1>2. /\ HeaderSizeMin <= LengthOf(laid)
      /\ Item(1).kind = "header" => Item(1).size <= LengthOf(laid)
  <2>1. Start(1) = 0 /\ Start(1) + Item(1).size <= LengthOf(laid) /\ Item(1).size \in Nat
    BY ItemOrder, InsideFrame
  <2>2. CASE Item(1).kind = "header"
    BY <1>1, <2>1, <2>2, FirstBlockHeader, SMTT(30) DEF HeaderSizeMin, HeaderSizeMax
  <2>3. CASE Item(1).kind = "skippableMagic"
    BY <2>3, SkippableItemsAt DEF HeaderSizeMin, Word
  <2>4. CASE Item(1).kind = "unknown"
    <3>1. WellFormed(frame)
      BY DEF Given, FramesWellFormed
    <3>2. Item(1).size >= HeaderSizeMin
      BY <2>4, <3>1 DEF WellFormed, Item, laid
    <3>3. QED  BY <1>1, <2>1, <2>4, <3>2 DEF HeaderSizeMin
  <2>5. Item(1).kind \in {"header", "skippableMagic", "unknown"}
    BY DEF Given, FramesWellFormed, WellFormed, Item, laid
  <2>6. QED  BY <2>2, <2>3, <2>4, <2>5
<1>3. CASE stage \in {"GetFrameHeader", "StoreFrameHeader", "Init"}
  <2>1. CASE stage = "GetFrameHeader"
    BY <1>1, <2>1 DEF Where, AtFrameHeader
  <2>2. CASE stage = "StoreFrameHeader"
    <3>1. pos = 0 + Len(store) /\ Len(store) <= target
      BY <2>2 DEF Where, AtFrameHeader, Gathering, Gathered
    <3>2. target <= LengthOf(laid)
      BY <1>2, <2>2 DEF Gathered, Item
    <3>3. QED  BY <1>1, <3>1, <3>2
  <2>3. CASE stage = "Init"
    BY <1>2, <2>3 DEF Where, PastFrameHeader
  <2>4. QED  BY <1>3, <2>1, <2>2, <2>3
<1>4. CASE stage \in {"GetBlockHeader", "StoreBlockHeader"}
  <2>1. PICK i : AtBlockHeader(i)
    BY <1>4 DEF Where
  <2>2. Start(i) \in Nat /\ Start(i) + BHSize <= LengthOf(laid)
    BY <2>1, HeaderInside DEF AtBlockHeader
  <2>3. pos <= Start(i) + BHSize
    BY <1>1, <1>4, <2>1, <2>2 DEF AtBlockHeader, Gathering, Gathered, BHSize
  <2>4. QED  BY <1>1, <2>2, <2>3 DEF BHSize
<1>5. CASE stage \in {"GetSuffix", "StoreSuffix"}
  <2>1. PICK i : AtFrameEnd(i)
    BY <1>5 DEF Where
  <2>2. /\ Start(i) \in Nat /\ Start(i) + BHSize <= LengthOf(laid)
        /\ info.contentChecksum => Start(i) + BHSize + BFSize <= LengthOf(laid)
    BY <2>1, HeaderInside DEF AtFrameEnd
  <2>3. CASE stage = "GetSuffix"
    BY <2>1, <2>2, <2>3 DEF AtFrameEnd
  <2>4. CASE stage = "StoreSuffix"
    <3>1. pos = Start(i) + BHSize + Len(store) /\ info.contentChecksum
      BY <2>1, <2>4 DEF AtFrameEnd, Gathering
    <3>2. Len(store) <= BHSize
      BY <2>4 DEF Gathered
    <3>3. QED  BY <1>1, <2>2, <3>1, <3>2 DEF BHSize, BFSize
  <2>5. QED  BY <1>5, <2>3, <2>4
<1>6. CASE stage = "FlushOut"
  <2> DEFINE all == Joined(out, tmpOut)
  <2>1. PICK i : HeaderNext(i, all) /\ pos = Start(i)
    BY <1>6 DEF Where, HandingOver
  <2> HIDE DEF all
  <2>2. Start(i) \in Nat /\ Start(i) + BHSize <= LengthOf(laid)
    BY <2>1, HeaderInside
  <2>3. QED  BY <1>1, <2>1, <2>2 DEF BHSize
<1>7. ASSUME NEW i, AtBody(i), pos <= Start(i) + Item(i).size + CrcSize PROVE pos <= LengthOf(laid)
  <2>1. Body(i) /\ Item(1).kind = "header" /\ info = Item(1).info
    BY <1>7 DEF AtBody, Known
  <2>2. /\ Start(After(i)) = Start(i) + Item(i).size + CrcSize
        /\ Start(After(i)) + BHSize <= LengthOf(laid) /\ After(i) \in 2..Len(laid)
    BY <2>1, BodyPlace
  <2>3. Start(After(i)) \in Nat
    BY <2>2, ItemOrder
  <2>4. QED  BY <1>1, <1>7, <2>2, <2>3 DEF BHSize
<1>8. ASSUME NEW i, AtBody(i)
      PROVE  Start(i) \in Nat /\ Item(i).size \in Nat /\ CrcSize \in Nat
  BY <1>8, BodyPlace DEF AtBody, Known, CrcSize, BFSize
<1>9. CASE stage = "CopyDirect"
  <2>1. PICK i \in 2..Len(laid) : \E n \in 0..Item(i).size : Copied(i, n)
    BY <1>9 DEF Where
  <2>2. PICK n \in 0..Item(i).size : Copied(i, n)
    BY <2>1
  <2>3. AtBody(i) /\ pos = Start(i) + n
    BY <2>2 DEF Copied
  <2>4. pos <= Start(i) + Item(i).size + CrcSize
    BY <1>8, <2>2, <2>3
  <2>5. QED  BY <1>7, <2>3, <2>4
<1>10. CASE stage = "GetBlockChecksum"
  <2>1. PICK i : AtBlockCrc(i)
    BY <1>10 DEF Where
  <2>2. /\ AtBody(i) /\ pos = Start(i + 1) + Len(store) /\ Len(store) <= BHSize
        /\ info.blockChecksum
    BY <1>10, <2>1 DEF AtBlockCrc, Gathering, Gathered
  <2>3. Start(i + 1) = Start(i) + Item(i).size
    <3>1. Body(i) /\ i \in 2..Len(laid) /\ Item(1).kind = "header" /\ info = Item(1).info
      BY <2>2 DEF AtBody, Known, Body
    <3>2. After(i) \in 2..Len(laid) /\ i \in Nat /\ Len(laid) \in Nat
      BY <3>1, BodyPlace, ItemOrder
    <3>3. i \in 1..Len(laid) /\ i + 1 \in 1..Len(laid) /\ i < i + 1
      BY <2>2, <3>1, <3>2 DEF After
    <3>4. QED  BY <3>3, ItemOrder
  <2>4. pos <= Start(i) + Item(i).size + CrcSize
    BY <1>1, <1>8, <2>2, <2>3 DEF CrcSize, BFSize, BHSize
  <2>5. QED  BY <1>7, <2>2, <2>4
<1>11. CASE stage \in {"GetCBlock", "StoreCBlock"}
  <2>1. PICK i : AtPacked(i)
    BY <1>11 DEF Where
  <2>2. AtBody(i) /\ target = Item(i).size + CrcSize
    BY <2>1 DEF AtPacked
  <2>3. pos = Start(i) \/ (pos = Start(i) + Len(store) /\ Len(store) <= target)
    BY <1>11, <2>1 DEF AtPacked, Gathering, Gathered
  <2>4. pos <= Start(i) + Item(i).size + CrcSize
    BY <1>1, <1>8, <2>2, <2>3
  <2>5. QED  BY <1>7, <2>2, <2>4
<1>12. CASE stage \in {"GetSFrameSize", "StoreSFrameSize", "SkipSkippable"}
  <2>1. InSkippableFrame /\ Item(1).kind = "skippableMagic"
    BY <1>12 DEF Where, InSkippableFrame
  <2>2. LengthOf(laid) >= 2 * Word
    BY <1>1, <2>1, SkippableItemsAt DEF Word
  <2>3. pos <= 2 * Word \/ pos + target = LengthOf(laid)
    BY <1>1, <1>12, <2>1 DEF InSkippableFrame, Gathered, Word
  <2>4. QED  BY <1>1, <2>2, <2>3 DEF Word
<1>13. QED
  BY <1>1, <1>3, <1>4, <1>5, <1>6, <1>9, <1>10, <1>11, <1>12 DEF Stages

-----------------------------------------------------------------------------
(* What a pass keeps, and what it promises.                                *)

LEMMA PrefixOfContent ==
  ASSUME frame.content \in Nat, NEW c \in Seq(Nat), Len(c) <= frame.content, ~Altered(c)
  PROVE  Delivery!IsPrefix(c, Delivery!Content)
<1> DEFINE n == Len(c)
           all == Delivery!Content
<1>1. n \in Nat /\ n <= frame.content /\ \A j \in 1..n : c[j] = j
  BY DEF Altered
<1>2. all \in Seq(Nat) /\ Len(all) = frame.content /\ \A j \in 1..frame.content : all[j] = j
  BY DEF Delivery!Content
<1> HIDE DEF all
<1>3. SubSeq(c, 1, n) = SubSeq(all, 1, n)
  <2>1. /\ SubSeq(c, 1, n) \in Seq(Nat) /\ Len(SubSeq(c, 1, n)) = n
        /\ \A j \in 1..n : SubSeq(c, 1, n)[j] = c[j]
    BY <1>1
  <2>2. /\ SubSeq(all, 1, n) \in Seq(Nat) /\ Len(SubSeq(all, 1, n)) = n
        /\ \A j \in 1..n : SubSeq(all, 1, n)[j] = all[j]
    BY <1>1, <1>2
  <2>3. \A j \in 1..n : SubSeq(c, 1, n)[j] = SubSeq(all, 1, n)[j]
    BY <1>1, <1>2, <2>1, <2>2
  <2> DEFINE s == SubSeq(c, 1, n)
             t == SubSeq(all, 1, n)
  <2> HIDE DEF s, t, n
  <2>4. s \in Seq(Nat) /\ t \in Seq(Nat) /\ Len(s) = Len(t) /\ \A j \in 1..Len(s) : s[j] = t[j]
    BY <2>1, <2>2, <2>3 DEF s, t
  <2>5. QED  BY <2>4, SeqEqual DEF s, t
<1>4. QED  BY <1>1, <1>2, <1>3 DEF Delivery!IsPrefix, all

LEMMA PrefixOfMore ==
  ASSUME NEW c \in Seq(Nat), NEW data \in Seq(Nat)
  PROVE  Delivery!IsPrefix(c, c) /\ Delivery!IsPrefix(c, Joined(c, data))
<1>1. \A n \in Nat : n <= Len(c) => SubSeq(Joined(c, data), 1, n) = SubSeq(c, 1, n)
  <2> DEFINE all == Joined(c, data)
  <2>1. /\ all \in Seq(Nat) /\ Len(all) = Len(c) + Len(data)
        /\ \A j \in 1..Len(c) : all[j] = c[j]
    BY ConcatProperties DEF Joined
  <2>2. Len(c) \in Nat /\ Len(data) \in Nat
    OBVIOUS
  <2> HIDE DEF all
  <2>3. ASSUME NEW n \in Nat, n <= Len(c) PROVE SubSeq(all, 1, n) = SubSeq(c, 1, n)
    <3>1. /\ SubSeq(all, 1, n) \in Seq(Nat) /\ Len(SubSeq(all, 1, n)) = n
          /\ \A j \in 1..n : SubSeq(all, 1, n)[j] = all[j]
      BY <2>1, <2>2, <2>3
    <3>2. /\ SubSeq(c, 1, n) \in Seq(Nat) /\ Len(SubSeq(c, 1, n)) = n
          /\ \A j \in 1..n : SubSeq(c, 1, n)[j] = c[j]
      BY <2>2, <2>3
    <3> DEFINE s == SubSeq(all, 1, n)
               t == SubSeq(c, 1, n)
    <3>3. \A j \in 1..n : s[j] = t[j]
      BY <2>1, <2>2, <2>3, <3>1, <3>2
    <3> HIDE DEF s, t
    <3>4. s \in Seq(Nat) /\ t \in Seq(Nat) /\ Len(s) = n /\ Len(t) = n
      BY <3>1, <3>2 DEF s, t
    <3>5. QED  BY <3>3, <3>4, SeqEqual DEF s, t
  <2>4. QED  BY <2>3 DEF all
<1>2. Len(Joined(c, data)) >= Len(c) /\ Len(c) \in Nat
  <2>1. Len(Joined(c, data)) = Len(c) + Len(data) /\ Len(c) \in Nat /\ Len(data) \in Nat
    BY ConcatProperties DEF Joined
  <2>2. QED  BY <2>1
<1>3. SubSeq(Joined(c, data), 1, Len(c)) = SubSeq(c, 1, Len(c))
  BY <1>1, <1>2
<1> DEFINE all == Joined(c, data)
<1> HIDE DEF all
<1>4. Delivery!IsPrefix(c, all)
  BY <1>2, <1>3 DEF all, Delivery!IsPrefix
<1>5. Delivery!IsPrefix(c, c)
  BY <1>2 DEF Delivery!IsPrefix
<1>6. QED  BY <1>4, <1>5 DEF all

Promised == [Delivery!Next]_(Delivery!vars)

(* Half of StaysInFrame: what the last call has asked for.                 *)
Hinted ==
  Idle /\ res = "ok" /\ verdict # "rejected" =>
    /\ hint = 0 <=> verdict = "complete"
    /\ frame.fault = "none" /\ laid[1].item.kind = "header"
         => pos + hint <= LengthOf(laid) + (IF stage = "StoreCBlock" THEN CrcSize ELSE 0)

(* The places hold after a step, seen from before it.                      *)
LEMMA PlaceNext ==
  /\ Given' /\ TypeOK' /\ Where' => BeginsContent(out)'
  /\ Given' /\ TypeOK' /\ Gathered' /\ (verdict = "open")' /\ Where' => (pos <= LengthOf(laid))'
<1>1. Given /\ TypeOK /\ Where => BeginsContent(out)
  BY WhereContent
<1>2. Given /\ TypeOK /\ Gathered /\ verdict = "open" /\ Where => pos <= LengthOf(laid)
  BY WherePos
<1>3. QED  BY <1>1, <1>2, PTL

LEMMA PassKeeps ==
  ASSUME Given, DecoderInv, DecoderInv', Positioned, ~Idle, Outcome
  PROVE  Positioned' /\ Promised /\ Hinted'
<1>1. /\ verdict = "open" /\ TypeOK /\ TypeOK' /\ Gathered' /\ pos \in Nat /\ out \in Seq(Nat)
      /\ (skip => lenient)
  BY InvParts DEF DecoderInv, Settled, TypeOK, Positioned
<1>2. ASSUME UNCHANGED <<frame, lenient>>
      PROVE  Given' /\ laid' = laid /\ Clean' = Clean /\ Item(1)' = Item(1)
             /\ \A c : Altered(c)' = Altered(c)
  BY <1>2 DEF Given, FramesAssumption, FramesWellFormed, laid, Clean, Item, Altered
<1>3. CASE GoesOn
  <2>1. /\ UNCHANGED <<frame, lenient, skip, verdict>> /\ Where'
    BY <1>3 DEF GoesOn, Again, Stop, client
  <2>2. Given' /\ laid' = laid /\ Clean' = Clean /\ Item(1)' = Item(1)
    BY <1>2, <2>1
  <2>3. BeginsContent(out)' /\ pos' <= LengthOf(laid)
    BY <1>1, <2>1, <2>2, PlaceNext
  <2>4. Positioned'
    BY <1>1, <2>1, <2>2, <2>3 DEF Positioned
  <2>5. Promised
    <3>1. Delivery!IsPrefix(out, out')
      BY <1>1, <1>3, PrefixOfMore DEF GoesOn
    <3>2. out' \in Seq(Nat) /\ frame.content \in Nat /\ Len(out') <= frame.content
          /\ (Clean => ~Altered(out'))
      <4>1. Len(out)' <= frame.content' /\ (Clean' => ~Altered(out)')
        BY <2>3 DEF BeginsContent
      <4>2. frame.content \in Nat
        BY DEF Given, FramesWellFormed, WellFormed
      <4>3. out' \in Seq(Nat)
        BY <1>1 DEF TypeOK
      <4>4. QED  BY <2>1, <2>2, <4>1, <4>2, <4>3 DEF Altered
    <3>3. Clean => Delivery!IsPrefix(out', Delivery!Content)
      BY <3>2, PrefixOfContent
    <3>4. Delivery!Deliver
      BY <1>1, <2>1, <3>1, <3>2, <3>3 DEF Delivery!Deliver, Delivery!Fault, Clean
    <3>5. QED  BY <3>4 DEF Promised, Delivery!Next
  <2>6. Hinted'
    <3>1. ASSUME NEW k, NEW w, Again(k, w) PROVE ~Idle'
      BY <1>1, <3>1 DEF Again, TypeOK, Idle
    <3>2. ASSUME NEW k, NEW h, Stop(k, h), Asks(h) PROVE Hinted'
      <4>1. hint' = h /\ h > 0 /\ h \in Nat /\ verdict' = "open"
        BY <1>1, <3>2 DEF Stop, Asks
      <4>2. frame'.fault = "none" /\ Item(1)'.kind = "header" =>
              pos' + hint' <= LengthOf(laid') + (IF stage' = "StoreCBlock" THEN CrcSize' ELSE 0)
        BY <2>1, <2>2, <3>2, <4>1 DEF Asks
      <4>3. hint' # 0
        BY <4>1
      <4>4. QED  BY <4>1, <4>2, <4>3 DEF Hinted, Item
    <3>3. QED  BY <1>3, <3>1, <3>2 DEF GoesOn, Hinted
  <2>7. QED  BY <2>4, <2>5, <2>6
<1>4. CASE Rejects
  <2>1. PICK e : Fail(e)
    BY <1>4 DEF Rejects
  <2>2. /\ UNCHANGED <<frame, lenient, skip, pos, out>> /\ verdict' = "rejected"
        /\ frame.fault # "none"
    BY <1>4, <2>1 DEF Rejects, Fail, client
  <2>3. Positioned'
    BY <1>1, <1>2, <2>2 DEF Positioned
  <2>4. Promised
    BY <1>1, <2>2 DEF Promised, Delivery!Next, Delivery!Reject, Delivery!Fault
  <2>5. QED  BY <2>2, <2>3, <2>4 DEF Hinted
<1>5. CASE Accepts
  <2>1. PICK k \in Nat : Complete(k) /\ pos + k <= LengthOf(laid)
    BY <1>5 DEF Accepts
  <2>2. /\ UNCHANGED <<frame, lenient, out>> /\ verdict' = "complete" /\ ~skip' /\ remaining' = 0
        /\ stage' = "GetFrameHeader" /\ pos' = pos + k /\ hint' = 0
    BY <2>1 DEF Complete, ResetDctx, client
  <2>3. Given' /\ laid' = laid
    BY <1>2, <2>2
  <2>4. Positioned'
    BY <2>1, <2>2, <2>3 DEF Positioned
  <2>5. Promised
    BY <1>1, <1>5, <2>2 DEF Promised, Accepts, Delivery!Next, Delivery!Accept, Delivery!Fault
  <2>6. Hinted'
    <3>1. pos' + hint' <= LengthOf(laid') /\ stage' # "StoreCBlock" /\ LengthOf(laid') \in Nat
      BY <1>1, <2>1, <2>2, <2>3, InsideFrame
    <3>2. QED  BY <2>2, <3>1 DEF Hinted
  <2>7. QED  BY <2>4, <2>5, <2>6
<1>6. QED  BY <1>3, <1>4, <1>5 DEF Outcome

-----------------------------------------------------------------------------
(* The calls.                                                              *)

LEMMA HeaderAskedKeeps ==
  ASSUME Given, DecoderInv, DecoderInv', Positioned, NEW n \in Pieces, GetFrameInfoHeader(n)
  PROVE  Positioned' /\ Promised /\ Hinted'
<1>1. /\ Idle /\ stage = "GetFrameHeader" /\ verdict = "open" /\ TypeOK /\ TypeOK' /\ Gathered'
      /\ UNCHANGED <<frame, out, skip, lenient, call>> /\ laid' = laid /\ (skip => lenient)
      /\ Item(1)' = Item(1)
  BY InvParts DEF GetFrameInfoHeader, Ask, BufferState, DecoderInv, laid, Item, Positioned
<1>2. pos = 0 /\ out = <<>> /\ remaining = 0
  BY <1>1 DEF Positioned, Where, AtFrameHeader
<1>3. Given' /\ Clean' = Clean
  BY <1>1 DEF Given, FramesAssumption, FramesWellFormed, Clean
<1> DEFINE bytes == Src(HeaderSize)
<1>4. HeaderSize \in Nat /\ HeaderSize >= HeaderSizeMin
      /\ (Item(1).kind = "header" => HeaderSize = Item(1).size)
      /\ (Item(1).kind # "header" => HeaderSize = 2 * Word)
  BY FirstBlockHeader DEF HeaderSize, Item, Word, HeaderSizeMin, HeaderSizeMax
<1>5. bytes = Positions(0, HeaderSize)
  BY <1>2 DEF Src, Positions
<1> HIDE DEF bytes
<1>6. CASE /\ HeaderBad(bytes) /\ verdict' = "rejected"
           /\ UNCHANGED <<stage, remaining, maxBlockSize, store, target, pos, hint>>
  <2>1. frame.fault # "none"
    BY <1>4, <1>5, <1>6, BadHeaderBad
  <2>2. Positioned'
    BY <1>1, <1>6 DEF Positioned
  <2>3. Promised
    BY <1>1, <1>6, <2>1 DEF Promised, Delivery!Next, Delivery!Reject, Delivery!Fault
  <2>4. QED  BY <1>6, <2>2, <2>3 DEF Hinted
<1>7. CASE /\ ~HeaderBad(bytes) /\ DecodeHeader(bytes, FALSE)
           /\ pos' = HeaderUsed(bytes) /\ res' = "ok" /\ hint' = BHSize /\ UNCHANGED verdict
  <2>1. Where'
    BY <1>1, <1>2, <1>4, <1>5, <1>7, HeaderTaken, Zenon
  <2>2. pos' <= LengthOf(laid)
    BY <1>1, <1>3, <1>7, <2>1, PlaceNext
  <2>3. Positioned'
    BY <1>1, <1>7, <2>1, <2>2 DEF Positioned
  <2>4. Promised
    BY <1>1, <1>7 DEF Promised, Delivery!vars
  <2>5. Hinted'
    <3>1. hint' # 0 /\ verdict' = "open"
      BY <1>1, <1>7 DEF BHSize
    <3>2. ASSUME Item(1).kind = "header"
          PROVE  pos' + hint' <= LengthOf(laid) /\ LengthOf(laid) \in Nat /\ stage' # "StoreCBlock"
      <4>1. Len(bytes) = Item(1).size /\ StartsFrame(bytes)
        <5>1. 0 \in Nat
          OBVIOUS
        <5>2. Len(bytes) = HeaderSize /\ \A k \in 1..HeaderSize : bytes[k] = 0 + k
          BY <1>4, <1>5, <5>1, PositionsType, Zenon
        <5>3. QED  BY <1>4, <3>2, <5>2 DEF StartsFrame
      <4>2. Item(1).size \in Nat /\ Item(1).size + BHSize <= LengthOf(laid)
        BY <3>2, FirstBlockHeader DEF HeaderSizeMin, HeaderSizeMax
      <4>3. pos' = Item(1).size
        BY <1>7, <3>2, <4>1, <4>2 DEF HeaderUsed, Skippable, Smaller, Item
      <4>4. stage' # "StoreCBlock"
        BY <1>7 DEF DecodeHeader
      <4>5. QED  BY <1>7, <4>2, <4>3, <4>4, InsideFrame
    <3>3. QED  BY <1>1, <3>1, <3>2 DEF Hinted, Item
  <2>6. QED  BY <2>3, <2>4, <2>5
<1>8. QED  BY <1>6, <1>7, Zenon DEF GetFrameInfoHeader, bytes

(* The calls that only start a pass, are refused, or do nothing.           *)
LEMMA CallKeeps ==
  ASSUME Given, DecoderInv, DecoderInv', Positioned, Hinted,
         \/ \E n \in Pieces :
              \/ \E room \in Rooms, asked \in BOOLEAN : Decompress(n, room, asked)
              \/ GetFrameInfoRefused(n)
         \/ GetFrameInfoAfter
         \/ UNCHANGED vars
  PROVE  Positioned' /\ Promised /\ Hinted'
<1>1. (skip => lenient) /\ pos <= LengthOf(laid)
      /\ (verdict = "complete" => remaining = 0 /\ ~skip) /\ (verdict = "open" => Where)
  BY DEF Positioned
<1>2. ASSUME UNCHANGED <<stage, info, remaining, maxBlockSize, store, target, tmpOut, xxh,
                         blockXxh, pos, out, verdict, frame>>,
             skip => skip', lenient => lenient', skip' => lenient',
             verdict = "complete" => skip' = skip
      PROVE  Positioned'
  <2>1. verdict = "open" => Where'
    BY <1>1, <1>2, WhereHeld
  <2>2. laid' = laid
    BY <1>2 DEF laid
  <2>3. QED  BY <1>1, <1>2, <2>1, <2>2 DEF Positioned
<1>3. ASSUME NEW n \in Pieces, NEW room \in Rooms, NEW asked \in BOOLEAN,
             Decompress(n, room, asked)
      PROVE  Positioned' /\ Promised /\ Hinted'
  <2>1. /\ verdict = "open" /\ ~Idle' /\ skip' = (skip \/ asked) /\ lenient' = (lenient \/ asked)
        /\ UNCHANGED <<stage, info, remaining, maxBlockSize, store, target, tmpOut, xxh,
                       blockXxh, pos, out, verdict, frame>>
    BY <1>3 DEF Decompress, SkipAfter, Idle
  <2>2. Positioned'
    BY <1>1, <1>2, <2>1, Zenon
  <2>3. Promised
    <3>1. CASE asked
      <4>1. lenient' = TRUE
        BY <2>1, <3>1, Zenon
      <4>2. Delivery!Relax
        BY <2>1, <4>1 DEF Delivery!Relax
      <4>3. QED  BY <4>2 DEF Promised, Delivery!Next
    <3>2. CASE ~asked
      <4>1. lenient' = lenient
        <5>1. lenient \in BOOLEAN
          BY DEF DecoderInv, TypeOK
        <5>2. QED  BY <2>1, <3>2, <5>1
      <4>2. QED  BY <2>1, <4>1 DEF Promised, Delivery!vars
    <3>3. QED  BY <3>1, <3>2
  <2>4. QED  BY <2>1, <2>2, <2>3 DEF Hinted
<1>4. ASSUME UNCHANGED <<dctx, pos, out, verdict, frame, lenient>>
      PROVE  Positioned' /\ Promised
  <2>1. Positioned'
    BY <1>1, <1>2, <1>4 DEF dctx
  <2>2. QED  BY <1>4, <2>1 DEF Promised, Delivery!vars
<1>5. ASSUME NEW n \in Pieces, GetFrameInfoRefused(n) PROVE Positioned' /\ Promised /\ Hinted'
  <2>1. res' # "ok"
    BY <1>5 DEF GetFrameInfoRefused, Refused
  <2>2. QED  BY <1>4, <1>5, <2>1 DEF GetFrameInfoRefused, Hinted
<1>6. CASE GetFrameInfoAfter
  <2>1. ~Idle'
    BY <1>6 DEF GetFrameInfoAfter, Idle
  <2>2. QED  BY <1>4, <1>6, <2>1 DEF GetFrameInfoAfter, Hinted
<1>7. CASE UNCHANGED vars
  <2>1. UNCHANGED <<dctx, pos, out, verdict, frame, lenient, call, res, hint>>
    BY <1>7 DEF vars, client
  <2>2. Hinted'
    BY <2>1 DEF Hinted, Idle, laid, CrcSize, dctx
  <2>3. QED  BY <1>4, <2>1, <2>2
<1>8. QED  BY <1>3, <1>5, <1>6, <1>7

LEMMA FirstHint ==
  Given' => (Item(1).kind = "header" => HeaderSizeMin <= LengthOf(laid))' /\ (LengthOf(laid) \in Nat)'
<1>1. Given => (Item(1).kind = "header" => HeaderSizeMin <= LengthOf(laid)) /\ LengthOf(laid) \in Nat
  BY FirstBlockHeader, InsideFrame DEF HeaderSizeMin, HeaderSizeMax, BHSize
<1>2. QED  BY <1>1, PTL

LEMMA FrameKeeps ==
  ASSUME FramesAssumption, FramesWellFormed, Rested, Positioned, NextFrame \/ Reset
  PROVE  Positioned' /\ Promised /\ Hinted'
<1>1. /\ frame' \in Frames /\ pos' = 0 /\ out' = <<>> /\ verdict' = "open" /\ lenient' = FALSE
      /\ res' = "ok" /\ hint' = HeaderSizeMin
  BY DEF NextFrame, Reset, OpenFrame
<1>2. Given'
  BY <1>1 DEF Given, FramesAssumption, FramesWellFormed
<1>3. stage' = "GetFrameHeader" /\ remaining' = 0 /\ ~skip'
  BY DEF NextFrame, Reset, ResetDctx, Rested, Positioned, dctx
<1>4. Where'
  BY <1>1, <1>3, WhereBegins DEF AtFrameHeader
<1>5. LengthOf(laid') \in Nat /\ (Item(1)'.kind = "header" => HeaderSizeMin <= LengthOf(laid'))
  BY <1>2, FirstHint
<1>6. Positioned'
  BY <1>1, <1>3, <1>4, <1>5 DEF Positioned
<1>7. Promised
  BY <1>1 DEF Promised, Delivery!Next, Delivery!Open
<1>8. Hinted'
  BY <1>1, <1>3, <1>5 DEF Hinted, Item, HeaderSizeMin
<1>9. QED  BY <1>6, <1>7, <1>8

-----------------------------------------------------------------------------
(* The decoder keeps its promise and stays in the frame.                   *)

PlaceInv == DecoderInv /\ Rested /\ Seeding /\ Positioned /\ Hinted

LEMMA PlaceInit ==
  ASSUME FramesAssumption, FramesWellFormed, Init
  PROVE  Seeding /\ Positioned /\ Hinted /\ Delivery!Init
<1>1. /\ stage = "GetFrameHeader" /\ remaining = 0 /\ skip = FALSE /\ call = NoCall /\ res = "ok"
      /\ hint = HeaderSizeMin /\ frame \in Frames /\ pos = 0 /\ out = <<>> /\ verdict = "open"
      /\ lenient = FALSE /\ dict = <<>>
  BY DEF Init
<1>2. Given
  BY <1>1 DEF Given
<1>3. LengthOf(laid) \in Nat /\ (Item(1).kind = "header" => HeaderSizeMin <= LengthOf(laid))
  BY <1>2, FirstBlockHeader, InsideFrame DEF HeaderSizeMin, HeaderSizeMax, BHSize
<1>4. Where
  BY <1>1 DEF Where, AtFrameHeader
<1>5. Positioned
  BY <1>1, <1>3, <1>4 DEF Positioned
<1>6. Hinted
  BY <1>1, <1>3 DEF Hinted, Item, HeaderSizeMin
<1>7. Seeding
  BY <1>1 DEF Seeding, NoCall, BlockStages, HeaderStages
<1>8. Delivery!Init
  BY <1>1 DEF Delivery!Init
<1>9. QED  BY <1>5, <1>6, <1>7, <1>8

LEMMA PlaceStep ==
  ASSUME FramesAssumption, FramesWellFormed, AskedOnce, PlaceInv, [Next]_vars
  PROVE  PlaceInv' /\ Promised
<1>1. /\ DecoderInv /\ Rested /\ Seeding /\ Positioned /\ Hinted /\ Given
  BY DEF PlaceInv, Given, DecoderInv, TypeOK
<1>2. DecoderInv' /\ Rested'
  BY <1>1, DecoderStep, RestedStep
<1>3. Seeding'
  BY <1>1, SeedPass, SeedCall
<1>4. CASE Pass
  <2>1. Outcome
    BY <1>1, <1>4, PassOutcome
  <2>2. ~Idle
    BY <1>4, Zenon DEF Pass, GetFrameHeader, StoreFrameHeader, InitFrame, GetBlockHeader,
      StoreBlockHeader, CopyDirect, GetBlockChecksum, GetCBlock, StoreCBlock, FlushOut,
      GetSuffix, StoreSuffix, GetSFrameSize, StoreSFrameSize, SkipSkippable, At, Idle
  <2>3. Positioned' /\ Promised /\ Hinted'
    BY <1>1, <1>2, <2>1, <2>2, PassKeeps
  <2>4. QED  BY <1>2, <1>3, <2>3 DEF PlaceInv
<1>5. CASE \E n \in Pieces : GetFrameInfoHeader(n)
  <2>1. Positioned' /\ Promised /\ Hinted'
    BY <1>1, <1>2, <1>5, HeaderAskedKeeps
  <2>2. QED  BY <1>2, <1>3, <2>1 DEF PlaceInv
<1>6. CASE \/ \E n \in Pieces :
                \/ \E room \in Rooms, asked \in BOOLEAN : Decompress(n, room, asked)
                \/ GetFrameInfoRefused(n)
           \/ GetFrameInfoAfter
           \/ UNCHANGED vars
  <2>1. Positioned' /\ Promised /\ Hinted'
    BY <1>1, <1>2, <1>6, CallKeeps
  <2>2. QED  BY <1>2, <1>3, <2>1 DEF PlaceInv
<1>7. CASE NextFrame \/ Reset
  <2>1. Positioned' /\ Promised /\ Hinted'
    BY <1>1, <1>7, FrameKeeps
  <2>2. QED  BY <1>2, <1>3, <2>1 DEF PlaceInv
<1>8. QED  BY <1>4, <1>5, <1>6, <1>7 DEF Next, Done

LEMMA PlaceInvariant ==
  ASSUME FramesAssumption, FramesWellFormed, AskedOnce PROVE Spec => []PlaceInv
<1>1. Init => PlaceInv
  BY DecoderInit, PlaceInit DEF PlaceInv
<1>2. PlaceInv /\ [Next]_vars => PlaceInv'
  BY PlaceStep
<1>3. QED  BY <1>1, <1>2, PTL DEF Spec

(* Whatever the client feeds and however it cuts it into calls, what comes *)
(* out of the decompressor is the content in order, a frame is complete    *)
(* only when all of it has come out and nothing is wrong with it that the  *)
(* client wants to know of, and a frame is rejected only when something is *)
(* wrong with it: the loop of frame.rs 884-1476 implements FrameDelivery.  *)
THEOREM DecodingKeepsPromise ==
  ASSUME FramesAssumption, FramesWellFormed, AskedOnce PROVE Spec => DeliversInOrder
<1>1. Init => Delivery!Init
  BY PlaceInit
<1>2. PlaceInv /\ [Next]_vars => [Delivery!Next]_(Delivery!vars)
  BY PlaceStep DEF Promised
<1>3. QED  BY <1>1, <1>2, PlaceInvariant, PTL DEF Spec, DeliversInOrder, Delivery!Spec

(* A call reads nothing beyond the frame, says that the frame is complete  *)
(* when it is and never before, and asks for no byte beyond the frame's    *)
(* end, save for the checksum that StoreCBlock counts twice.               *)
THEOREM NeverBeyondFrame ==
  ASSUME FramesAssumption, FramesWellFormed, AskedOnce PROVE Spec => []StaysInFrame
<1>1. PlaceInv => StaysInFrame
  BY DEF PlaceInv, Positioned, Hinted, StaysInFrame
<1>2. QED  BY <1>1, PlaceInvariant, PTL
=============================================================================
