----------------------------- MODULE FrameFormat -----------------------------
(***************************************************************************)
(* The LZ4 frame format as src/frame.rs writes and reads it.  A frame is a *)
(* sequence of items (a header, block headers, bodies, checksums, ...) and *)
(* its bytes are named by their positions 1..length: a reader that has     *)
(* gathered exactly the positions of an item has that item, and one that   *)
(* has gathered anything else has garbage.                                 *)
(*                                                                         *)
(* Content bytes are numbered from 1 in the order they are produced, a     *)
(* dictionary's last byte is number 0, the one before it -1, and so on.    *)
(***************************************************************************)
EXTENDS Integers, Sequences

HeaderSizeMin == 7
HeaderSizeMax == 19
BHSize == 4
BFSize == 4
Word   == 4       \* the magic number, a skippable frame's size, a checksum

(* The header: two descriptor bytes and a checksum besides the magic       *)
(* number, 8 more for a content size and 4 more for a dictionary           *)
(* identifier.  An unsound one has a wrong checksum, a reserved bit set or *)
(* an unknown version.                                                     *)
HeaderItem(info, sound) ==
  [kind |-> "header", info |-> info, sound |-> sound,
   size |-> HeaderSizeMin + (IF info.contentSize # 0 THEN 8 ELSE 0)
                          + (IF info.dictID THEN 4 ELSE 0)]

(* A block is [stored, size, from, to, reach, sound]: its body takes size  *)
(* bytes and decodes to content bytes from + 1 .. to, given the reach      *)
(* history bytes before them: content of the frame when blocks are linked, *)
(* the end of the dictionary when not.  An unsound one was damaged on its  *)
(* way.                                                                    *)
BlockItems(info, b) ==
  <<[kind |-> "blockHeader", size |-> BHSize, length |-> b.size, stored |-> b.stored],
    [kind |-> "body", size |-> b.size, from |-> b.from, to |-> b.to, reach |-> b.reach,
     base |-> IF info.linked THEN b.from ELSE 0, sound |-> b.sound]>>
  \o (IF info.blockChecksum
      THEN <<[kind |-> "blockCrc", size |-> BFSize, covers |-> b.size, sound |-> b.sound]>>
      ELSE <<>>)

EndMarkItem == [kind |-> "blockHeader", size |-> BHSize, length |-> 0, stored |-> FALSE]
ContentCrcItem(n) == [kind |-> "contentCrc", size |-> BFSize, covers |-> n]

(* A skippable frame: a magic number, a size and that many bytes.          *)
SkippableItems(n) ==
  <<[kind |-> "skippableMagic", size |-> Word],
    [kind |-> "skippableSize", size |-> Word, length |-> n],
    [kind |-> "userData", size |-> n]>>

(* Items laid out one after the other, each with the position it follows.  *)
Laid(items) ==
  LET after[i \in 0..Len(items)] ==
        IF i = 0 THEN 0 ELSE after[i - 1] + items[i].size
  IN  [i \in 1..Len(items) |-> [item |-> items[i], at |-> after[i - 1]]]

LengthOf(laid) == laid[Len(laid)].at + laid[Len(laid)].item.size

(* What a reader makes of bytes s: the item they are, and where it lies.   *)
Garbled == [item |-> [kind |-> "garbled"], at |-> 0]

Recover(laid, s) ==
  LET whole == { i \in 1..Len(laid) :
                   s # <<>> /\ s = [k \in 1..laid[i].item.size |-> laid[i].at + k] }
  IN  IF whole = {} THEN Garbled ELSE laid[CHOOSE i \in whole : TRUE]

(* s begins as the frame does.                                             *)
StartsFrame(s) == \A k \in 1..Len(s) : s[k] = k

(* The content byte a stored body holds at position p.                     *)
StoredByte(laid, p) ==
  LET here == { i \in 1..Len(laid) : p \in (laid[i].at + 1)..(laid[i].at + laid[i].item.size) }
  IN  IF here = {} THEN 0
      ELSE LET l == laid[CHOOSE i \in here : TRUE]
           IN  IF l.item.kind = "body" /\ l.item.sound THEN l.item.from + (p - l.at) ELSE 0

(* The checksum s was computed over the bytes hashed: a block's over the   *)
(* body before it, the content's over all content bytes.                   *)
BlockCrcMatches(laid, s, hashed) ==
  LET l == Recover(laid, s)
  IN  /\ l.item.kind = "blockCrc" /\ l.item.sound
      /\ hashed = [k \in 1..l.item.covers |-> l.at - l.item.covers + k]
ContentCrcMatches(laid, s, hashed) ==
  LET l == Recover(laid, s)
  IN  l.item.kind = "contentCrc" /\ hashed = [k \in 1..l.item.covers |-> k]
=============================================================================
