---------------------------- MODULE MCBlockDecoder ----------------------------
(***************************************************************************)
(* Instances of BlockDecoder and FastDecoder for TLC.  Every margin, mask  *)
(* and word has its real size; only in some calls the window is small, so  *)
(* that a history can fill it.  Literals are numbered bytes, so that no    *)
(* two of them are alike.                                                  *)
(***************************************************************************)
EXTENDS BlockDecoder

VARIABLES
  who,                                           \* the decoder that is called
  fcall, fip, fop, output, dst, fpc, read        \* FastDecoder's

fast == <<fcall, fip, fop, output, dst, fpc, read>>
mcVars == <<who, vars, fast>>

Lits(n, from) == [i \in 1..n |-> ((from + i) % 200) + 1]
Past(n) == [i \in 1..n |-> 200 + i]
S(n, from, offset, length) == [lits |-> Lits(n, from), offset |-> offset, length |-> length]
OneMatch(n, offset, length, last) ==
  [seqs |-> <<S(n, 0, offset, length)>>, last |-> Lits(last, 100)]
TwoMatches(n, offset, length, n2, offset2, length2, last) ==
  [seqs |-> <<S(n, 0, offset, length), S(n2, 50, offset2, length2)>>, last |-> Lits(last, 100)]
NoMatch(n) == [seqs |-> <<>>, last |-> Lits(n, 0)]

Size(b) == LET part(i) == Len(b.seqs[i].lits) + b.seqs[i].length
           IN  (IF b.seqs = <<>> THEN 0 ELSE part(1) + (IF Len(b.seqs) = 2 THEN part(2) ELSE 0))
               + Len(b.last)

(* A block decoded whole, after prefix bytes before the output and ext     *)
(* bytes elsewhere, into room bytes.                                       *)
Whole(b, ext, prefix, room) ==
  [bytes |-> BlockBytes(b), inPlace |-> FALSE, from |-> 0,
   buf |-> SubSeq(Past(ext + prefix), ext + 1, ext + prefix) \o [i \in 1..room |-> Stale],
   prefix |-> prefix, start |-> prefix, room |-> room, ext |-> SubSeq(Past(ext + prefix), 1, ext),
   partial |-> FALSE, target |-> 0, origin |-> b]
Wanted(c, n) == [c EXCEPT !.partial = TRUE, !.target = n]
Cut(c, n) == [c EXCEPT !.bytes = SubSeq(@, 1, n)]
Damaged(c, i, byte) == [c EXCEPT !.bytes[i] = byte]

(* The block at the end of a buffer that has room for its content and a    *)
(* margin (LZ4_DECOMPRESS_INPLACE_MARGIN), and the output at its start.    *)
InPlace(b, margin) ==
  LET bytes == BlockBytes(b)
      n     == Size(b) + margin
  IN  [Whole(b, 0, 0, Size(b)) EXCEPT
        !.inPlace = TRUE, !.from = n - Len(bytes),
        !.buf = [i \in 1..(n - Len(bytes)) |-> Stale] \o bytes]
InPlaceMargin(b) == (Len(BlockBytes(b)) \div 256) + 32

Histories == {<<0, 0>>, <<6, 0>>, <<0, 6>>, <<4, 3>>}
FullHistories == {<<24, 0>>, <<0, 24>>, <<5, 20>>}
ShortBlocks ==
  {OneMatch(n, o, l, last) : n \in {0, 1, 4, 14, 15, 33}, o \in {0, 1, 3, 7, 8, 20},
                             l \in {4, 9, 18, 19, 40}, last \in {4, 5, 8, 30}}
  \cup {NoMatch(n) : n \in {0, 1, 14, 15, 30}}
LongBlocks ==
  {TwoMatches(n, o, l, n2, o2, l2, last) :
     n \in {8, 14}, o \in {3, 8}, l \in {6, 18}, n2 \in {0, 14}, o2 \in {1, 2, 4, 5, 6, 9, 12},
     l2 \in {4, 7, 13, 18, 35}, last \in {5, 8, 20}}

(* Histories as large as the window or larger: offsets go unchecked.       *)
FullCalls ==
  {Whole(OneMatch(n, o, l, 12), h[1], h[2], n + l + 12) :
     n \in {0, 1, 14}, o \in {1, 8, 20, 23}, l \in {4, 18, 30}, h \in FullHistories}

(* Blocks that reach before a history with a prefix are the subject of the *)
(* run prefixReach.                                                        *)
HistoryOf(c) == c.ext \o SubSeq(c.buf, 1, c.prefix)
Overreaching(c) == c.prefix > 0 /\ ~Reaches(HistoryOf(c), c.origin)
AllWhole ==
  {Whole(b, h[1], h[2], Size(b) + slack) : b \in ShortBlocks, h \in Histories, slack \in {0, 9}}
OverreachingCalls == {c \in AllWhole : Overreaching(c)}
WholeCalls ==
  {c \in AllWhole : ~Overreaching(c)}
  \cup {Whole(b, 0, 0, Size(b)) : b \in LongBlocks} \cup FullCalls

(* Cut anywhere, or with one byte another one, and into less room.         *)
FewBlocks == {OneMatch(14, 8, 18, 20), OneMatch(15, 3, 19, 12), OneMatch(2, 1, 60, 8), NoMatch(16),
              TwoMatches(8, 8, 6, 3, 12, 14, 20), TwoMatches(14, 9, 18, 0, 2, 7, 5)}
FewHistories == {<<0, 0>>, <<6, 0>>}
HarmedCalls ==
  LET bare(b) == Whole(b, 0, 0, Size(b))
  IN  UNION {{Cut(bare(b), k) : k \in 0..Len(BlockBytes(b))} : b \in FewBlocks}
      \cup UNION {{Damaged(Whole(b, h[1], h[2], Size(b)), i, v) :
                     i \in 1..Len(BlockBytes(b)), v \in {0, 1, 15, 16, 240, 255}} :
                  b \in FewBlocks, h \in FewHistories}
      \cup UNION {{Whole(b, 0, 0, n) : n \in 0..Size(b)} : b \in FewBlocks}
      \cup UNION {{Damaged(Whole(b, 0, 0, n), 1, 0) : n \in 1..13} : b \in FewBlocks}

(* Partial decodes of whole blocks and of blocks cut short.                *)
PartialCalls ==
  UNION {{Wanted(Whole(b, h[1], h[2], Size(b)), n) : n \in 0..(Size(b) + 1)} :
           b \in FewBlocks, h \in Histories}
  \cup UNION {{Wanted(Cut(Whole(b, h[1], h[2], room), k), n) :
                 k \in 0..Len(BlockBytes(b)), n \in {3, 9, 15, 22, 30, 44}, room \in {21, 40}} :
                b \in FewBlocks, h \in FewHistories}

InPlaceCalls ==
  {InPlace(b, InPlaceMargin(b)) :
     b \in {x \in ShortBlocks \cup LongBlocks : Reaches(<<>>, x) /\ Conforming(x)}}

WideCalls == HarmedCalls \cup PartialCalls \cup InPlaceCalls
AnyCall == WholeCalls \cup WideCalls

-----------------------------------------------------------------------------
(* Calls of the fast decoder: blocks whose content is larger, equal and    *)
(* smaller than the size asked for, with histories of both kinds and       *)
(* matches over every seam, whole or with one byte replaced.               *)
FastCall(b, ext, prefix, size) ==
  [bytes |-> BlockBytes(b), size |-> size, origin |-> b,
   external |-> [i \in 1..ext |-> 200 + i], prefix |-> [i \in 1..prefix |-> 230 + i]]

FastBlocks ==
  {OneMatch(n, o, l, last) : n \in {0, 1, 15, 16}, o \in {0, 1, 3, 7, 9, 12},
                             l \in {4, 9, 19, 30}, last \in {4, 5, 8, 16}}
  \cup {TwoMatches(n, 2, 5, 1, o, l, last) :
          n \in {0, 4}, o \in {1, 5, 8, 11, 14}, l \in {4, 12, 19}, last \in {5, 8}}
FastFew == {OneMatch(5, 3, 9, 8), TwoMatches(4, 2, 5, 1, 11, 19, 12)}

FastCalls ==
  {FastCall(b, h[1], h[2], Size(b) + more) :
     b \in FastBlocks, h \in {<<0, 0>>, <<4, 0>>, <<0, 4>>, <<3, 5>>}, more \in {-1, 0, 1}}
  \cup UNION {{Damaged(FastCall(b, 3, 5, Size(b)), i, v) :
                 i \in 1..Len(BlockBytes(b)), v \in {0, 1, 16, 31, 80}} : b \in FastFew}

-----------------------------------------------------------------------------
Narrow == INSTANCE BlockDecoder WITH Window <- 24, Calls <- WholeCalls
Wide == INSTANCE BlockDecoder WITH Window <- 65536, Calls <- WideCalls
Over == INSTANCE BlockDecoder WITH Window <- 24, Calls <- OverreachingCalls
Fast == INSTANCE FastDecoder WITH
  Calls <- FastCalls,
  call <- fcall, ip <- fip, op <- fop, output <- output, dst <- dst, pc <- fpc, read <- read

(* A decoder nobody calls.                                                 *)
BlockIdle == StartOf(Whole(NoMatch(1), 0, 0, 1))
FastIdle == Fast!StartOf(FastCall(OneMatch(0, 1, 4, 8), 0, 0, 12))

MCInit ==
  \/ who = "narrow" /\ Narrow!Init /\ FastIdle
  \/ who = "wide" /\ Wide!Init /\ FastIdle
  \/ who = "fast" /\ BlockIdle /\ Fast!Init

MCNext ==
  \/ who = "narrow" /\ Narrow!Next /\ UNCHANGED <<who, fast>>
  \/ who = "wide" /\ Wide!Next /\ UNCHANGED <<who, fast>>
  \/ who = "fast" /\ Fast!Next /\ UNCHANGED <<who, vars>>

MCSpec == MCInit /\ [][MCNext]_mcVars

(* Blocks that reach before a history with a prefix, apart.                *)
OverInit == who = "over" /\ Over!Init /\ FastIdle
OverSpec == OverInit /\ [][Over!Next /\ UNCHANGED <<who, fast>>]_mcVars

(* A block of the size asked for is decoded exactly, and no other block    *)
(* leaves bytes in the caller's buffer: DecodesExactly and AllOrNothing of *)
(* FastDecoder (block.rs 1933-2036, ffi.rs 720-752).                       *)
FastDecodes == Fast!DecodesExactly /\ Fast!AllOrNothing
==============================================================================
