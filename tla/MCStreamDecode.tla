---------------------------- MODULE MCStreamDecode ----------------------------
(***************************************************************************)
(* Instances of StreamDecode for TLC: a caller of each discipline.  The    *)
(* window is 24 bytes; the widths of copies, and what a ring has to spare  *)
(* for them, are the code's.                                               *)
(***************************************************************************)
EXTENDS StreamDecode

Block(seqs, last) == [seqs |-> seqs, last |-> last, sound |-> TRUE]
Match(lits, offset, length) == [lits |-> lits, offset |-> offset, length |-> length]
Count(from, n) == [i \in 1..n |-> from + i - 1]

Plain  == Block(<<>>, Count(1, 16))
Short  == Block(<<>>, Count(21, 11))
Empty  == Block(<<>>, <<>>)
Far    == Block(<<Match(<<>>, 23, 4), Match(<<41>>, 23, 4)>>, <<42>>)
Within == Block(<<Match(<<45, 46>>, 2, 9)>>, <<>>)
Broken == [Within EXCEPT !.sound = FALSE]

FreeBlocks == {Short, Empty, Far, Within, Broken}
RingBlocks == {Plain, Short, Far, Within}
AnyBlock == FreeBlocks \cup RingBlocks
MCDicts == {Count(61, 9), Count(61, 30)}

(* Blocks anywhere, some of them damaged.                                  *)
Free == INSTANCE StreamDecode WITH
  Blocks <- FreeBlocks, Places <- {30, 95}, Callers <- {"free"}, MaxCalls <- 4

(* Blocks round and round a buffer that is just large enough.              *)
Ring == INSTANCE StreamDecode WITH
  Blocks <- RingBlocks, Places <- {}, Callers <- {"ring"}, MaxCalls <- 6

MCInit == Free!Init \/ Ring!Init
MCNext == \/ caller = "free" /\ Free!Next
          \/ caller = "ring" /\ Ring!Next
MCSpec == MCInit /\ [][MCNext]_vars
==============================================================================
