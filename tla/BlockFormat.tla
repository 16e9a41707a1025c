----------------------------- MODULE BlockFormat -----------------------------
(***************************************************************************)
(* The LZ4 block format.  A block is a list of sequences, each some        *)
(* literals and a match, and then the last literals.  Bytes are numbers;   *)
(* histories and contents are sequences of them.  BlockBytes lays a block  *)
(* out, Reading takes any run of bytes apart again, Expand says what a     *)
(* block means.  None of them knows of buffers, margins or fast paths:     *)
(* they are what the decoder and the compressor of src/block.rs are        *)
(* compared with.                                                          *)
(***************************************************************************)
EXTENDS Integers, Sequences, FiniteSets, SequencesExt

MINMATCH     == 4
LASTLITERALS == 5
MFLIMIT      == 12
RUN_MASK     == 15
ML_MASK      == 15
OffsetSize   == 2

(* A sequence is [lits, offset, length].                                   *)
(* A length of 15 and more leaves its nibble full and goes on in bytes,    *)
(* each 255 but the last.                                                  *)
Extension(n) ==
  IF n < 15 THEN <<>>
  ELSE [i \in 1..((n - 15) \div 255) |-> 255] \o <<(n - 15) % 255>>
Nibble(n) == IF n < 15 THEN n ELSE 15

SequenceBytes(s) ==
  <<16 * Nibble(Len(s.lits)) + Nibble(s.length - MINMATCH)>>
  \o Extension(Len(s.lits)) \o s.lits
  \o <<s.offset % 256, s.offset \div 256>> \o Extension(s.length - MINMATCH)

LastBytesOf(lits) == <<16 * Nibble(Len(lits))>> \o Extension(Len(lits)) \o lits

BlockBytes(b) ==
  FlattenSeq([i \in 1..Len(b.seqs) |-> SequenceBytes(b.seqs[i])]) \o LastBytesOf(b.last)

(* A match repeats what lies offset bytes back, over and over when it is   *)
(* longer than that.  An offset of 0 has no meaning; readers agree to read *)
(* zeros.                                                                  *)
Matched(out, offset, n) ==
  [i \in 1..n |-> IF offset = 0 THEN 0 ELSE out[Len(out) - offset + ((i - 1) % offset) + 1]]

Grown(out, s) ==
  LET o == out \o s.lits IN o \o Matched(o, s.offset, s.length)

(* What a block yields after a history, the history included; and whether  *)
(* its matches stay within what there is.                                  *)
Yields(history, seqs) ==
  LET grown[i \in 0..Len(seqs)] == IF i = 0 THEN history ELSE Grown(grown[i - 1], seqs[i])
  IN  grown
Expand(history, b) == Yields(history, b.seqs)[Len(b.seqs)] \o b.last

Before(history, b, i) == Yields(history, b.seqs)[i - 1] \o b.seqs[i].lits
Reaches(history, b) ==
  \A i \in 1..Len(b.seqs) : b.seqs[i].offset <= Len(Before(history, b, i))

Content(history, b) == SubSeq(Expand(history, b), Len(history) + 1, Len(Expand(history, b)))

(* What the format asks of a writer: the last 5 bytes are literals, and    *)
(* the last match starts 12 bytes or more before the end.                  *)
Conforming(b) ==
  \/ b.seqs = <<>>
  \/ /\ Len(b.last) >= LASTLITERALS
     /\ b.seqs[Len(b.seqs)].length + Len(b.last) >= MFLIMIT
     /\ \A i \in 1..Len(b.seqs) : b.seqs[i].offset > 0

(* Reading bytes from position p: a nibble and its extension, if the bytes *)
(* suffice.                                                                *)
RunEnd(bytes, p) == SelectInSubSeq(bytes, p, Len(bytes), LAMBDA b : b # 255)
NumberAt(bytes, nibble, p) ==
  IF nibble < 15 THEN [ok |-> TRUE, n |-> nibble, next |-> p]
  ELSE LET e == RunEnd(bytes, p)
       IN  IF e = 0 THEN [ok |-> FALSE, n |-> 0, next |-> p]
           ELSE [ok |-> TRUE, n |-> 15 + 255 * (e - p) + bytes[e], next |-> e + 1]

(* The block that a run of bytes is, or "unreadable".                      *)
Unreadable == [ok |-> FALSE, seqs |-> <<>>, last |-> <<>>]
Reading(bytes) ==
  LET from[p \in 1..(Len(bytes) + 1)] ==
        IF p > Len(bytes) THEN Unreadable
        ELSE LET lits == NumberAt(bytes, bytes[p] \div 16, p + 1)
                 end  == lits.next + lits.n
             IN  IF ~lits.ok \/ end > Len(bytes) + 1 THEN Unreadable
                 ELSE IF end = Len(bytes) + 1
                 THEN [ok |-> TRUE, seqs |-> <<>>, last |-> SubSeq(bytes, lits.next, end - 1)]
                 ELSE IF end + 1 > Len(bytes) THEN Unreadable
                 ELSE LET len  == NumberAt(bytes, bytes[p] % 16, end + OffsetSize)
                          rest == from[len.next]
                      IN  IF ~len.ok \/ ~rest.ok THEN Unreadable
                          ELSE [rest EXCEPT !.seqs =
                                 <<[lits   |-> SubSeq(bytes, lits.next, end - 1),
                                    offset |-> bytes[end] + 256 * bytes[end + 1],
                                    length |-> len.n + MINMATCH]>> \o @]
  IN  from[1]
==============================================================================
