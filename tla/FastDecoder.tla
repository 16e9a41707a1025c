----------------------------- MODULE FastDecoder -----------------------------
(***************************************************************************)
(* LZ4_decompress_fast and its kin (src/block.rs 1924-2038, src/ffi.rs     *)
(* 707-755): decoding driven by the size of the output, from a source      *)
(* whose length nobody knows.  What keeps the source within bounds is only *)
(* that the block is sound and the size right.  Output goes to a scratch   *)
(* buffer and reaches the caller when the whole block is decoded.          *)
(***************************************************************************)
EXTENDS BlockFormat

CONSTANT Calls   \* [bytes, size, external, prefix, origin]

VARIABLES
  call, ip, op,
  output,        \* the scratch buffer
  dst,           \* the caller's
  pc,            \* "running", "failed", or "done": ip is then the result
  read           \* ghost: how far the source was read

vars == <<call, ip, op, output, dst, pc, read>>

Stale == 256
Byte(k) == IF k < Len(call.bytes) THEN call.bytes[k + 1] ELSE Stale
history == call.external \o call.prefix
Left == call.size - op

Smaller(x, y) == IF x < y THEN x ELSE y

(* A length and its extension, followed until a byte other than 255; a     *)
(* source that has run out is memory nobody can speak of, and ends it.     *)
LengthAt(nibble, k) ==
  IF nibble # 15 THEN [n |-> nibble, next |-> k]
  ELSE LET e == CHOOSE x \in k..(k + Len(call.bytes)) :
                  Byte(x) # 255 /\ \A y \in k..(x - 1) : Byte(y) = 255
       IN  [n |-> 15 + 255 * (e - k) + Byte(e), next |-> e + 1]

Put(out, at, bytes) ==
  [i \in DOMAIN out |-> IF i > at /\ i <= at + Len(bytes) THEN bytes[i - at] ELSE out[i]]

(* The match, segment by segment: the external history, the prefix, then   *)
(* the output itself, whose copy may overlap what it writes (copy_match).  *)
Segment(s, from, n) == SubSeq(s, from + 1, from + n)
Repeated(out, at, src, n) == [i \in 1..n |-> out[src + ((i - 1) % (at - src)) + 1]]
MatchOneCopy(out, at, offset, n) ==               \* Slip: a match is in one place only
  LET src == Len(history) + at - offset
      ext == Len(call.external)
  IN  IF offset = 0 THEN Put(out, at, [i \in 1..n |-> 0])
      ELSE IF src < ext THEN Put(out, at, Segment(call.external, src, Smaller(n, ext - src)))
      ELSE IF src < Len(history)
      THEN Put(out, at, Segment(call.prefix, src - ext, Smaller(n, Len(history) - src)))
      ELSE Put(out, at, Repeated(out, at, src - Len(history), n))
Match(out, at, offset, n) ==
  LET src   == Len(history) + at - offset
      ext   == Len(call.external)
      one   == IF src < ext THEN Smaller(n, ext - src) ELSE 0
      two   == IF one < n /\ src + one < Len(history)
               THEN Smaller(n - one, Len(history) - src - one) ELSE 0
      head  == Segment(call.external, src, one) \o Segment(call.prefix, src + one - ext, two)
      o     == Put(out, at, head)
      done  == one + two
  IN  IF offset = 0 THEN Put(out, at, [i \in 1..n |-> 0])
      ELSE IF done = n THEN o
      ELSE Put(o, at + done, Repeated(o, at + done, src + done - Len(history), n - done))

Seen(k) == read' = (IF read > k THEN read ELSE k)
Failed(k) == pc' = "failed" /\ ip' = k /\ Seen(k) /\ UNCHANGED <<call, op, output, dst>>

TokenLiterals == LengthAt(Byte(ip) \div 16, ip + 1)
TokenMatch(k) == LengthAt(Byte(ip) % 16, k + OffsetSize)
OffsetAt(k) == Byte(k) + 256 * Byte(k + 1)

LiteralsTooLong ==
  /\ pc = "running"
  /\ Left < TokenLiterals.n
  /\ Failed(TokenLiterals.next)

(* No match can start so close to the end: this was the last sequence.     *)
TooNear(left) == left < MFLIMIT

WithLiterals(l) == Put(output, op, [i \in 1..l.n |-> Byte(l.next + i - 1)])

LastSequence ==
  /\ pc = "running"
  /\ LET l == TokenLiterals
     IN  /\ Left >= l.n /\ TooNear(Left - l.n)
         /\ IF Left = l.n
            THEN /\ output' = WithLiterals(l) /\ dst' = output' /\ pc' = "done"
                 /\ op' = op + l.n /\ ip' = l.next + l.n /\ Seen(l.next + l.n)
                 /\ UNCHANGED call
            ELSE Failed(l.next + l.n)

Refused(left, n, offset) == left < n \/ offset > Len(history) + call.size - left

MatchSequence ==
  /\ pc = "running"
  /\ LET l == TokenLiterals
         m == TokenMatch(l.next + l.n)
         n == m.n + MINMATCH
         offset == OffsetAt(l.next + l.n)
     IN  /\ Left >= l.n /\ ~TooNear(Left - l.n)
         /\ IF Refused(Left - l.n, n, offset) \/ Left - l.n - n < LASTLITERALS
            THEN Failed(m.next)
            ELSE /\ output' = Match(WithLiterals(l), op + l.n, offset, n)
                 /\ op' = op + l.n + n /\ ip' = m.next /\ Seen(m.next)
                 /\ UNCHANGED <<call, dst, pc>>

Finished == pc # "running" /\ UNCHANGED vars

StartOf(c) ==
  /\ call = c
  /\ ip = 0 /\ op = 0 /\ read = 0 /\ pc = "running"
  /\ output = [i \in 1..call.size |-> 0]
  /\ dst = [i \in 1..call.size |-> Stale]
Init == \E c \in Calls : StartOf(c)

Next == LiteralsTooLong \/ LastSequence \/ MatchSequence \/ Finished
Spec == Init /\ [][Next]_vars

(* ------------------------------ properties ----------------------------- *)
Truth == Content(history, call.origin)
Intact == call.bytes = BlockBytes(call.origin)
Sized == Intact /\ Reaches(history, call.origin) /\ Len(Truth) = call.size

(* A block of the right size that keeps the end-of-block rules is decoded  *)
(* to its content, reading exactly its bytes, none after them (block.rs    *)
(* 1933-2036).                                                             *)
DecodesExactly ==
  Sized /\ Conforming(call.origin) =>
    /\ read <= Len(call.bytes)
    /\ pc # "running" => pc = "done" /\ ip = Len(call.bytes) /\ dst = Truth

(* The caller's buffer is written only by a decode that succeeds, and then *)
(* with what the bytes mean (ffi.rs 720-752).                              *)
AllOrNothing ==
  IF pc = "done" /\ ip <= Len(call.bytes)
  THEN LET b == Reading(SubSeq(call.bytes, 1, ip))
       IN  b.ok /\ Reaches(history, b) /\ dst = Content(history, b)
  ELSE pc # "done" => dst = [i \in 1..call.size |-> Stale]
==============================================================================
