----------------------------- MODULE BlockDecoder -----------------------------
(***************************************************************************)
(* decompress_dict (src/block.rs 1590-1911): one block decoded into one    *)
(* buffer, by the fast paths that copy whole words past the end of what    *)
(* they need and by the careful ones near the ends.                        *)
(*                                                                         *)
(* The buffer holds the prefix (history that lies right before the         *)
(* output), then the output, then whatever the caller has there; when a    *)
(* block is decoded in place the buffer holds the block as well, as        *)
(* decompress_safe_histories arranges it (src/ffi.rs 536-616).  reach is a *)
(* ghost: how far the last step went in the block and in the buffer.       *)
(***************************************************************************)
EXTENDS BlockFormat

CONSTANTS
  Window,   \* 64 KB: one more than the largest offset
  Calls     \* the calls to decode, see IsCall

ASSUME WindowAssumption == Window \in Nat \ {0}

Wild == 8                                       \* copy8
WILD_COPY_CUTOFF == 32
MATCH_SAFEGUARD_DISTANCE == 2 * Wild - MINMATCH
SHORT_IN_MARGIN  == 14 + 2
SHORT_OUT_MARGIN == 14 + 18
INC32_TABLE == <<0, 1, 2, 1, 0, 4, 4, 4>>       \* indexed by offset + 1
DEC64_TABLE == <<0, 0, 0, -1, -4, 1, 2, 3>>
Stale == 256                                    \* a cell nobody has written

(* A call: the block's bytes; whether they lie in the buffer, and where;   *)
(* the buffer, addressed from 0; the end of the prefix, where output       *)
(* starts; the room for output; a history in a place of its own; for a     *)
(* partial decode, how much is wanted; and the block the bytes were made   *)
(* from, which the decoder does not see.                                   *)
IsCall(c) ==
  /\ c.bytes \in Seq(0..255) /\ c.ext \in Seq(0..255) /\ c.buf \in Seq(0..Stale)
  /\ c.start \in Nat /\ c.room \in Nat /\ c.inPlace \in BOOLEAN
  /\ c.inPlace => /\ c.from \in 0..(Len(c.buf) - Len(c.bytes))
                  /\ \A k \in 1..Len(c.bytes) : c.buf[c.from + k] = c.bytes[k]
  /\ c.prefix \in 0..c.start /\ c.start + c.room <= Len(c.buf)
  /\ c.target \in Nat /\ c.partial \in BOOLEAN

ASSUME CallsAssumption == \A c \in Calls : IsCall(c)

VARIABLES
  call, mem, ip, op,
  pc,       \* "start", "token", "match", "done" or "failed"
  token,    \* the match nibble and the offset of the sequence being read
  reach

vars == <<call, mem, ip, op, pc, token, reach>>

Smaller(x, y) == IF x < y THEN x ELSE y
Larger(x, y)  == IF x > y THEN x ELSE y
SatSub(x, y)  == Larger(0, x - y)               \* saturating_sub

iend == Len(call.bytes)
lowPrefix == call.start - call.prefix
dictSize == Len(call.ext) + call.prefix
checkOffset == dictSize < Window
outputSize == IF call.partial THEN Smaller(call.target, call.room) ELSE call.room
oend == call.start + outputSize

(* A byte of the block, read through the buffer m when it lies there.      *)
Input(m, k) ==
  IF k >= iend THEN Stale
  ELSE IF call.inPlace THEN m[call.from + k] ELSE call.bytes[k + 1]
U16(m, k) == (Input(m, k) + 256 * Input(m, k + 1)) % Window

(* ------------------------------- copies -------------------------------- *)
Cell(m, i) == IF i \in DOMAIN m THEN m[i] ELSE Stale

(* memmove within the buffer, a store of bytes from elsewhere, zeros.      *)
Moved(m, d, s, n) ==
  [i \in DOMAIN m |-> IF i >= d /\ i < d + n THEN Cell(m, s + i - d) ELSE m[i]]
Stored(m, d, bytes) ==
  [i \in DOMAIN m |-> IF i >= d /\ i < d + Len(bytes) THEN bytes[i - d + 1] ELSE m[i]]
Zeroed(m, d, n) == [i \in DOMAIN m |-> IF i >= d /\ i < d + n THEN 0 ELSE m[i]]

(* A copy in words of 8, at least one: bytes past the end included.        *)
Words(n) == Larger(1, (n + Wild - 1) \div Wild)
WordCopy(m, d, s, n) ==
  FoldLeft(LAMBDA a, k : Moved(a, d + Wild * (k - 1), s + Wild * (k - 1), Wild),
           m, [k \in 1..Words(n) |-> k])

(* Input::copy_to and Input::wild_copy_to.  Within a buffer, words may     *)
(* only go forward when the source is not behind the destination.          *)
CopyTo(m, k, d, n) ==
  IF call.inPlace THEN Moved(m, d, call.from + k, n)
  ELSE Stored(m, d, [i \in 1..n |-> Input(m, k + i - 1)])
Careful(k, d, n) == n >= WILD_COPY_CUTOFF \/ (call.inPlace /\ call.from + k < d)
WildCopyTo(m, k, d, n) ==
  IF Careful(k, d, n) THEN CopyTo(m, k, d, n)
  ELSE IF call.inPlace THEN WordCopy(m, d, call.from + k, n)
  ELSE Stored(m, d, [i \in 1..(Wild * Words(n)) |-> Input(m, k + i - 1)])
WildExtent(k, d, n) == IF Careful(k, d, n) THEN n ELSE Wild * Words(n)

(* copy_match: one move when source and destination are apart, otherwise   *)
(* the first period and then twice as much with every move.                *)
CopyMatch(m, d, s, n) ==
  LET offset == d - s
      Doubled(a, k) ==
        LET more == Smaller(a.filled, n - a.filled)
        IN  IF a.filled < n
            THEN [m |-> Moved(a.m, d + a.filled, d, more), filled |-> a.filled + more]
            ELSE a
  IN  IF offset = 0 \/ n = 0 THEN m
      ELSE IF offset >= n THEN Moved(m, d, s, n)
      ELSE FoldLeft(Doubled, [m |-> Moved(m, d, s, offset), filled |-> offset],
                    [k \in 1..n |-> k]).m

(* short_offset_prologue: four bytes one by one, four together, and a      *)
(* source that then lies 8 bytes or more behind.                           *)
Prologue(m, d, s) ==
  LET one == FoldLeft(LAMBDA a, k : Moved(a, d + k, s + k, 1), m, <<0, 1, 2, 3>>)
  IN  Moved(one, d + 4, s + INC32_TABLE[d - s + 1], 4)
PrologueSourceUnmoved(d, s) == s + INC32_TABLE[d - s + 1]    \* Slip: the second table forgotten
PrologueSource(d, s) == s + INC32_TABLE[d - s + 1] - DEC64_TABLE[d - s + 1]

(* copy_match_wild, for matches with room behind them.                     *)
CopyMatchWild(m, d, s, n) ==
  IF n >= WILD_COPY_CUTOFF THEN CopyMatch(m, d, s, n)
  ELSE IF d - s >= Wild THEN WordCopy(m, d, s, n)
  ELSE IF n <= Wild THEN Prologue(m, d, s)
  ELSE WordCopy(Prologue(m, d, s), d + Wild, PrologueSource(d, s), n - Wild)
MatchExtent(d, s, n) ==
  IF n >= WILD_COPY_CUTOFF THEN n ELSE Wild * Words(n)

(* ------------------------------- numbers ------------------------------- *)
(* read_variable_length: bytes from ip on, none at or past the limit.      *)
ReadVariableLength(m, k, limit) ==
  LET ends == {e \in k..(limit - 1) : Input(m, e) # 255}
      e == CHOOSE x \in ends : \A y \in ends : x <= y
  IN  IF ends = {} THEN [ok |-> FALSE, n |-> 0, next |-> Larger(k, limit)]
      ELSE [ok |-> TRUE, n |-> 255 * (e - k) + Input(m, e), next |-> e + 1]

LiteralLength(nibble, k) ==
  IF nibble # RUN_MASK THEN [ok |-> TRUE, n |-> nibble, next |-> k]
  ELSE LET l == ReadVariableLength(mem, k, SatSub(iend, RUN_MASK))
       IN  [l EXCEPT !.n = @ + nibble]

MatchLength ==
  IF token.code # ML_MASK THEN [ok |-> TRUE, n |-> token.code + MINMATCH, next |-> ip]
  ELSE LET l == ReadVariableLength(mem, ip, SatSub(iend, 1 + LASTLITERALS))
       IN  [l EXCEPT !.n = @ + token.code + MINMATCH]

(* -------------------------------- steps -------------------------------- *)
Reached(src, dst, back) == reach' = [src |-> src, dst |-> dst, back |-> back]
Untouched == Reached(0, 0, call.start)

Fail(at) == pc' = "failed" /\ ip' = at /\ UNCHANGED <<call, mem, op, token>>

Start ==
  /\ pc = "start"
  /\ IF outputSize = 0
     THEN /\ pc' = IF call.partial \/ call.bytes = <<0>> THEN "done" ELSE "failed"
          /\ Reached(iend, 0, call.start)
     ELSE pc' = (IF iend = 0 THEN "failed" ELSE "token") /\ Untouched
  /\ UNCHANGED <<call, mem, ip, op, token>>

Token == Input(mem, ip)
Literals == Token \div 16
(* Far enough from both ends for the shortcut.                             *)
Roomy(n) == /\ n # RUN_MASK
            /\ ip + 1 + SHORT_IN_MARGIN < iend
            /\ op + SHORT_OUT_MARGIN <= oend

(* The two-stage shortcut: short literals, and a short match that neither  *)
(* overlaps itself nor starts before the prefix, by copies of fixed size.  *)
ShortMatch(o, code, offset) ==
  /\ code # ML_MASK /\ offset >= Wild
  /\ call.prefix >= Window \/ o - offset >= lowPrefix
FixedCopy(m, d, s) == Moved(Moved(Moved(m, d, s, 8), d + 8, s + 8, 8), d + 16, s + 16, 2)

Shortcut ==
  /\ pc = "token" /\ Roomy(Literals)
  /\ LET m      == WildCopyTo(mem, ip + 1, op, Literals)
         o      == op + Literals
         k      == ip + 1 + Literals
         code   == Token % 16
         offset == U16(m, k)
         short  == ShortMatch(o, code, offset)
         src    == Larger(k + OffsetSize, ip + 1 + WildExtent(ip + 1, op, Literals))
         dst    == op + WildExtent(ip + 1, op, Literals)
     IN  /\ ip' = k + OffsetSize
         /\ IF short
            THEN /\ mem' = FixedCopy(m, o, o - offset) /\ op' = o + code + MINMATCH
                 /\ Reached(src, Larger(dst, o + 18), o - offset) /\ UNCHANGED <<pc, token>>
            ELSE /\ mem' = m /\ op' = o
                 /\ pc' = "match" /\ token' = [code |-> code, offset |-> offset]
                 /\ Reached(src, dst, call.start)
  /\ UNCHANGED call

LiteralsBroken ==
  /\ pc = "token" /\ ~Roomy(Literals)
  /\ LET l == LiteralLength(Literals, ip + 1)
     IN  ~l.ok /\ Fail(l.next) /\ Reached(l.next, 0, call.start)

(* Near an end of either side.                                            *)
Restricted(l) == op + l.n + MFLIMIT > oend \/ l.next + l.n + (2 + 1 + LASTLITERALS) > iend

ThenMatch(m, k, code) ==
  /\ pc' = "match" /\ token' = [code |-> code, offset |-> U16(m, k)]
  /\ ip' = k + OffsetSize

PlainLiterals ==
  /\ pc = "token" /\ ~Roomy(Literals)
  /\ LET l == LiteralLength(Literals, ip + 1)
     IN  /\ l.ok /\ ~Restricted(l)
         /\ mem' = WildCopyTo(mem, l.next, op, l.n)
         /\ op' = op + l.n
         /\ ThenMatch(mem', l.next + l.n, Token % 16)
         /\ Reached(Larger(l.next + l.n + OffsetSize,
                           l.next + WildExtent(l.next, op, l.n)),
                    op + WildExtent(l.next, op, l.n), call.start)
  /\ UNCHANGED call

(* The last literals of a whole block: they must end where it ends.        *)
Ends(l) == l.next + l.n = iend /\ op + l.n <= oend
LastLiterals ==
  /\ pc = "token" /\ ~Roomy(Literals) /\ ~call.partial
  /\ LET l == LiteralLength(Literals, ip + 1)
     IN  /\ l.ok /\ Restricted(l)
         /\ IF ~Ends(l)
            THEN Fail(l.next) /\ Reached(l.next, 0, call.start)
            ELSE /\ mem' = CopyTo(mem, l.next, op, l.n)
                 /\ op' = op + l.n /\ ip' = iend /\ pc' = "done"
                 /\ Reached(iend, op + l.n, call.start)
                 /\ UNCHANGED <<call, token>>

(* A partial decode takes what there is and what fits, and goes on to the  *)
(* match unless either side is at its end.                                 *)
PartialLength(l) == Smaller(Smaller(l.n, iend - l.next), oend - op)
Stops(o, k) == o = oend \/ k >= SatSub(iend, 2)
PartialLiterals ==
  /\ pc = "token" /\ ~Roomy(Literals) /\ call.partial
  /\ LET l == LiteralLength(Literals, ip + 1)
         n == PartialLength(l)
     IN  /\ l.ok /\ Restricted(l)
         /\ mem' = CopyTo(mem, l.next, op, n)
         /\ op' = op + n
         /\ IF Stops(op + n, l.next + n)
            THEN /\ ip' = l.next + n /\ pc' = "done" /\ UNCHANGED token
                 /\ Reached(l.next + n, op + n, call.start)
            ELSE /\ ThenMatch(mem', l.next + n, Token % 16)
                 /\ Reached(l.next + n + OffsetSize, op + n, call.start)
  /\ UNCHANGED call

(* -------------------------------- match -------------------------------- *)
At(offset) == op - offset
TooFar(offset) == checkOffset /\ At(offset) + dictSize < lowPrefix
InExternal(offset) == call.ext # <<>> /\ At(offset) < lowPrefix

MatchRefused ==
  /\ pc = "match"
  /\ LET l == MatchLength
     IN  /\ ~l.ok \/ TooFar(token.offset)
         /\ Fail(l.next) /\ Reached(l.next, 0, call.start)

Copied(m, n, l, dst, back) ==
  /\ mem' = m /\ op' = op + n /\ ip' = l.next
  /\ pc' = "token" /\ Reached(l.next, dst, back)
  /\ UNCHANGED <<call, token>>

(* A match that starts in the external history, and may run over its end   *)
(* into the prefix and the output.                                         *)
ExternalLength(l) ==
  IF op + l.n > SatSub(oend, LASTLITERALS) /\ call.partial
  THEN Smaller(l.n, oend - op) ELSE l.n
ExternalByte(back) == IF back <= Len(call.ext) THEN call.ext[Len(call.ext) - back + 1] ELSE Stale
FromExternal(n) ==
  LET before == lowPrefix - At(token.offset)
      head   == Smaller(n, before)
      first  == Stored(mem, op, [i \in 1..head |-> ExternalByte(before - i + 1)])
  IN  IF n > before THEN CopyMatch(first, op + head, lowPrefix, n - head) ELSE first

ExternalMatch ==
  /\ pc = "match"
  /\ LET l == MatchLength
         n == ExternalLength(l)
     IN  /\ l.ok /\ ~TooFar(token.offset) /\ InExternal(token.offset)
         /\ IF op + l.n > SatSub(oend, LASTLITERALS) /\ ~call.partial
            THEN Fail(l.next) /\ Reached(l.next, 0, call.start)
            ELSE Copied(FromExternal(n), n, l, op + n,
                        Smaller(lowPrefix, At(token.offset) + Len(call.ext)))

(* The rest of a match that may reach the end of a partial decode.         *)
NeverInTail(l) == FALSE                               \* Slip: the end of a match as in a whole block
InTail(l) == call.partial /\ op + l.n > SatSub(oend, MATCH_SAFEGUARD_DISTANCE)
PartialMatch ==
  /\ pc = "match"
  /\ LET l == MatchLength
         n == Smaller(l.n, oend - op)
     IN  /\ l.ok /\ ~TooFar(token.offset) /\ ~InExternal(token.offset) /\ InTail(l)
         /\ mem' = CopyMatch(mem, op, At(token.offset), n)
         /\ op' = op + n /\ ip' = l.next
         /\ pc' = IF op + n = oend THEN "done" ELSE "token"
         /\ Reached(l.next, op + n, At(token.offset))
  /\ UNCHANGED <<call, token>>

MatchEndTooEarly == SatSub(oend, MFLIMIT)              \* Slip: the limit for a match's start
MatchEnd == SatSub(oend, LASTLITERALS)
MatchTooLong ==
  /\ pc = "match"
  /\ LET l == MatchLength
     IN  /\ l.ok /\ ~TooFar(token.offset) /\ ~InExternal(token.offset) /\ ~InTail(l)
         /\ op + l.n > MatchEnd
         /\ Fail(l.next) /\ Reached(l.next, 0, call.start)

(* Whether a match has room behind it for whole words.                     *)
SlackForEnd(n) == op + n + LASTLITERALS <= oend        \* Slip: words wherever a match may end
Slack(n) == op + n + MATCH_SAFEGUARD_DISTANCE <= oend
PlainMatch ==
  /\ pc = "match"
  /\ LET l == MatchLength
         s == At(token.offset)
     IN  /\ l.ok /\ ~TooFar(token.offset) /\ ~InExternal(token.offset) /\ ~InTail(l)
         /\ op + l.n <= MatchEnd
         /\ IF token.offset = 0 THEN Copied(Zeroed(mem, op, l.n), l.n, l, op + l.n, s)
            ELSE IF Slack(l.n)
            THEN Copied(CopyMatchWild(mem, op, s, l.n), l.n, l, op + MatchExtent(op, s, l.n), s)
            ELSE Copied(CopyMatch(mem, op, s, l.n), l.n, l, op + l.n, s)

Finished == pc \in {"done", "failed"} /\ UNCHANGED vars

StartOf(c) ==
  /\ call = c
  /\ mem = [i \in 0..(Len(call.buf) - 1) |-> call.buf[i + 1]]
  /\ ip = 0 /\ op = call.start
  /\ pc = "start" /\ token = [code |-> 0, offset |-> 0]
  /\ reach = [src |-> 0, dst |-> 0, back |-> call.start]
Init == \E c \in Calls : StartOf(c)

Step ==
  \/ Start \/ Shortcut \/ LiteralsBroken \/ PlainLiterals \/ LastLiterals \/ PartialLiterals
  \/ MatchRefused \/ ExternalMatch \/ PartialMatch \/ MatchTooLong \/ PlainMatch
Next == Step \/ Finished
Spec == Init /\ [][Next]_vars

(* ------------------------------ properties ----------------------------- *)
History == call.ext \o SubSeq(call.buf, lowPrefix + 1, call.start)
Output  == [i \in 1..(op - call.start) |-> mem[call.start + i - 1]]
Block   == Reading(call.bytes)
Truth   == Content(History, Block)

(* No match is taken from before the history: only the external part of it *)
(* lies elsewhere (block.rs 1606-1609, 1819-1834).                         *)
MatchInHistory == reach.back >= lowPrefix

(* No step reads past the block or writes past the room the caller gave,   *)
(* whatever the bytes say, and there is a byte for every token.  An        *)
(* in-place decode may read and overwrite the block behind its output,     *)
(* within the buffer both share.                                           *)
WithinSlices ==
  /\ reach.dst <= (IF call.inPlace THEN Len(call.buf) ELSE call.start + call.room)
  /\ reach.src <= (IF call.inPlace THEN Len(call.buf) - call.from ELSE iend)
  /\ pc = "token" => ip < iend
  /\ op <= oend

(* Nor is a match taken from before the prefix: an access outside its      *)
(* slice aborts the process (block.rs 1662-1908).                          *)
InBounds == MatchInHistory /\ WithinSlices

(* What is accepted is a block and the output is what it means, by         *)
(* whichever of the paths each sequence went.                              *)
Sound ==
  pc = "done" /\ ~call.partial /\ outputSize > 0 =>
    Block.ok /\ Reaches(History, Block) /\ Output = Truth

(* A block that keeps the format's end-of-block rules decodes into any     *)
(* room that holds its content: no fast-path margin refuses it.            *)
Complete ==
  pc = "failed" =>
    ~(/\ Block.ok /\ Reaches(History, Block) /\ Conforming(Block)
      /\ ~call.partial /\ call.room >= Len(Truth))

(* A partial decode of such a block yields exactly the bytes wanted, or    *)
(* all there are; and of a block cut short only true bytes, if any         *)
(* (block.rs 1754-1794, 1850-1889).                                        *)
PartialExact ==
  call.partial =>
    /\ pc \in {"done", "failed"} /\ Block.ok /\ Conforming(Block) /\ Reaches(History, Block) =>
         pc = "done" /\ Output = SubSeq(Truth, 1, Smaller(outputSize, Len(Truth)))
    /\ pc = "done" /\ IsPrefix(call.bytes, BlockBytes(call.origin))
         /\ Conforming(call.origin) /\ Reaches(History, call.origin) =>
         IsPrefix(Output, Content(History, call.origin))
==============================================================================
