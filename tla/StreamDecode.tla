----------------------------- MODULE StreamDecode -----------------------------
(***************************************************************************)
(* LZ4_streamDecode_t (src/ffi.rs 536-807, 3266-3285): a decoder that      *)
(* keeps nothing but two addresses and two sizes.  What was decoded stays  *)
(* in the caller's memory: the run that ends at prefixEnd, which the next  *)
(* block may go on from, and the run before it.                            *)
(*                                                                         *)
(* The caller keeps one of two disciplines of lz4.h.  A "ring" caller goes *)
(* round a buffer of LZ4_decoderRingBufferSize.  A "free" caller puts each *)
(* block anywhere but over what may still be referred to.                  *)
(***************************************************************************)
EXTENDS BlockFormat

CONSTANTS
  Window,      \* 64 KB
  MaxBlock,    \* the ring caller's largest block
  Blocks,      \* [seqs, last, sound]: what is sent
  Dicts,       \* what the stream may start with
  DictAt,      \* where the dictionaries lie
  Places,      \* where the free caller puts blocks, besides going on
  Callers,     \* "ring", "free" or both
  MemSize, MaxCalls

VARIABLES
  mem,
  state,       \* AbiDecodeState: [ext, extSize, end, prefix]
  caller,      \* "ring" or "free"
  runs,        \* the caller's view: where the last two runs of content lie
  got,         \* the end of the content the caller was given
  block, answer, calls

vars == <<mem, state, caller, runs, got, block, answer, calls>>

Smaller(x, y) == IF x < y THEN x ELSE y
Larger(x, y)  == IF x > y THEN x ELSE y
EndOf(s) == SubSeq(s, Larger(0, Len(s) - Window) + 1, Len(s))
Bytes(memory, at, n) == [i \in 1..n |-> memory[at + i - 1]]

(* LZ4_decoderRingBufferSize.                                              *)
RingSize == Larger(MaxBlock, 16) + Window + 14

(* -------------------------- LZ4_setStreamDecode ------------------------ *)
StateOf(at, n) == [ext |-> 0, extSize |-> 0, end |-> at + n, prefix |-> n]
SetStreamDecode(dict) ==
  /\ calls < MaxCalls
  /\ mem' = [a \in DOMAIN mem |-> IF a \in DictAt..(DictAt + Len(dict) - 1) THEN dict[a - DictAt + 1] ELSE mem[a]]
  /\ state' = StateOf(DictAt, Len(dict))
  /\ runs' = [older |-> 0, olderEnd |-> 1, current |-> Len(dict), end |-> DictAt + Len(dict)]
  /\ got' = EndOf(dict) /\ answer' = "ready" /\ calls' = calls + 1
  /\ UNCHANGED <<caller, block>>

(* --------------------------- the two histories ------------------------- *)
Contiguous(s, dst) == s.prefix # 0 /\ s.end = dst

(* A block at a new place: the run so far becomes the external history.    *)
TurnedLate(s, dst) == s                         \* Slip: the history of the block before
Turned(s, dst) ==
  IF s.prefix # 0 /\ ~Contiguous(s, dst)
  THEN [s EXCEPT !.ext = s.end - s.prefix, !.extSize = s.prefix] ELSE s

Nothing == [ext |-> 0, extSize |-> 0, prefix |-> 0]
Histories(s, dst, fast) ==
  LET full == Smaller(s.prefix, Window)
  IN  IF s.prefix = 0 THEN Nothing
      ELSE IF ~Contiguous(s, dst) THEN [ext |-> s.ext, extSize |-> s.extSize, prefix |-> 0]
      ELSE IF ~fast /\ s.prefix >= Window - 1 THEN [Nothing EXCEPT !.prefix = full]
      ELSE [ext |-> s.ext, extSize |-> s.extSize, prefix |-> s.prefix]

Advanced(s, dst, n) ==
  IF Contiguous(s, dst) THEN [s EXCEPT !.prefix = @ + n, !.end = @ + n]
  ELSE [s EXCEPT !.prefix = n, !.end = dst + n]

(* ---------------------------- one block -------------------------------- *)
(* The byte back bytes before dst + k: in the output, in the prefix before *)
(* it, or at the end of the external history.  What the code does with a  *)
(* match from before them all is a matter of BlockDecoder; callers who     *)
(* keep their discipline send none.                                        *)
ByteBack(memory, h, dst, k, back) ==
  IF back <= k + h.prefix THEN memory[dst + k - back]
  ELSE memory[h.ext + h.extSize - (back - k - h.prefix)]
InHistories(h, k, back) == back <= k + h.prefix + h.extSize
MatchBytes(memory, h, dst, k, s) ==
  [i \in 1..s.length |-> ByteBack(memory, h, dst, k, s.offset - ((i - 1) % s.offset))]

(* Literals are copied 16 bytes at a time, matches 18, as far as there is  *)
(* room: what lies behind a run until the next one comes is garbage.       *)
Garbage == 99
PutRun(memory, at, bytes, wide, end) ==
  LET n == Len(bytes)
  IN  [a \in DOMAIN memory |->
         IF a < at \/ a >= end \/ (a >= at + n /\ a >= at + wide) THEN memory[a]
         ELSE IF a < at + n THEN bytes[a - at + 1] ELSE Garbage]

(* The decode as far as it goes: [mem, k], or ok FALSE at a match that     *)
(* reaches before the histories.                                           *)
DecodeSequence(d, s, h, dst, room) ==
  LET k == d.k + Len(s.lits)
      m == IF s.lits = <<>> THEN d.mem ELSE PutRun(d.mem, dst + d.k, s.lits, 16, dst + room)
  IN  IF ~d.ok \/ ~InHistories(h, k, s.offset) THEN [d EXCEPT !.ok = FALSE]
      ELSE [ok |-> TRUE, k |-> k + s.length, 
            mem |-> PutRun(m, dst + k, MatchBytes(m, h, dst, k, s), 18, dst + room)]
Decoded(h, dst, b, room) ==
  LET step(d, s) == DecodeSequence(d, s, h, dst, room)
      d == FoldLeft(step, [ok |-> TRUE, k |-> 0, mem |-> mem], b.seqs)
  IN  IF ~d.ok THEN d
      ELSE [ok |-> TRUE, k |-> d.k + Len(b.last),
            mem |-> PutRun(d.mem, dst + d.k, b.last, 0, dst + room)]

(* --------------------------- the caller -------------------------------- *)
GoesOn(dst) == runs.current # 0 /\ dst = runs.end
RingPlace ==
  IF runs.current # 0 /\ runs.end < DictAt /\ runs.end + MaxBlock <= 1 + RingSize THEN runs.end ELSE 1
Behind(at, n) == (at - Smaller(n, Window - 1))..(at - 1)
Needed == Behind(runs.end, runs.current) \cup Behind(runs.olderEnd, runs.older)
MayUse(dst, room) ==
  /\ dst + room <= MemSize + 1
  /\ caller = "free" => (dst..(dst + room - 1)) \cap Needed = {}

(* How far back a block may refer: through both runs when it goes on, or   *)
(* through the last of them.                                               *)
Has(dst) == IF GoesOn(dst) THEN runs.older + runs.current ELSE runs.current
Sendable(b, dst) == b.sound => Reaches(SubSeq(got, 1, Smaller(Len(got), Has(dst))), b)

RunsAfter(dst, n) ==
  IF GoesOn(dst) THEN [runs EXCEPT !.current = @ + n, !.end = @ + n]
  ELSE [older |-> runs.current, olderEnd |-> runs.end, current |-> n, end |-> dst + n]

(* An attempt elsewhere that yields nothing forgets the older run.         *)
RunsKept(dst) == IF GoesOn(dst) THEN runs ELSE [runs EXCEPT !.older = 0]

Answered(how, b) == block' = b /\ answer' = how /\ calls' = calls + 1 /\ UNCHANGED caller

(* LZ4_decompress_safe_continue.                                           *)
DecodeSafe(dst, b, room) ==
  LET s == Turned(state, dst)
      h == Histories(s, dst, FALSE)
      d == Decoded(h, dst, b, room)
  IN  IF b.sound /\ d.ok
      THEN /\ mem' = d.mem
           /\ state' = IF d.k = 0 THEN s ELSE Advanced(s, dst, d.k)
           /\ runs' = IF d.k = 0 THEN RunsKept(dst) ELSE RunsAfter(dst, d.k)
           /\ got' = EndOf(got \o Bytes(mem', dst, d.k))
           /\ Answered("decoded", b)
      ELSE /\ mem' = [a \in DOMAIN mem |-> IF a \in dst..(dst + room - 1) THEN Garbage ELSE mem[a]]
           /\ state' = s /\ runs' = RunsKept(dst)
           /\ Answered("refused", b) /\ UNCHANGED got

(* LZ4_decompress_fast_continue: the block is decoded aside, all or        *)
(* nothing, and the stream advances by the size the caller named.          *)
DecodedAside(h, dst, b) ==
  LET history == Bytes(mem, h.ext, h.extSize) \o Bytes(mem, dst - h.prefix, h.prefix)
      ok == Reaches(history, b)
  IN  [ok |-> ok, content |-> IF ok THEN Content(history, b) ELSE <<>>]
DecodeFast(dst, b) ==
  LET s == Turned(state, dst)
      d == DecodedAside(Histories(s, dst, TRUE), dst, b)
      n == Len(d.content)
  IN  IF b.sound /\ d.ok
      THEN /\ mem' = PutRun(mem, dst, d.content, 0, dst + n)
           /\ state' = Advanced(s, dst, n)
           /\ runs' = RunsAfter(dst, n)
           /\ got' = EndOf(got \o d.content)
           /\ Answered("decoded", b)
      ELSE /\ state' = s /\ runs' = RunsKept(dst)
           /\ Answered("refused", b) /\ UNCHANGED <<mem, got>>

Decompress(dst, b, room, fast) ==
  /\ calls < MaxCalls /\ MayUse(dst, room) /\ Sendable(b, dst)
  /\ IF fast THEN DecodeFast(dst, b) ELSE DecodeSafe(dst, b, room)

Size(b) == Len(b.last) + FoldLeft(LAMBDA n, s : n + Len(s.lits) + s.length, 0, b.seqs)
RingCall(b, fast) ==
  /\ caller = "ring" /\ answer # "refused"
  /\ Decompress(RingPlace, b, MaxBlock, fast)
FreeCall(b, fast) ==
  /\ caller = "free"
  /\ \E dst \in Places \cup {runs.end}, more \in {0, 3} :
       (fast => more = 0) /\ Decompress(dst, b, Size(b) + more, fast)

Rest == calls = MaxCalls /\ UNCHANGED vars

Init ==
  /\ mem = [a \in 1..MemSize |-> 0]
  /\ state = StateOf(0, 0) /\ caller \in Callers
  /\ runs = [older |-> 0, olderEnd |-> 1, current |-> 0, end |-> 1]
  /\ got = <<>> /\ block = (CHOOSE b \in Blocks : b.sound) /\ answer = "ready" /\ calls = 0
Next ==
  \/ \E dict \in Dicts : SetStreamDecode(dict)
  \/ \E b \in Blocks, fast \in BOOLEAN : RingCall(b, fast) \/ FreeCall(b, fast)
  \/ Rest
Spec == Init /\ [][Next]_vars

(* ------------------------------ properties ----------------------------- *)
(* The stream is decoded as by a reader who keeps all of it: every sound   *)
(* block gives its content and every damaged one is refused and may be     *)
(* sent again, wherever blocks are put and whichever call decodes them,    *)
(* although all that is kept are two addresses into memory that is being   *)
(* overwritten (ffi.rs 649-705, 758-806).                                  *)
Promise == INSTANCE StreamPromise WITH said <- got, block <- block, answer <- answer
KeepsPromise == Promise!Spec
==============================================================================
