------------------------------- MODULE HCStream -------------------------------
(***************************************************************************)
(* LZ4_streamHC_t as its callers use it (HcState, src/hc.rs 206-336, and   *)
(* src/ffi.rs 112-342, 1928-2344, 3057-3334): addresses of the history and *)
(* the indices that go with them, from one call to the next.  Blocks lie   *)
(* where the caller puts them, behind the last one, elsewhere, over it; a  *)
(* dictionary may be loaded, saved, or attached from another stream; what  *)
(* is written may be only the start of what was given.                     *)
(*                                                                         *)
(* How a block is compressed is in HCMatcher, HCParser, HCOptimal and      *)
(* MidCompressor: all they are given is a view of memory.  A byte is the   *)
(* time it was written at, so that no two are taken for each other; heard  *)
(* is what a decoder of the blocks has.                                    *)
(***************************************************************************)
EXTENDS Integers, Sequences, SequencesExt

CONSTANTS
  Window,        \* 64 KB, and START_OFFSET
  Restart,       \* 1 GiB: an index space further on than this is left
  Reload,        \* 2 GiB: history is indexed anew before a block
  Large,         \* 4 KB: a block for which an attached stream is copied
  Places,        \* addresses the caller puts blocks at
  DictPlace, SafePlace,
  Sizes, DictSizes,
  MemSize,
  Offsets,       \* how far the indices may be when the model starts
  Habits,        \* what a caller may do: go on with less than a call "leaves",
                 \* save the dictionary of a "new" stream
  MaxCalls

SizesAssumption ==
  /\ Window \in Nat \ {0} /\ Large \in Nat /\ Restart \in Nat /\ Reload \in Nat
  /\ Window < Restart /\ Restart <= Reload
PlacesAssumption ==
  /\ 0 \notin Places \cup {DictPlace, SafePlace}
  /\ Sizes \subseteq Nat /\ DictSizes \subseteq Nat
  /\ Habits \subseteq {"leaves", "new"}

VARIABLES
  mem,
  stream,      \* the HcState
  heard,       \* the last Window bytes the decoder has
  fresh,       \* a dictionary was given and nothing done since: its bytes
  left,        \* how many bytes of the last block were not written
  call,        \* the last block: [seen, had, first, next, top, dict]
  clock,       \* bytes written to memory so far
  calls

vars == <<mem, stream, heard, fresh, left, call, clock, calls>>

Smaller(x, y) == IF x < y THEN x ELSE y
Tail64(b) == SubSeq(b, IF Len(b) > Window THEN Len(b) - Window + 1 ELSE 1, Len(b))
Bytes(memory, at, n) == [i \in 1..n |-> memory[at + i - 1]]
NewBytes(n) == [i \in 1..n |-> clock + i]
Put(memory, at, bytes) ==
  [a \in DOMAIN memory |-> IF a \in at..(at + Len(bytes) - 1) THEN bytes[a - at + 1] ELSE memory[a]]

(* ------------------------------ the state ------------------------------ *)
(* An address of 0 is none.  top is the highest index the tables hold; mid *)
(* whether the level is one of LZ4MID's.                                   *)
None == [none |-> TRUE]
New == [end |-> 0, prefixStart |-> 0, dictStart |-> 0, dictLimit |-> 0, lowLimit |-> 0,
        nextToUpdate |-> 0, mid |-> FALSE, dirty |-> FALSE, dictCtx |-> None, top |-> 0]

PrefixLen(s) == s.end - s.prefixStart
EndIndex(s) == s.dictLimit + PrefixLen(s)

InitInternal(s, start) ==
  LET far   == EndIndex(s) > Restart
      index == (IF far THEN 0 ELSE EndIndex(s)) + Window
  IN  [s EXCEPT !.nextToUpdate = index, !.prefixStart = start, !.end = start, !.dictStart = start,
                !.dictLimit = index, !.lowLimit = index, !.top = IF far THEN 0 ELSE @]

ResetStream(s, mid) == [New EXCEPT !.mid = mid]
ResetStreamFast(s, mid) ==
  IF s.dirty THEN [New EXCEPT !.mid = mid]
  ELSE [s EXCEPT !.dictLimit = EndIndex(s), !.prefixStart = 0, !.end = 0, !.dictCtx = None,
                 !.mid = mid]

(* The prefix becomes the dictionary; the one before it is forgotten.      *)
SetExternalDict(s, at) ==
  [s EXCEPT !.lowLimit = s.dictLimit, !.dictStart = s.prefixStart, !.dictLimit = EndIndex(s),
            !.prefixStart = at, !.end = at, !.nextToUpdate = EndIndex(s), !.dictCtx = None]

(* LZ4_loadDictHC, of the last 64 KB.                                      *)
LoadDict(s, at, n) ==
  LET d == InitInternal([New EXCEPT !.mid = s.mid], at)
  IN  [d EXCEPT !.end = at + n, !.top = d.dictLimit + n - 1,
                !.nextToUpdate = IF n >= 4 THEN d.dictLimit + n - 3 ELSE d.dictLimit]

(* LZ4_saveDictHC: the end of the prefix, moved.                           *)
SavedSize(s, max) ==
  LET n == Smaller(max, Window) IN Smaller(IF n < 4 THEN 0 ELSE n, PrefixLen(s))
SaveDict(s, n) ==
  LET index == EndIndex(s) - n
  IN  [s EXCEPT !.end = SafePlace + n, !.prefixStart = SafePlace, !.dictStart = SafePlace,
                !.dictLimit = index, !.lowLimit = index,
                !.nextToUpdate = IF @ < index THEN index ELSE @]

(* A source over the dictionary: what comes after it is left.              *)
\* Slip: the source is not looked at.
OverlapKept(s, at, n) == s
OverlapTrimmed(s, at, n) ==
  LET dictEnd == s.dictStart + s.dictLimit - s.lowLimit
      cut     == Smaller(at + n, dictEnd) - s.dictStart
  IN  IF at + n <= s.dictStart \/ at >= dictEnd THEN s
      ELSE IF s.dictLimit - s.lowLimit - cut < 4
      THEN [s EXCEPT !.lowLimit = s.dictLimit, !.dictStart = s.prefixStart]
      ELSE [s EXCEPT !.lowLimit = @ + cut, !.dictStart = @ + cut]

(* ------------------------- compressing a block ------------------------- *)
(* An index space near its end: the last 64 KB of the prefix are loaded.   *)
Reloaded(s) ==
  IF EndIndex(s) <= Reload THEN s
  ELSE LET n == Smaller(PrefixLen(s), Window) IN LoadDict(s, s.end - n, n)

Begun(s, at) == IF s.prefixStart = 0 THEN InitInternal(s, at) ELSE s
Joined(s, at) == IF at = s.end THEN s ELSE SetExternalDict(s, at)

(* LZ4HC_compress_generic: an attached stream is let go, copied or used.   *)
Position(s) == PrefixLen(s) + s.dictLimit - s.lowLimit
Copies(s, n) == Position(s) = 0 /\ n > Large /\ s.mid = s.dictCtx.mid
\* Slip: the copy is put at the block, its prefix not made the dictionary.
WithContextMoved(s, at, n) ==
  IF s.dictCtx = None THEN s
  ELSE IF Position(s) >= Window THEN [s EXCEPT !.dictCtx = None]
  ELSE IF Copies(s, n) THEN [s.dictCtx EXCEPT !.mid = s.mid, !.prefixStart = at, !.end = at]
  ELSE s
WithContext(s, at, n) ==
  IF s.dictCtx = None THEN s
  ELSE IF Position(s) >= Window THEN [s EXCEPT !.dictCtx = None]
  ELSE IF Copies(s, n) THEN [SetExternalDict(s.dictCtx, at) EXCEPT !.mid = s.mid]
  ELSE s

(* What the search may point at: the attached stream's prefix, the         *)
(* dictionary and the prefix, as if each lay before the next.              *)
ContextBytes(memory, s) ==
  IF s.dictCtx = None THEN <<>> ELSE Bytes(memory, s.dictCtx.prefixStart, PrefixLen(s.dictCtx))
View(memory, s) ==
  Tail64(ContextBytes(memory, s)
         \o (IF s.dictStart = 0 THEN <<>> ELSE Bytes(memory, s.dictStart, s.dictLimit - s.lowLimit))
         \o Bytes(memory, s.prefixStart, PrefixLen(s)))

(* s is ready for the block of n bytes at `at`, and h is what its decoder  *)
(* will have.  What comes of it: all of it written, part of it where the   *)
(* room is to be filled, or nothing, which marks the stream as dirty       *)
(* unless there was no room at all.                                        *)
Failed == -1
Compress(s, h, at, n, memory, written) ==
  LET r == WithContext(s, at, n)
      after == [r EXCEPT !.end = @ + n, !.top = EndIndex(r) + n - 1]
  IN  /\ mem' = memory
      /\ call' = [seen |-> View(memory, r), had |-> h, first |-> EndIndex(r), limit |-> r.dictLimit,
                  next |-> r.nextToUpdate, top |-> r.top, at |-> at, size |-> n,
                 dict |-> IF h = <<>> THEN <<>> ELSE fresh]
      /\ \E next \in {r.nextToUpdate, EndIndex(after)} :
           \E dirty \in IF written < 0 THEN {r.dirty, TRUE} ELSE {r.dirty} :
             stream' = [after EXCEPT !.nextToUpdate = next, !.dirty = dirty]
      /\ heard' = IF written < 0 THEN <<>> ELSE Tail64(h \o Bytes(memory, at, written))
      /\ left' = IF written < 0 THEN Failed ELSE n - written
      /\ fresh' = <<>> /\ clock' = clock + n /\ calls' = calls + 1

(* After a failure a stream has to be reset.                               *)
Usable == left # Failed /\ calls < MaxCalls

(* A caller who was left with a rest goes on with all of it.               *)
Follows(at, n) == left = 0 \/ (at = stream.end - left /\ (n >= left \/ "leaves" \in Habits))

(* Memory an attached stream refers to stays as it is.                     *)
Spares(at, n) ==
  LET d == stream.dictCtx IN d # None => at + n <= d.prefixStart \/ at >= d.end
Room(at, n) == at + n <= MemSize /\ Follows(at, n) /\ Spares(at, n)

(* The bytes of a block: what was left over is there already.              *)
BlockAt(at, n) ==
  LET there == IF left > 0 /\ at = stream.end - left THEN Smaller(left, n) ELSE 0
  IN  Put(mem, at + there, NewBytes(n - there))

(* LZ4_compress_HC_continue and, with an end to fill up to,                *)
(* LZ4_compress_HC_continue_destSize.                                      *)
Ready(at, n) == OverlapTrimmed(Joined(Reloaded(Begun(stream, at)), at), at, n)
Continue(at, n, written) ==
  /\ Usable /\ Room(at, n)
  /\ written \in {n, -1}
  /\ Compress(Ready(at, n), heard, at, n, BlockAt(at, n), written)
ContinueDestSize(at, n, written) ==
  /\ Usable /\ Room(at, n)
  /\ written < n /\ written > 0
  /\ Compress(Ready(at, n), heard, at, n, BlockAt(at, n), written)

(* LZ4_compressHC2_limitedOutput_continue: the same without a look at the  *)
(* index space or at what the source covers, both left to the caller.      *)
ContinueRaw(at, n, written) ==
  LET s == Joined(Begun(stream, at), at)
  IN  /\ Usable /\ Room(at, n) /\ EndIndex(stream) <= Reload
      /\ at >= s.dictStart + s.dictLimit - s.lowLimit \/ at + n <= s.dictStart
      /\ written \in {n, -1}
      /\ Compress(s, heard, at, n, BlockAt(at, n), written)

(* LZ4_compress_HC_extStateHC_fastReset, and with all of the state cleared *)
(* LZ4_compress_HC_extStateHC and LZ4_compress_HC_destSize.                *)
OneShot(at, n, written, fast) ==
  LET s == IF fast THEN ResetStreamFast(stream, stream.mid) ELSE ResetStream(stream, stream.mid)
  IN  /\ calls < MaxCalls /\ at + n <= MemSize
      /\ written \in {n, -1} \/ (~fast /\ written > 0 /\ written < n)
      /\ Compress(InitInternal(s, at), <<>>, at, n, Put(mem, at, NewBytes(n)), written)

(* ---------------------------- between blocks --------------------------- *)
Between(s, h) ==
  /\ calls < MaxCalls /\ calls' = calls + 1
  /\ stream' = s /\ heard' = h /\ left' = 0
  /\ UNCHANGED call

Reset(mid) == Between(ResetStream(stream, mid), <<>>) /\ fresh' = <<>> /\ UNCHANGED <<mem, clock>>
\* LZ4_resetStreamHC_fast, and LZ4_slideInputBufferHC
ResetFast(mid) ==
  Between(ResetStreamFast(stream, mid), <<>>) /\ fresh' = <<>> /\ UNCHANGED <<mem, clock>>
\* LZ4_resetStreamStateHC, LZ4_createHC
ResetState(at) ==
  Between(InitInternal(New, at), <<>>) /\ fresh' = <<>> /\ UNCHANGED <<mem, clock>>

Loading(n) ==
  /\ mem' = Put(mem, DictPlace, NewBytes(n)) /\ clock' = clock + n
LoadDictionary(n) ==
  /\ Loading(n) /\ fresh' = NewBytes(n)
  /\ Between(LoadDict(stream, DictPlace, n), NewBytes(n))

(* LZ4_attach_HC_dictionary, to a stream without history, of one that a    *)
(* dictionary was loaded into.                                             *)
AttachDictionary(n, mid) ==
  /\ heard = <<>> /\ left = 0 /\ Position(stream) = 0
  /\ Loading(n) /\ fresh' = IF stream.end = 0 THEN NewBytes(n) ELSE <<>>
  /\ Between([stream EXCEPT !.dictCtx = LoadDict([New EXCEPT !.mid = mid], DictPlace, n)], NewBytes(n))

(* Not while another stream is attached: what is cut off then lies between *)
(* that stream's prefix and the bytes saved.                               *)
SaveDictionary(max) ==
  LET n == SavedSize(stream, max)
  IN  /\ left = 0
      /\ stream.dictCtx = None
      /\ stream.end # 0 \/ "new" \in Habits
      /\ mem' = Put(mem, SafePlace, Bytes(mem, stream.end - n, n))
      /\ fresh' = <<>>
      /\ Between(SaveDict(stream, n), heard) /\ UNCHANGED clock

SetLevel(mid) ==
  /\ mid # stream.mid
  /\ calls < MaxCalls /\ calls' = calls + 1
  /\ stream' = [stream EXCEPT !.mid = mid] /\ UNCHANGED <<mem, heard, left, call, clock, fresh>>

Written(n) == {-1, 1, n}
Blocks ==
  \/ \E at \in Places \cup {stream.end, stream.end - left}, n \in Sizes : \E written \in Written(n) :
       /\ at > 0
       /\ \/ Continue(at, n, written) \/ ContinueDestSize(at, n, written)
          \/ ContinueRaw(at, n, written)
  \/ \E at \in Places, n \in Sizes, fast \in BOOLEAN : \E written \in Written(n) :
       OneShot(at, n, written, fast)
Manage ==
  \/ \E mid \in BOOLEAN : Reset(mid) \/ ResetFast(mid) \/ SetLevel(mid)
  \/ \E at \in Places : ResetState(at)
  \/ \E n \in DictSizes : LoadDictionary(n)
  \/ \E n \in DictSizes, mid \in BOOLEAN : AttachDictionary(n, mid)
  \/ \E max \in {0, 4, Window} : SaveDictionary(max)

Rest == calls = MaxCalls /\ UNCHANGED vars

NoCall == [seen |-> <<>>, had |-> <<>>, first |-> 0, limit |-> 0, next |-> 0, top |-> -1, at |-> 0,
           size |-> 0, dict |-> <<>>]
Init ==
  /\ mem = [a \in 1..MemSize |-> 0]
  /\ \E o \in Offsets : stream = [New EXCEPT !.dictLimit = o, !.top = IF o = 0 THEN 0 ELSE o - 1]
  /\ heard = <<>> /\ fresh = <<>> /\ left = 0 /\ call = NoCall /\ clock = 0 /\ calls = 0

Next == Blocks \/ Manage \/ Rest
Spec == Init /\ [][Next]_vars

-----------------------------------------------------------------------------
(* Properties.                                                             *)

(* What a block is compressed against is what its decoder has: byte for    *)
(* byte the end of all that was written, wherever it lies by then          *)
(* (ffi.rs 124-194, 298-336).                                              *)
HistoryShared == IsSuffix(call.seen, call.had)

(* A dictionary is not lost on the way to the first block, unless the      *)
(* block covers it (ffi.rs 139-161, 304-317).                              *)
Clear(at, n) == at + n <= DictPlace \/ at >= DictPlace + Window
DictionarySeen ==
  call.dict # <<>> /\ Clear(call.at, call.size) => IsSuffix(call.dict, call.seen)

(* Everything in the tables lies before the block: an entry at or past the *)
(* position searched would be a match at distance 0 (hc.rs 674-678, 1105). *)
EntriesBehind == call.top < call.first

(* The next position to be put in the chain is one of the prefix: from     *)
(* one before it nothing would ever be put in (hc.rs 415-421).             *)
NextInPrefix == call.limit <= call.next /\ call.next <= call.first

(* Indices never come near their width (ffi.rs 304, hc.rs 240).            *)
IndexFits == call.first <= Reload + Window
=============================================================================
