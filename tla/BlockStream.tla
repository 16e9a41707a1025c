----------------------------- MODULE BlockStream ------------------------------
(***************************************************************************)
(* LZ4_stream_t as its callers use it (src/ffi.rs 401-533, 1945-1971,      *)
(* 3176-3200, and the resets): block after block compressed against a      *)
(* history that lies somewhere in the caller's memory - right before the   *)
(* next block, elsewhere, partly under it, or in another stream - while    *)
(* the indices grow, are moved on and are brought down again.              *)
(*                                                                         *)
(* The caller's memory is mem; the other end of the wire is heard, the     *)
(* last Window bytes that a decoder of the blocks has.                     *)
(***************************************************************************)
EXTENDS BlockEncoder

CONSTANTS
  Places,      \* addresses the caller puts blocks and dictionaries at
  SafePlace,   \* the address of the buffer LZ4_saveDict copies to
  Words,       \* what is compressed
  Dicts,       \* what is loaded as a dictionary
  MemSize,
  Offsets,     \* how far the stream's index may be when the model starts
  MaxCalls

ASSUME PlacesAssumption == 0 \notin Places /\ SafePlace # 0

VARIABLES
  mem,
  stream,      \* the LZ4_stream_t between calls
  given,       \* the call being made: [at, prefix], or Idle, or Broken
  heard,
  calls

streamVars == <<mem, stream, given, heard, calls>>
allVars == <<vars, streamVars>>

Idle == [at |-> 0, prefix |-> FALSE]
Broken == [at |-> 0, prefix |-> TRUE]           \* a call failed: only a reset helps
Bytes(memory, at, n) == [i \in 1..n |-> memory[at + i - 1]]
Written(memory, at, bytes) ==
  [a \in DOMAIN memory |-> IF a >= at /\ a < at + Len(bytes) THEN bytes[a - at + 1] ELSE memory[a]]
Tail64(s) == SubSeq(s, Larger(0, Len(s) - Window) + 1, Len(s))

DictEnd(s) == s.dictionary + s.dictSize

(* What the caller may overwrite: nothing of the history but its oldest    *)
(* part, as a ring buffer does.                                            *)
MayWrite(at, n) ==
  LET ctx == stream.dictCtx
      clear(s) == at + n <= s.dictionary \/ at >= DictEnd(s)
  IN  /\ at + n <= MemSize
      /\ clear(stream) \/ (at <= stream.dictionary /\ at + n < DictEnd(stream))
      /\ ctx # None => clear(ctx)

(* ---------------------- LZ4_compress_fast_continue --------------------- *)
TinyDropped(s, at, n) ==
  IF s.dictSize < 4 /\ DictEnd(s) # at /\ n # 0 /\ s.dictCtx = None
  THEN [s EXCEPT !.dictSize = 0, !.dictionary = at] ELSE s

(* A source that covers the start of the history leaves the rest of it.    *)
OverlapIgnored(s, at, n) == s                   \* Slip: the source is not looked at
OverlapTrimmed(s, at, n) ==
  LET left == Smaller(DictEnd(s) - (at + n), Window)
      size == IF left < 4 THEN 0 ELSE left
  IN  IF at + n > s.dictionary /\ at + n < DictEnd(s)
      THEN [s EXCEPT !.dictSize = size, !.dictionary = DictEnd(s) - size] ELSE s

Continue(at, bytes, room, forceExternal) ==
  LET n == Len(bytes)
      memory == Written(mem, at, bytes)
      s == OverlapTrimmed(TinyDropped(Renormalize(stream, n), at, n), at, n)
      prefix == ~forceExternal /\ DictEnd(s) = at
      ctx == IF prefix THEN None ELSE s.dictCtx
      copied == ctx # None /\ n > Large
      own == IF copied THEN ctx ELSE s
      dict == IF ctx # None THEN ctx ELSE own
  IN  /\ given = Idle
      /\ MayWrite(at, n)
      /\ mem' = memory
      /\ given' = [at |-> at, prefix |-> prefix]
      /\ stream' = [own EXCEPT !.dictCtx = IF ctx # None /\ ~copied THEN None ELSE @]
      /\ Start(CompressContinue(own, bytes, room, Bytes(memory, dict.dictionary, dict.dictSize),
                                prefix, IF copied THEN None ELSE ctx, 1))
      /\ calls' = calls + 1 /\ UNCHANGED heard

Working == given.at # 0 /\ Step /\ UNCHANGED streamVars

(* The state is stored whether or not there is a block.  After a failure   *)
(* the stream has to be reset (lz4.h).                                     *)
Return ==
  /\ given.at # 0 /\ pc \in {"done", "failed"}
  /\ LET s == [stream EXCEPT !.table = st.table, !.currentOffset = st.currentOffset,
                             !.dictSize = st.dictSize, !.tt = st.tt]
     IN  stream' = IF given.prefix THEN s
                   ELSE [s EXCEPT !.dictionary = given.at, !.dictSize = iend]
  /\ IF pc = "done" THEN given' = Idle /\ heard' = Tail64(heard \o src)
                    ELSE given' = Broken /\ UNCHANGED heard
  /\ UNCHANGED <<vars, mem, calls>>

(* ----------------------- between the blocks ---------------------------- *)
Between(s, h) ==
  /\ stream' = s /\ heard' = h /\ calls' = calls + 1 /\ given' = Idle
  /\ UNCHANGED vars

ResetStream == Between(New, <<>>) /\ UNCHANGED mem
ResetStreamFast == Between(ResetFast(stream), <<>>) /\ UNCHANGED mem

Loaded(at, d, slow) ==
  LET s == LoadDict(d, slow)
  IN  IF s.dictSize = 0 THEN s ELSE [s EXCEPT !.dictionary = at + Len(d) - s.dictSize]
LoadDictionary(at, d, slow) ==
  /\ at + Len(d) <= MemSize
  /\ mem' = Written(mem, at, d)
  /\ Between(Loaded(at, d, slow), Tail64(d))

(* LZ4_attach_dictionary, of a stream that a dictionary was loaded into.   *)
AttachDictionary(at, d) ==
  LET other == Loaded(at, d, TRUE)
  IN  /\ at + Len(d) <= MemSize
      /\ given = Idle /\ stream.dictSize = 0
      /\ mem' = Written(mem, at, d)
      /\ Between([stream EXCEPT !.currentOffset = IF @ = 0 THEN Window ELSE @,
                                !.dictCtx = IF other.dictSize = 0 THEN None ELSE other], Tail64(d))

Saved(s, n) == [s EXCEPT !.dictionary = SafePlace, !.dictSize = n]
SaveDictionary(max) ==
  LET n == Smaller(Smaller(max, Window), stream.dictSize)
  IN  /\ given = Idle
      /\ n = 0 \/ stream.dictionary # 0
      /\ mem' = Written(mem, SafePlace, Bytes(mem, DictEnd(stream) - n, n))
      /\ Between(Saved(stream, n), heard)

Call ==
  /\ calls < MaxCalls
  /\ \E at \in Places, w \in Words, enough \in BOOLEAN, external \in BOOLEAN :
       Continue(at, w, IF enough THEN CompressBound(Len(w)) ELSE 8, external)
(* The last call compresses: only then do the ones before it matter.       *)
Manage ==
  /\ given.at = 0 /\ calls < MaxCalls - 1
  /\ \/ ResetStream \/ ResetStreamFast
     \/ \E at \in Places, d \in Dicts, slow \in BOOLEAN : LoadDictionary(at, d, slow)
     \/ \E at \in Places, d \in Dicts : AttachDictionary(at, d)
     \/ \E max \in {0, 9, Window} : SaveDictionary(max)

Rest ==
  /\ given.at = 0
  /\ calls = MaxCalls \/ (given = Broken /\ calls = MaxCalls - 1)
  /\ UNCHANGED allVars

(* Blocks too small to be indexed move the index on and nothing else.      *)
StreamInit ==
  /\ mem = [a \in 0..(MemSize - 1) |-> 0]
  /\ \E offset \in Offsets :
       stream = [New EXCEPT !.currentOffset = offset, !.tt = IF offset = 0 THEN "none" ELSE "U32"]
  /\ given = Idle /\ heard = <<>> /\ calls = 0 /\ Resting
StreamNext == Call \/ Working \/ Return \/ Manage \/ Rest
StreamSpec == StreamInit /\ [][StreamNext]_allVars

(* ------------------------------ properties ----------------------------- *)
(* Every block of a stream decodes with what a decoder of the stream has,  *)
(* however the stream was reset, renormalised, trimmed, saved, given       *)
(* another stream's dictionary, and wherever its history lies by then      *)
(* (ffi.rs 428-500).                                                       *)
Decodable ==
  given.at # 0 /\ pc = "done" =>
    Reaches(heard, Block) /\ Content(heard, Block) = src

(* The history the compressor believes in is the one the decoder has, byte *)
(* for byte, at the moment it is used (ffi.rs 432-485).                    *)
HistoryShared ==
  given.at # 0 => LET h == Tail64(HistoryOf(job))
                  IN  Len(h) <= Len(heard) /\ h = SubSeq(heard, Len(heard) - Len(h) + 1, Len(heard))
==============================================================================
