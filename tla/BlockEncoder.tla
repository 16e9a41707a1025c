----------------------------- MODULE BlockEncoder -----------------------------
(***************************************************************************)
(* compress_generic (src/block.rs 831-1282) and the calls that set it up:  *)
(* one block compressed against a hash table and a history, by probing     *)
(* positions that lie further and further apart, walking a match back to   *)
(* where it starts, and writing sequences into a room that may be too      *)
(* small.  The block is kept as the sequences it is made of; op counts the *)
(* bytes as the code does.                                                 *)
(***************************************************************************)
EXTENDS StreamState

CONSTANTS
  SkipTrigger,   \* LZ4_SKIP_TRIGGER: probes before the step grows, as a power of 2
  Jobs           \* calls to compress_generic: see Job

ASSUME ProbeAssumption == SkipTrigger \in Nat /\ 2 ^ SkipTrigger \in Nat \ {0}

VARIABLES
  job,       \* the call
  st,        \* its StreamState
  pc,        \* "begin", "search", "literals", "match", "last", "done", "failed"
  ip, anchor, op,
  fwd,       \* the next probe: [ip, step, nb]
  m,         \* the match in hand: [idx, inDict, ext]
  filled,    \* up to where the table holds positions of src
  token,     \* where the open sequence starts in the output
  lits,      \* and its literals
  seqs, last \* the block written

vars == <<job, st, pc, ip, anchor, op, fwd, m, filled, token, lits, seqs, last>>

MinLength == MFLIMIT + 1
AccelerationMax == 65537
CompressBound(n) == n + n \div 255 + 16

(* src into room bytes, after the history content; ctx is the stream whose *)
(* table and size go with content when directive is "ctx", else None.      *)
Job(state, src, room, content, directive, small, limited, fill, acc, ctx) ==
  [st |-> state, src |-> src, room |-> room, content |-> content, directive |-> directive,
   small |-> small, limited |-> limited, fill |-> fill,
   acc |-> Smaller(Larger(acc, 1), AccelerationMax), ctx |-> ctx]

TableTypeFor(n) == IF n < Window + MFLIMIT - 1 THEN "U16" ELSE "U32"   \* LZ4_64K_LIMIT
Fresh(src) == [New EXCEPT !.tt = TableTypeFor(Len(src))]

CompressFast(src, room, acc) ==
  Job(Fresh(src), src, room, <<>>, "none", FALSE, room < CompressBound(Len(src)), FALSE, acc, None)
CompressDestSize(src, room, acc) ==
  Job(Fresh(src), src, room, <<>>, "none", FALSE, TRUE, TRUE, acc, None)
CompressExtState(state, src, room, acc, fastReset) ==
  LET tt == TableTypeFor(Len(src))
      s  == IF fastReset THEN Prepare(state, Len(src), tt) ELSE New
  IN  Job([s EXCEPT !.tt = tt], src, room, <<>>, "none", FALSE,
          room < CompressBound(Len(src)), FALSE, acc, None)

(* A history shorter than its window is only part of what was indexed.     *)
DictSmall(s) == s.dictSize < Window /\ s.dictSize < s.currentOffset
CompressContinue(state, src, room, content, prefix, ctx, acc) ==
  LET tiny == state.dictSize < 4 /\ ~prefix /\ src # <<>>
      s    == [state EXCEPT !.tt = "U32", !.dictSize = IF tiny \/ ctx # None THEN 0 ELSE @]
  IN  Job(s, src, room, content,
          IF ctx # None THEN "ctx" ELSE IF prefix THEN "prefix" ELSE "ext",
          ctx = None /\ DictSmall(s), TRUE, FALSE, acc, ctx)

(* What holds of the calls these make: the state's sizes go together, its  *)
(* entries are of what was seen, the history is there, indices keep within *)
(* their width, and a room that is not looked at is that of compress_bound.*)
Tables == [0..(HashSize - 1) -> Nat]
Seen(s) == \A h \in DOMAIN s.table : s.table[h] < Larger(1, s.currentOffset)
StateTyped(s) ==
  /\ s \in [table : Tables, currentOffset : Nat, dictSize : Nat, tt : {"none", "U16", "U32"},
            dictionary : Nat, dictCtx : {s.dictCtx}]
  /\ Seen(s) /\ s.dictSize <= s.currentOffset
HistoryLength(j) == IF j.directive = "ctx" THEN j.ctx.dictSize ELSE j.st.dictSize
Called(j) ==
  /\ j.src \in Seq(Nat) /\ j.content \in Seq(Nat) /\ j.room \in Nat /\ j.acc \in Nat \ {0}
  /\ {j.small, j.limited, j.fill} \subseteq BOOLEAN
  /\ j.directive \in {"none", "prefix", "ext", "ctx"}
  /\ StateTyped(j.st) /\ j.st.tt \in {"U16", "U32"}
  /\ j.st.currentOffset + Len(j.src) < Wrap
  /\ j.st.tt = "U16" => j.st.currentOffset + Len(j.src) < Window + MFLIMIT - 1
  /\ j.directive \in {"none", "ctx"} => j.st.dictSize = 0
  /\ j.directive = "ctx" =>
       StateTyped(j.ctx) /\ j.ctx.currentOffset \in 1..j.st.currentOffset
  /\ HistoryLength(j) <= Len(j.content)
  /\ j.fill => j.limited
  /\ ~j.limited => j.room >= CompressBound(Len(j.src))
JobsAssumption == \A j \in Jobs : Called(j)

(* A table speaks truly of a text if the bytes an entry was made from are  *)
(* where it says; a call's of its history, if the state was told of it.    *)
Truly(table, base, text, type) ==
  \A h \in DOMAIN table : table[h] > 0 /\ table[h] >= base =>
    /\ table[h] - base + HASH_UNIT <= Len(text)
    /\ h = HashPosition(text, table[h] - base, type)
Primed(j) ==
  Truly(j.st.table, j.st.currentOffset - j.st.dictSize, SubSeq(j.content, 1, j.st.dictSize), j.st.tt)
JobsPrimed == \A j \in Jobs : Primed(j)

(* ------------------------------- indices ------------------------------- *)
src == job.src
iend == Len(src)
olimit == job.room
tt == job.st.tt
matchlimit == iend - LASTLITERALS
mflimitPlusOne == iend - MFLIMIT + 1
startIndex == job.st.currentOffset
maybeExtMem == job.directive \in {"ext", "ctx"}
IndexOf(i) == (i + startIndex) % Wrap
Minus(x, y) == (x - y) % Wrap

(* The history a match at an index is in: its first index, its bytes.      *)
HistSize(inDict) == IF job.directive = "ctx" /\ inDict THEN job.ctx.dictSize ELSE job.st.dictSize
DictBase(inDict) == Minus(startIndex, HistSize(inDict))
Within(i) == i >= startIndex
ByteAt(i, inDict) ==
  IF Within(i) THEN src[i - startIndex + 1] ELSE job.content[Minus(i, DictBase(inDict)) + 1]
Readable4(i, inDict) ==
  IF Within(i) THEN i - startIndex + 4 <= iend
  ELSE Minus(i, DictBase(inDict)) + 4 <= Len(job.content)
SameFour(i, p, inDict) ==
  /\ Readable4(i, inDict)
  /\ \A k \in 0..3 :
       src[p + k + 1] = IF Within(i) THEN src[i - startIndex + k + 1]
                        ELSE job.content[Minus(i, DictBase(inDict)) + k + 1]

(* How far src from p agrees with what is at index i, up to a limit; the   *)
(* history goes on at the start of src (count_hist, count).                *)
Common(p, i, inDict, limit) ==
  LET n == Larger(0, IF Within(i) THEN Smaller(limit - p, iend - (i - startIndex)) ELSE limit - p)
      apart == {k \in 0..(n - 1) : src[p + k + 1] # ByteAt(i + k, inDict)}
  IN  IF apart = {} THEN n ELSE CHOOSE k \in apart : \A j \in apart : k <= j

(* ------------------------------- a probe ------------------------------- *)
Candidate(mi, h) ==
  LET inDict == maybeExtMem /\ mi < startIndex
  IN  [inDict |-> inDict,
       idx |-> IF job.directive = "ctx" /\ inDict
               THEN (job.ctx.table[h] + Minus(startIndex, job.ctx.currentOffset)) % Wrap
               ELSE mi]
NearEnoughAlways(i, current) == TRUE            \* Slip: the distance not looked at
NearEnough(i, current) == tt = "U16" \/ i + (Window - 1) >= current
NotTooOld(c) ==
  /\ job.small => c.idx >= Minus(startIndex, job.st.dictSize)
  /\ c.idx >= DictBase(c.inDict)
Accepted(c, p, current) ==
  NotTooOld(c) /\ NearEnough(c.idx, current) /\ SameFour(c.idx, p, c.inDict)
MatchOf(c, current) ==
  [idx |-> c.idx, inDict |-> c.inDict, ext |-> IF maybeExtMem THEN Minus(current, c.idx) ELSE 0]

Stop(how) == pc' = how /\ UNCHANGED <<job, st, ip, anchor, op, fwd, m, filled, token, lits, seqs, last>>

(* The state moves on by the whole block before any of it is looked at.    *)
Advanced(s) == [s EXCEPT !.dictSize = (@ + iend) % Wrap, !.currentOffset = (@ + iend) % Wrap]
Empty ==
  /\ pc = "begin" /\ iend = 0
  /\ IF job.limited /\ olimit = 0
     THEN Stop("failed")
     ELSE /\ pc' = "done" /\ op' = 1 /\ last' = <<>>
          /\ UNCHANGED <<job, st, ip, anchor, fwd, m, filled, token, lits, seqs>>

Begin ==
  /\ pc = "begin" /\ iend > 0
  /\ LET s == Advanced(st)
     IN  IF iend < MinLength
         THEN /\ st' = s /\ pc' = "last" /\ UNCHANGED <<ip, fwd>>
         ELSE /\ st' = [s EXCEPT !.table = Put(@, tt, HashPosition(src, 0, tt), startIndex)]
              /\ ip' = 1 /\ pc' = "search"
              /\ fwd' = [ip |-> 1, step |-> 1, nb |-> job.acc * 2 ^ SkipTrigger]
  /\ UNCHANGED <<job, anchor, op, m, filled, token, lits, seqs, last>>

Search ==
  /\ pc = "search" /\ fwd.ip + fwd.step <= mflimitPlusOne
  /\ LET h == HashPosition(src, fwd.ip, tt)
         c == Candidate(st.table[h], h)
         current == IndexOf(fwd.ip)
     IN  /\ ip' = fwd.ip
         /\ st' = [st EXCEPT !.table = Put(@, tt, h, current)]
         /\ IF Accepted(c, fwd.ip, current)
            THEN pc' = "literals" /\ m' = MatchOf(c, current)
            ELSE UNCHANGED <<pc, m>>
         /\ fwd' = [ip |-> fwd.ip + fwd.step, step |-> fwd.nb \div 2 ^ SkipTrigger, nb |-> fwd.nb + 1]
         /\ filled' = fwd.ip
  /\ UNCHANGED <<job, anchor, op, token, lits, seqs, last>>

SearchEnds ==
  /\ pc = "search" /\ fwd.ip + fwd.step > mflimitPlusOne
  /\ Stop("last")

(* --------------------------- literals, matches ------------------------- *)
(* The match is walked back, never past the literals already written nor   *)
(* out of the region it is in.                                             *)
LowLimit == IF m.inDict \/ job.directive = "prefix" THEN DictBase(m.inDict) ELSE startIndex
CaughtUp ==
  CHOOSE n \in 0..ip :
    LET stays(k) == /\ k > 0 => IndexOf(ip - k) > IndexOf(anchor)
                    /\ m.idx - k > LowLimit
                    /\ src[ip - k] = ByteAt(m.idx - k - 1, m.inDict)
    IN  /\ \A k \in 0..(n - 1) : stays(k)
        /\ ~stays(n)

RoomForLiterals(n) ==
  IF job.fill THEN op + 1 + (n + 240) \div 255 + n + 2 + 1 + MFLIMIT - MINMATCH <= olimit
  ELSE job.limited => op + 1 + n + (2 + 1 + LASTLITERALS) + n \div 255 <= olimit

EncodeLiterals ==
  /\ pc = "literals"
  /\ LET back == CaughtUp
         n    == ip - back - anchor
     IN  IF ~RoomForLiterals(n)
         THEN Stop(IF job.fill THEN "last" ELSE "failed")
         ELSE /\ pc' = "match"
              /\ ip' = ip - back /\ m' = [m EXCEPT !.idx = @ - back]
              /\ token' = op /\ lits' = SubSeq(src, anchor + 1, ip - back)
              /\ op' = op + 1 + Len(Extension(n)) + n
              /\ UNCHANGED <<job, st, anchor, fwd, filled, seqs, last>>

(* The offset keeps 16 bits.  A match in the external history is counted   *)
(* to the end of that history and from there at the start of the block.    *)
Offset == (IF maybeExtMem THEN m.ext ELSE Minus(IndexOf(ip), m.idx)) % Window
MatchCode ==
  IF m.inDict
  THEN LET limit == Smaller(ip + Minus(startIndex, m.idx), matchlimit)
           n     == Common(ip + MINMATCH, m.idx + MINMATCH, TRUE, limit)
       IN  n + IF ip + MINMATCH + n = limit THEN Common(limit, startIndex, TRUE, matchlimit) ELSE 0
  ELSE Common(ip + MINMATCH, m.idx + MINMATCH, FALSE, matchlimit)

NoRoomForLength(n) ==
  job.limited /\ op + OffsetSize + (1 + LASTLITERALS) + (n + 240) \div 255 > olimit
MatchRoom == 14 + (olimit - op - OffsetSize - 1 - LASTLITERALS) * 255
(* Filling, the match is cut to what its length bytes have room for;       *)
(* positions that are then not consumed leave the table.                   *)
Forgotten(table, from) ==
  LET drop == {HashPosition(src, p, tt) : p \in {q \in from..filled : q + 8 <= iend}}
  IN  [h \in DOMAIN table |-> IF h \in drop THEN 0 ELSE table[h]]
MatchEnd(n) == ip + MINMATCH + n
FillTable(table, end) ==
  Put(table, tt, HashPosition(src, end - 2, tt), IndexOf(end - 2))
MatchCodeWritten(n) == IF NoRoomForLength(n) THEN MatchRoom ELSE n

NoRoomForMatch ==
  /\ pc = "match"
  /\ \/ job.fill /\ op + 2 + 1 + MFLIMIT - MINMATCH > olimit /\ pc' = "last" /\ op' = token
     \/ ~job.fill /\ NoRoomForLength(MatchCode) /\ pc' = "failed" /\ UNCHANGED op
  /\ UNCHANGED <<job, st, ip, anchor, fwd, m, filled, token, lits, seqs, last>>

(* A match written; then the position after it is tried at once, and only  *)
(* when it matches nothing does the search go on.                          *)
EncodeMatch ==
  /\ pc = "match"
  /\ job.fill => op + 2 + 1 + MFLIMIT - MINMATCH <= olimit
  /\ ~job.fill => ~NoRoomForLength(MatchCode)
  /\ LET n   == MatchCodeWritten(MatchCode)
         end == MatchEnd(n)
         o   == op + OffsetSize + Len(Extension(n))
         cut == IF NoRoomForLength(MatchCode) THEN Forgotten(st.table, end) ELSE st.table
         h   == HashPosition(src, end, tt)
         held == FillTable(cut, end)
         c   == Candidate(held[h], h)
         current == IndexOf(end)
     IN  /\ seqs' = Append(seqs, [lits |-> lits, offset |-> Offset, length |-> n + MINMATCH])
         /\ anchor' = end
         /\ IF end >= mflimitPlusOne
            THEN /\ pc' = "last" /\ op' = o /\ ip' = end
                 /\ st' = [st EXCEPT !.table = cut] /\ UNCHANGED <<fwd, m, token, lits>>
            ELSE /\ st' = [st EXCEPT !.table = Put(held, tt, h, current)]
                 /\ IF Accepted(c, end, current)
                    THEN /\ token' = o /\ op' = o + 1 /\ ip' = end /\ lits' = <<>>
                         /\ m' = MatchOf(c, current) /\ UNCHANGED <<pc, fwd>>
                    ELSE /\ pc' = "search" /\ op' = o /\ ip' = end + 1
                         /\ fwd' = [ip |-> end + 1, step |-> 1, nb |-> job.acc * 2 ^ SkipTrigger]
                         /\ UNCHANGED <<m, token, lits>>
  /\ UNCHANGED <<job, filled, last>>

(* ----------------------------- last literals --------------------------- *)
LastRun == iend - anchor
LastRunCutLong == olimit - op - 1               \* Slip: no room kept for the length bytes
LastRunCut == LET n == olimit - op - 1 IN n - (n + 256 - RUN_MASK) \div 256
LastFits == ~job.limited \/ op + LastRun + 1 + (LastRun + 255 - RUN_MASK) \div 255 <= olimit
NoneFits == olimit <= op

LastLiterals ==
  /\ pc = "last"
  /\ IF ~LastFits /\ (~job.fill \/ NoneFits)
     THEN Stop("failed")
     ELSE LET n == IF LastFits THEN LastRun ELSE LastRunCut
          IN  /\ pc' = "done" /\ last' = SubSeq(src, anchor + 1, anchor + n)
              /\ op' = op + 1 + Len(Extension(n)) + n
              /\ UNCHANGED <<job, st, ip, anchor, fwd, m, filled, token, lits, seqs>>

Finished == pc \in {"done", "failed"} /\ UNCHANGED vars

NoMatch == [idx |-> 0, inDict |-> FALSE, ext |-> 0]
Ready(j) ==
  /\ job = j /\ st = j.st /\ pc = "begin" /\ ip = 0 /\ anchor = 0 /\ op = 0
  /\ fwd = [ip |-> 0, step |-> 0, nb |-> 0] /\ m = NoMatch /\ filled = 0 /\ token = 0
  /\ lits = <<>> /\ seqs = <<>> /\ last = <<>>
(* The same as a step, for those who make call after call; and where they  *)
(* begin: nothing was compressed yet.                                      *)
Start(j) ==
  /\ job' = j /\ st' = j.st /\ pc' = "begin" /\ ip' = 0 /\ anchor' = 0 /\ op' = 0
  /\ fwd' = [ip |-> 0, step |-> 0, nb |-> 0] /\ m' = NoMatch /\ filled' = 0 /\ token' = 0
  /\ lits' = <<>> /\ seqs' = <<>> /\ last' = <<>>
Resting ==
  /\ job = CompressFast(<<>>, 1, 1) /\ st = job.st /\ pc = "done" /\ ip = 0 /\ anchor = 0 /\ op = 1
  /\ fwd = [ip |-> 0, step |-> 0, nb |-> 0] /\ m = NoMatch /\ filled = 0 /\ token = 0
  /\ lits = <<>> /\ seqs = <<>> /\ last = <<>>
Init == \E j \in Jobs : Ready(j)

Step == Empty \/ Begin \/ Search \/ SearchEnds \/ EncodeLiterals \/ NoRoomForMatch
        \/ EncodeMatch \/ LastLiterals
Next == Step \/ Finished
Spec == Init /\ [][Next]_vars

(* ------------------------------ properties ----------------------------- *)
Block == [seqs |-> seqs, last |-> last]
Consumed == IF job.fill THEN anchor + Len(last) ELSE iend
HistoryOf(j) == SubSeq(j.content, 1, HistoryLength(j))

(* The block means what was compressed: a decoder that has the history     *)
(* gets back all of the input, or when the room was to be filled the part  *)
(* reported as consumed (compress_generic, last_literals 1276-1278).  The  *)
(* history is all of what the call was given, or none of it.               *)
HistoryWhole == Len(HistoryOf(job)) \in {0, Len(job.content)}
RoundTrip ==
  pc = "done" /\ HistoryWhole =>
    /\ Reaches(HistoryOf(job), Block)
    /\ Content(HistoryOf(job), Block) = SubSeq(src, 1, Consumed)

(* Whatever is counted as written is in the room, also where the code      *)
(* checks nothing because the room is as large as LZ4_compressBound says   *)
(* (block.rs 1310, 1044-1245); and the count returned is the block's size. *)
InRoom ==
  /\ pc \notin {"begin", "failed"} => op <= olimit
  /\ pc = "done" => op = Len(BlockBytes(Block))

(* What other decoders ask of a block: the end-of-block rules, and offsets *)
(* that 16 bits hold (block.rs 1016-1017, 1097-1100).                      *)
Conforms ==
  pc = "done" =>
    /\ Conforming(Block)
    /\ \A i \in 1..Len(seqs) : seqs[i].offset \in 1..(Window - 1)

(* A room of LZ4_compressBound is always enough, and filling a room always *)
(* gives a block (block.rs 1254-1255, 1337-1380).                          *)
Succeeds ==
  pc = "failed" => /\ olimit < CompressBound(iend)
                   /\ job.fill => olimit = 0

(* The three together: no block is longer than its room, cut to fit or not *)
(* it ends as the format asks, and none fails where the room is that of    *)
(* compress_bound or is to be filled (block.rs 1101-1277).                 *)
BlocksFit == InRoom /\ Conforms /\ Succeeds

(* The table never speaks of what has not been seen: every entry is below  *)
(* the index the next block starts at (block.rs 990, 1060, 1200).          *)
NothingAhead ==
  pc # "begin" => \A h \in DOMAIN st.table : st.table[h] < Larger(1, st.currentOffset)

(* A live entry speaks of the bytes it was made from: what is at its index *)
(* hashes to it.  Entries that do not cost no correctness, only every      *)
(* match of the history, and no round trip shows it (block.rs 405-411).    *)
Live(e) == e > 0 /\ e >= DictBase(FALSE) /\ e < startIndex + iend
TableHonest ==
  pc # "begin" =>
    \A h \in DOMAIN st.table :
      LET e == st.table[h]
      IN  Live(e) => h = IF Within(e) THEN HashPosition(src, e - startIndex, tt)
                         ELSE HashPosition(job.content, e - DictBase(FALSE), tt)
==============================================================================
