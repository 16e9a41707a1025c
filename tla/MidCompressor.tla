---------------------------- MODULE MidCompressor ----------------------------
(***************************************************************************)
(* compress_mid (src/hc.rs 1060-1242), the compressor of levels 1 and 2:   *)
(* two tables, of the last position of every four and of every seven       *)
(* bytes, a look one position ahead, and a match walked back to where it   *)
(* starts.  The history is what lies before the block in its own buffer,   *)
(* a dictionary elsewhere, or the prefix of an attached stream with the    *)
(* tables mid_fill_htable made of it.  The room is enough (HCOutput has    *)
(* the other calls); how a stream keeps its history is in HCStream.        *)
(***************************************************************************)
EXTENDS BlockFormat

CONSTANTS
  DistanceMax,   \* 65535
  SkipLog,       \* 9: literals before the step grows, as a power of 2
  FillTail,      \* 32 KB: how much of a dictionary gets all its long entries
  Slots,         \* of each table
  Hash4(_),      \* mid_hash4 of four bytes
  Hash7(_),      \* mid_hash7 of seven
  Jobs           \* a stream and the blocks it is given: see Job

MidAssumption == DistanceMax \in Nat /\ DistanceMax > 8 /\ SkipLog \in Nat /\ FillTail \in Nat

HASHSIZE == 8    \* LZ4MID_HASHSIZE

VARIABLES
  pc,            \* "idle", "search", "last", "done"
  base, srcOff,  \* history and block in one, and where the block begins
  prefixIdx,     \* the index of base's first byte
  dict, dictIdx, \* the dictionary elsewhere, and its first index
  ctx,           \* the attached stream, or None
  hash4, hash8,  \* the tables
  ip, anchor,
  seqs, last,    \* the block written
  blocks         \* the blocks that follow: [src, adjacent]

view == <<base, srcOff, prefixIdx, dict, dictIdx, ctx, blocks>>
vars == <<pc, view, hash4, hash8, ip, anchor, seqs, last>>

Smaller(x, y) == IF x < y THEN x ELSE y
Larger(x, y) == IF x > y THEN x ELSE y

None == [none |-> TRUE]
Empty == [h \in Slots |-> 0]

(* ------------------------------ the tables ----------------------------- *)
At4(buf, p) == Hash4(SubSeq(buf, p + 1, p + 4))
At8(buf, p) == Hash7(SubSeq(buf, p + 1, p + 7))

\* add_pos4, add_pos8
Add4(table, buf, p, idx) == IF p + MINMATCH <= Len(buf) THEN [table EXCEPT ![At4(buf, p)] = idx] ELSE table
Add8(table, buf, p, idx) == IF p + HASHSIZE <= Len(buf) THEN [table EXCEPT ![At8(buf, p)] = idx] ELSE table

(* mid_fill_htable: every third position of a dictionary whose bytes begin *)
(* at index idx, and the end of it densely.                                *)
Filled(bytes, idx) ==
  LET target == Len(bytes) - HASHSIZE
      Step(t, p) == [four  |-> Add4(t.four, bytes, p, idx + p),
                     eight |-> Add8(t.eight, bytes, p + 1, idx + p + 1)]
      Dense(t, p) == [t EXCEPT !.eight = Add8(@, bytes, p, idx + p)]
      from == IF Len(bytes) > FillTail + HASHSIZE THEN target - FillTail ELSE 0
      thirds == FoldLeft(Step, [four |-> Empty, eight |-> Empty],
                         [i \in 1..((target + 2) \div 3) |-> 3 * (i - 1)])
  IN  IF Len(bytes) <= HASHSIZE THEN [four |-> Empty, eight |-> Empty]
      ELSE FoldLeft(Dense, thirds, [i \in 1..(target - from) |-> from + i - 1])

(* A stream with a dictionary loaded: its prefix, first index and tables.  *)
Loaded(bytes, idx) == [prefix |-> bytes, dictLimit |-> idx, tables |-> Filled(bytes, idx)]

(* The stream s as it is, or new at index idx with another one attached,   *)
(* and the blocks it will be given.                                        *)
Job(s, attached, given) ==
  [base |-> s.prefix, prefixIdx |-> s.dictLimit, four |-> s.tables.four, eight |-> s.tables.eight,
   ctx |-> attached, blocks |-> given]

(* ------------------------------- searching ----------------------------- *)
iend == Len(base)
mflimit == Larger(iend - MFLIMIT, 0)
matchlimit == Larger(iend - LASTLITERALS, 0)
IndexOf(p) == p + prefixIdx

(* count_match: how far a from ai agrees with b from bi.                   *)
Common(a, ai, b, bi, limit) ==
  LET n == Larger(0, Smaller(limit - ai, Len(b) - bi))
      apart == {k \in 0..(n - 1) : a[ai + k + 1] # b[bi + k + 1]}
  IN  IF apart = {} THEN n ELSE CHOOSE k \in apart : \A j \in apart : k <= j

(* The distance is unsigned: an index ahead of the position is far away.   *)
Near(idx, entry) == entry <= idx /\ idx - entry <= DistanceMax

NoMatch == [len |-> 0, dist |-> 0, at |-> 0]
MatchIf(len, dist, p) == IF len >= MINMATCH THEN [len |-> len, dist |-> dist, at |-> p] ELSE NoMatch

(* What a table's entry is worth at position p.                            *)
InPrefix(p, entry) ==
  IF Near(IndexOf(p), entry) /\ entry >= prefixIdx
  THEN MatchIf(Common(base, p, base, entry - prefixIdx, matchlimit), IndexOf(p) - entry, p)
  ELSE NoMatch
InDict(p, entry) ==
  IF Near(IndexOf(p), entry) /\ entry < prefixIdx /\ entry >= dictIdx
  THEN LET safe == Smaller(prefixIdx - entry, Larger(matchlimit - p, 0))
       IN  MatchIf(Common(base, p, dict, entry - dictIdx, p + safe), IndexOf(p) - entry, p)
  ELSE NoMatch
Worth(p, entry) == IF entry >= prefixIdx THEN InPrefix(p, entry) ELSE InDict(p, entry)

(* A short match in the prefix gives way to a longer one at the next       *)
(* position.                                                               *)
\* Slip: the distance is that of the short one.
AheadOf(m, p, eight) ==
  LET next == InPrefix(p + 1, eight[At8(base, p + 1)])
  IN  IF p < mflimit /\ next.len > m.len THEN [next EXCEPT !.dist = m.dist] ELSE NoMatch
Ahead(m, p, eight) ==
  LET next == InPrefix(p + 1, eight[At8(base, p + 1)])
  IN  IF p < mflimit /\ next.len > m.len THEN next ELSE NoMatch

(* mid_search_ext_dict: the attached prefix, as if it ended where the      *)
(* stream's own history begins; the long table first.                      *)
InContext(p) ==
  LET end == ctx.dictLimit + Len(ctx.prefix)
      Try(entry) ==
        LET idx == entry + dictIdx - end
        IN  IF Near(IndexOf(p), idx) /\ entry >= ctx.dictLimit /\ entry - ctx.dictLimit < Len(ctx.prefix)
            THEN MatchIf(Common(base, p, ctx.prefix, entry - ctx.dictLimit,
                                p + Smaller(end - entry, Larger(matchlimit - p, 0))),
                         IndexOf(p) - idx, p)
            ELSE NoMatch
      long == Try(ctx.tables.eight[At8(base, p)])
  IN  IF ctx = None \/ IndexOf(p) - dictIdx >= DistanceMax - 8 THEN NoMatch
      ELSE IF long # NoMatch THEN long
      ELSE Try(ctx.tables.four[At4(base, p)])

(* ------------------------------- a match ------------------------------- *)
(* It is walked back, not past the literals written nor out of the prefix. *)
Back(m) ==
  CHOOSE n \in 0..m.at :
    LET stays(k) == /\ m.at - k > anchor /\ m.at - k > m.dist
                    /\ base[m.at - k] = base[m.at - k - m.dist]
    IN  (\A k \in 0..(n - 1) : stays(k)) /\ ~stays(n)

(* Entries for its beginning.  They get the indices next to the position   *)
(* that was searched, although the match may begin elsewhere.              *)
BeginFill(four, eight, p) ==
  [four  |-> Add4(four, base, p + 1, IndexOf(ip) + 1),
   eight |-> Add8(Add8(eight, base, p + 1, IndexOf(ip) + 1), base, p + 2, IndexOf(ip) + 2)]

(* And for its end.                                                        *)
EndFill(t, end) ==
  IF IndexOf(end) - 2 >= IndexOf(Larger(iend - HASHSIZE, 0)) THEN t
  ELSE [four  |-> Add4(Add4(t.four, base, end - 2, IndexOf(end) - 2), base, end - 1, IndexOf(end) - 1),
        eight |-> LET far == IF end > 5 THEN Add8(t.eight, base, end - 5, IndexOf(end) - 5) ELSE t.eight
                  IN  Add8(Add8(far, base, end - 3, IndexOf(end) - 3), base, end - 2, IndexOf(end) - 2)]

Take(m, four, eight) ==
  LET back == Back(m)
      start == m.at - back
      end == m.at + m.len
      t == EndFill(BeginFill(four, eight, start), end)
  IN  /\ seqs' = Append(seqs, [lits |-> SubSeq(base, anchor + 1, start), offset |-> m.dist,
                               length |-> m.len + back])
      /\ ip' = end /\ anchor' = end
      /\ hash4' = t.four /\ hash8' = t.eight

(* -------------------------------- actions ------------------------------ *)
Start(block, from, context) ==
  /\ ip' = from /\ anchor' = from /\ seqs' = <<>> /\ last' = <<>>
  /\ srcOff' = from /\ ctx' = context /\ blocks' = Tail(blocks)
  /\ pc' = IF Len(block) < MFLIMIT + 1 THEN "last" ELSE "search"
  /\ UNCHANGED <<hash4, hash8>>

(* Right behind the history: an attached stream counts until there is      *)
(* history enough of the stream's own.                                     *)
BlockBehind ==
  /\ pc \in {"idle", "done"} /\ blocks # <<>> /\ Head(blocks).adjacent
  /\ base' = base \o Head(blocks).src
  /\ Start(Head(blocks).src, iend, IF iend + Len(dict) > DistanceMax THEN None ELSE ctx)
  /\ UNCHANGED <<prefixIdx, dict, dictIdx>>

(* Elsewhere: the prefix becomes the dictionary, all else is lost.         *)
BlockElsewhere ==
  /\ pc \in {"idle", "done"} /\ blocks # <<>> /\ ~Head(blocks).adjacent
  /\ base' = Head(blocks).src /\ prefixIdx' = IndexOf(iend)
  /\ dict' = base /\ dictIdx' = prefixIdx
  /\ Start(Head(blocks).src, 0, None)

(* What the tables say of this position; both are asked before the answer  *)
(* of one of them is taken.                                                *)
eight == [hash8 EXCEPT ![At8(base, ip)] = IndexOf(ip)]
four == [hash4 EXCEPT ![At4(base, ip)] = IndexOf(ip)]
long == Worth(ip, hash8[At8(base, ip)])
short == Worth(ip, hash4[At4(base, ip)])
ahead == IF hash4[At4(base, ip)] >= prefixIdx THEN Ahead(short, ip, eight) ELSE NoMatch

Searching == pc = "search" /\ ip <= mflimit /\ UNCHANGED <<pc, view, last>>

LongMatch == Searching /\ long # NoMatch /\ Take(long, hash4, eight)

ShortMatch ==
  /\ Searching /\ long = NoMatch /\ short # NoMatch /\ ahead = NoMatch
  /\ Take(short, four, eight)

AheadMatch ==
  /\ Searching /\ long = NoMatch /\ short # NoMatch /\ ahead # NoMatch
  /\ Take(ahead, four, [eight EXCEPT ![At8(base, ip + 1)] = IndexOf(ip) + 1])

ContextMatch ==
  /\ Searching /\ long = NoMatch /\ short = NoMatch /\ InContext(ip) # NoMatch
  /\ Take(InContext(ip), four, eight)

Literal ==
  /\ Searching /\ long = NoMatch /\ short = NoMatch /\ InContext(ip) = NoMatch
  /\ ip' = ip + 1 + (ip - anchor) \div 2 ^ SkipLog
  /\ hash4' = four /\ hash8' = eight /\ UNCHANGED <<anchor, seqs>>

SearchEnds ==
  /\ pc = "search" /\ ip > mflimit /\ pc' = "last"
  /\ UNCHANGED <<view, hash4, hash8, ip, anchor, seqs, last>>

LastLiterals ==
  /\ pc = "last" /\ pc' = "done"
  /\ last' = SubSeq(base, anchor + 1, iend)
  /\ UNCHANGED <<view, hash4, hash8, ip, anchor, seqs>>

Finished == pc = "done" /\ blocks = <<>> /\ UNCHANGED vars

Init ==
  \E j \in Jobs :
    /\ pc = "idle" /\ blocks = j.blocks /\ ctx = j.ctx
    /\ base = j.base /\ srcOff = Len(base) /\ prefixIdx = j.prefixIdx
    /\ dict = <<>> /\ dictIdx = j.prefixIdx
    /\ hash4 = j.four /\ hash8 = j.eight
    /\ ip = 0 /\ anchor = 0 /\ seqs = <<>> /\ last = <<>>

Next ==
  \/ BlockBehind \/ BlockElsewhere
  \/ LongMatch \/ ShortMatch \/ AheadMatch \/ ContextMatch \/ Literal
  \/ SearchEnds \/ LastLiterals \/ Finished
Spec == Init /\ [][Next]_vars

-----------------------------------------------------------------------------
(* Properties.                                                             *)

Block == [seqs |-> seqs, last |-> last]
History == (IF ctx = None THEN <<>> ELSE ctx.prefix) \o dict \o SubSeq(base, 1, srcOff)

(* A decoder with the history gets back the block, although the tables     *)
(* may name places that hold other bytes than those they were made of      *)
(* (hc.rs 1092-1241).                                                      *)
RoundTrip ==
  pc = "done" =>
    /\ Reaches(History, Block)
    /\ Content(History, Block) = SubSeq(base, srcOff + 1, iend)

(* The block ends as the format asks, and each match lies at a distance    *)
(* that can be written (hc.rs 521, 1075-1076).                             *)
Conforms ==
  pc = "done" =>
    /\ Conforming(Block)
    /\ \A i \in 1..Len(seqs) : seqs[i].offset \in 1..DistanceMax

(* No entry names the position that is searched next, or one after it: a   *)
(* match found there would be one with itself (hc.rs 1195-1239).           *)
EntriesBehind ==
  pc = "search" => \A h \in Slots : hash4[h] < IndexOf(ip) /\ hash8[h] < IndexOf(ip)
=============================================================================
