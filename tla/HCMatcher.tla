------------------------------ MODULE HCMatcher ------------------------------
(***************************************************************************)
(* insert_and_get_wider_match (src/hc.rs 635-961): the search that the     *)
(* high-compression parsers ask for the longest match at a position, or    *)
(* one that also reaches back before it.  Candidates are taken from a hash *)
(* table and from the chain of distances behind it; two shortcuts jump     *)
(* along the chain, one by the farthest neighbour (chain_swap), one by     *)
(* runs of a single byte (pattern_analysis).  History is the prefix in     *)
(* front of the position, a dictionary stored elsewhere, or an attached    *)
(* context with tables of its own.                                         *)
(***************************************************************************)
EXTENDS BlockFormat

CONSTANTS
  Window,       \* 64 KB: entries of the chain, the first index of a stream, and
                \* more than a match reaches back (LZ4_DISTANCE_MAX)
  Trigger,      \* the scan of chain_swap takes longer steps after 2^Trigger misses
  Hash(_),      \* of four bytes
  Calls         \* see Call

ASSUME WindowAssumption == Window \in Nat /\ Window > MINMATCH /\ Trigger \in Nat

VARIABLES
  call,         \* the call: Call's record
  tables,       \* [hash, chain] of the state
  s             \* the search: see Start

vars == <<call, tables, s>>

(* Search base from ip, and back down to low, for more than longest bytes  *)
(* of match; dict lies before base in index space, ctx is an attached      *)
(* context's prefix.  stale is what the chain holds where nothing was put. *)
Call(dict, ctx, base, ip, low, longest, attempts, pattern, swap, favor, stale) ==
  [dict |-> dict, ctx |-> ctx, base |-> base, ip |-> ip, low |-> low, longest |-> longest,
   attempts |-> attempts, pattern |-> pattern, swap |-> swap, favor |-> favor, stale |-> stale]

Least(x, y) == IF x < y THEN x ELSE y
Most(x, y)  == IF x > y THEN x ELSE y

base == call.base
dict == call.dict
ip == call.ip
high == Len(base) - LASTLITERALS
prefixIdx == Window + Len(dict)               \* a dictionary begins at index Window
ipIndex == prefixIdx + ip
lookBack == ip - call.low
lowestMatchIndex ==
  IF 2 * Window > ipIndex THEN Window ELSE ipIndex - (Window - 1)
withinStartDistance == lowestMatchIndex = Window

FourAt(bytes, p) == SubSeq(bytes, p + 1, p + MINMATCH)
Here == FourAt(base, ip)

(* insert_chain: positions from up to before target.                       *)
EmptyTables(stale) ==
  [hash |-> [h \in {} |-> 0], chain |-> [i \in 0..(Window - 1) |-> stale]]
Head4(t, h) == IF h \in DOMAIN t.hash THEN t.hash[h] ELSE 0
InsertOne(t, bytes, first, p) ==
  LET h == Hash(FourAt(bytes, p))
      i == first + p
  IN  [hash  |-> (h :> i) @@ t.hash,
       chain |-> [t.chain EXCEPT ![i % Window] = Least(i - Head4(t, h), Window - 1)]]
InsertChain(t, bytes, first, from, target) ==
  LET upto == Least(target, Len(bytes) - MINMATCH + 1)
  IN  FoldLeft(LAMBDA tt, p : InsertOne(tt, bytes, first, p), t, [i \in 1..(upto - from) |-> from + i - 1])

(* All of a dictionary but its last three positions.                       *)
Filled(stale, bytes) ==
  IF Len(bytes) < MINMATCH THEN EmptyTables(stale)
  ELSE InsertChain(EmptyTables(stale), bytes, Window, 0, Len(bytes) - 3)

ctxTables == Filled(0, call.ctx)
ctxEnd == Window + Len(call.ctx)

(* ------------------------- counting equal bytes ------------------------ *)
FirstApart(n, Equal(_)) ==
  LET apart == {k \in 0..(n - 1) : ~Equal(k)}
  IN  IF apart = {} THEN Most(n, 0) ELSE CHOOSE k \in apart : \A j \in apart : k <= j

CountMatch(a, i, b, j, limit) ==
  FirstApart(Least(limit - i, Len(b) - j), LAMBDA k : a[i + k + 1] = b[j + k + 1])
CountBack(a, i, b, j, low) ==
  FirstApart(Least(i - low, j), LAMBDA k : a[i - k] = b[j - k])
(* A pattern is four times the same byte here: rotated, it is itself.      *)
CountPattern(bytes, from, to, byte) == FirstApart(to - from, LAMBDA k : bytes[from + k + 1] = byte)
ReverseCount(bytes, from, byte) == FirstApart(from, LAMBDA k : bytes[from - k] = byte)

(* ------------------------------ a candidate ---------------------------- *)
NoMatch == [len |-> 0, off |-> 0, back |-> 0]
MatchOf(forward, back, off) == [len |-> forward + back, off |-> off, back |-> back]

(* In the prefix two bytes where a longer match must agree are looked at   *)
(* first.                                                                  *)
LastTwoAgree(pos, longest) ==
  LET there == pos - lookBack + longest - 1
      here  == call.low + longest - 1
  IN  /\ there >= 0 /\ here + 2 <= Len(base) /\ there + 2 <= Len(base)
      /\ SubSeq(base, here + 1, here + 2) = SubSeq(base, there + 1, there + 2)

InPrefix(at, longest) ==
  LET pos == at - prefixIdx
  IN  IF LastTwoAgree(pos, longest) /\ FourAt(base, pos) = Here
      THEN MatchOf(MINMATCH + CountMatch(base, ip + MINMATCH, base, pos + MINMATCH, high),
                   CountBack(base, ip, base, pos, call.low), ipIndex - at)
      ELSE NoMatch

(* A match that reaches the end of the dictionary may go on in base.       *)
RunsOnNever(forward, limit) == FALSE            \* Slip: the end is the end
RunsOn(forward, limit) == ip + forward = limit /\ limit < high

InDict(at) ==
  LET pos     == at - Window
      limit   == Least(high, ip + prefixIdx - at)
      there   == MINMATCH + CountMatch(base, ip + MINMATCH, dict, pos + MINMATCH, limit)
      forward == there + (IF RunsOn(there, limit) THEN CountMatch(base, ip + there, base, 0, high)
                          ELSE 0)
  IN  IF pos + MINMATCH <= Len(dict) /\ FourAt(dict, pos) = Here
      THEN MatchOf(forward, CountBack(base, ip, dict, pos, call.low), ipIndex - at)
      ELSE NoMatch

Compared(at, longest) ==
  IF call.favor /\ ipIndex - at < 8 THEN NoMatch
  ELSE IF at >= prefixIdx THEN InPrefix(at, longest)
  ELSE IF at >= Window /\ at <= prefixIdx - 4 THEN InDict(at)
  ELSE NoMatch

Kept(r, m) == IF m.len > r.longest THEN [r EXCEPT !.longest = m.len, !.best = m] ELSE r

(* --------------------------- along the chain --------------------------- *)
Start == [pc |-> "insert", at |-> 0, attempts |-> call.attempts, longest |-> call.longest,
          best |-> NoMatch, chainPos |-> 0]

Delta(at) == tables.chain[at % Window]

After(r) ==
  [r EXCEPT !.pc = IF call.ctx # <<>> /\ r.attempts > 0 /\ withinStartDistance
                   THEN "context" ELSE "done"]

(* Words that begin in a match of longest bytes and end in it.             *)
WordsWithin(longest) == longest - MINMATCH + 1

(* chain_swap: of the positions the match covers, the one whose own chain  *)
(* reaches farthest back.                                                  *)
Farthest(at, longest) ==
  LET scan[p \in [pos : Nat, accel : Nat, far : Nat, chainPos : Nat]] ==
        IF p.pos >= WordsWithin(longest) THEN p
        ELSE LET d == Delta(at + p.pos)
                 step == p.accel \div 2^Trigger
             IN  scan[IF d > p.far
                      THEN [pos |-> p.pos + step, accel |-> 2^Trigger, far |-> d, chainPos |-> p.pos]
                      ELSE [p EXCEPT !.pos = @ + step, !.accel = @ + 1]]
  IN  scan[[pos |-> 0, accel |-> 2^Trigger, far |-> 1, chainPos |-> 0]]
(* pattern_analysis: the position before, where the same byte runs on.     *)
Repeats == Here[1] = Here[2] /\ Here[2] = Here[3] /\ Here[3] = Here[4]
ProtectsDictEnd(i) == i >= prefixIdx \/ prefixIdx - 1 - i >= 3
SourceRun == MINMATCH + CountPattern(base, ip + MINMATCH, high, Here[1])

Segment(c) ==
  LET external == c < prefixIdx
      bytes == IF external THEN dict ELSE base
      pos   == IF external THEN c - Window ELSE c - prefixIdx
      limit == IF external THEN Len(dict) ELSE high
      there == MINMATCH + CountPattern(bytes, pos + MINMATCH, limit, Here[1])
      back  == ReverseCount(bytes, pos, Here[1])
  IN  [starts  |-> pos + MINMATCH <= Len(bytes) /\ FourAt(bytes, pos) = Here,
       forward |-> there + (IF external /\ pos + there = limit
                            THEN CountPattern(base, 0, high, Here[1]) ELSE 0),
       back    |-> Least(c - lowestMatchIndex,
                         back + (IF ~external /\ pos = back /\ Window < prefixIdx
                                 THEN ReverseCount(dict, Len(dict), Here[1]) ELSE 0))]

Fits(g) == g.back + g.forward >= SourceRun /\ g.forward <= SourceRun

(* How much of a run is a match.  Slip: all of it, however short ours is.  *)
SharedAll(g) == g.back + g.forward
Shared(g) == Least(g.back + g.forward, SourceRun)

Protected(i) == IF ProtectsDictEnd(i) THEN i ELSE prefixIdx

AlongRun(r, c) ==
  LET g   == Segment(c)
      max == Shared(g)
      at  == Protected(c - g.back)
      m   == [len |-> max, off |-> ipIndex - at, back |-> 0]
      found == IF r.longest < max THEN [r EXCEPT !.at = at, !.longest = max, !.best = m]
               ELSE [r EXCEPT !.at = at]
  IN  IF Fits(g) THEN [r EXCEPT !.at = Protected(c + g.forward - SourceRun)]
      ELSE IF lookBack # 0 THEN [r EXCEPT !.at = at]
      ELSE IF r.longest < max /\ m.off > Window - 1 THEN After([r EXCEPT !.at = at])
      ELSE IF Delta(at) = 0 \/ Delta(at) > at THEN After(found)
      ELSE [found EXCEPT !.at = @ - Delta(at)]

Onward(r) ==
  LET d == Delta(r.at + r.chainPos)
  IN  IF d = 0 \/ d > r.at THEN After(r) ELSE [r EXCEPT !.at = @ - d]

AfterCompare(r, len) ==
  LET swap == Farthest(r.at, r.longest)
      c == r.at - 1
  IN  IF /\ call.swap /\ len = r.longest /\ lookBack = 0
         /\ r.at + r.longest <= ipIndex /\ swap.far > 1
      THEN LET far == [r EXCEPT !.chainPos = swap.chainPos]
           IN  IF swap.far > r.at THEN After(far) ELSE [far EXCEPT !.at = @ - swap.far]
      ELSE IF /\ call.pattern /\ Delta(r.at) = 1 /\ r.chainPos = 0 /\ r.at > 0 /\ Repeats
              /\ c >= lowestMatchIndex /\ ProtectsDictEnd(c) /\ Segment(c).starts
      THEN AlongRun(r, c)
      ELSE Onward(r)

(* ------------------------------- actions ------------------------------- *)
Insert ==
  /\ s.pc = "insert"
  /\ tables' = InsertChain(tables, base, prefixIdx, 0, ip)
  /\ s' = [s EXCEPT !.pc = "chain", !.at = Head4(tables', Hash(Here))]
  /\ UNCHANGED call

Attempt ==
  /\ s.pc = "chain"
  /\ IF s.at < lowestMatchIndex \/ s.attempts = 0 THEN s' = After(s)
     ELSE LET r == [s EXCEPT !.attempts = @ - 1]
          IN  IF s.at >= ipIndex THEN s' = After(r)
              ELSE LET m == Compared(s.at, s.longest) IN s' = AfterCompare(Kept(r, m), m.len)
  /\ UNCHANGED <<call, tables>>

(* The attached context: its positions as if they lay before the lowest.   *)
Relative(i) == i + lowestMatchIndex - ctxEnd
InContext(at) ==
  LET pos == at - Window
  IN  IF pos + MINMATCH <= Len(call.ctx) /\ FourAt(call.ctx, pos) = Here
      THEN MatchOf(MINMATCH + CountMatch(base, ip + MINMATCH, call.ctx, pos + MINMATCH,
                                         Least(high, ip + ctxEnd - at)),
                   CountBack(base, ip, call.ctx, pos, call.low), ipIndex - Relative(at))
      ELSE NoMatch

EnterContext ==
  /\ s.pc = "context"
  /\ LET at == Head4(ctxTables, Hash(Here))
     IN  s' = IF Relative(at) < 0 THEN [s EXCEPT !.pc = "done"]
              ELSE [s EXCEPT !.pc = "inContext", !.at = at]
  /\ UNCHANGED <<call, tables>>

AttemptContext ==
  /\ s.pc = "inContext"
  /\ IF s.attempts = 0 \/ ipIndex - Relative(s.at) > Window - 1 \/ s.at < Window
     THEN s' = [s EXCEPT !.pc = "done"]
     ELSE LET r == Kept([s EXCEPT !.attempts = @ - 1], InContext(s.at))
              d == ctxTables.chain[s.at % Window]
          IN  s' = IF d = 0 \/ d > s.at \/ d > Relative(s.at) THEN [r EXCEPT !.pc = "done"]
                   ELSE [r EXCEPT !.at = @ - d]
  /\ UNCHANGED <<call, tables>>

Returned == s.pc = "done" /\ UNCHANGED vars

Init == call \in Calls /\ tables = Filled(call.stale, call.dict) /\ s = Start

Next == Insert \/ Attempt \/ EnterContext \/ AttemptContext \/ Returned

Spec == Init /\ [][Next]_vars

-----------------------------------------------------------------------------
(* Properties.                                                             *)

History == IF call.ctx # <<>> THEN call.ctx ELSE dict
Text == History \o base
Place == Len(History) + ip

(* What is returned is a match: it starts where the caller allows, leaves  *)
(* the last literals alone, is longer than what the caller had, near       *)
(* enough, and the bytes agree, across the end of the dictionary and over  *)
(* runs that were counted and not compared (hc.rs 635-961).                *)
TrueMatch ==
  s.best # NoMatch =>
    LET m == s.best
        from == Place - m.back
    IN  /\ m.len > call.longest /\ m.len >= m.back + MINMATCH
        /\ m.back <= lookBack /\ ip - m.back + m.len <= high
        /\ m.off \in 1..Least(Window - 1, from)
        /\ \A k \in 1..m.len : Text[from + k] = Text[from + k - m.off]

(* Nothing longer was passed over: unless the attempts ran out, no         *)
(* position in reach has a longer match, whichever shortcuts were taken    *)
(* along the chain.  A match in an attached context ends with it.          *)
InReach(p) ==
  /\ Place - p <= Window - 1 /\ FourAt(Text, p) = FourAt(Text, Place)
  /\ p < Len(History) => p + MINMATCH <= Len(History)
LengthFrom(p) ==
  LET limit == IF p < Len(call.ctx) THEN Len(call.ctx) - p ELSE Len(base)
  IN  FirstApart(Least(limit, high - ip), LAMBDA k : Text[Place + k + 1] = Text[p + k + 1])
NoneLonger ==
  s.pc = "done" /\ s.attempts > 0 /\ ~call.favor /\ lookBack = 0 =>
    \A p \in 0..(Place - 1) : InReach(p) => LengthFrom(p) <= s.longest
=============================================================================
