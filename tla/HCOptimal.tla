------------------------------ MODULE HCOptimal ------------------------------
(***************************************************************************)
(* compress_optimal (src/hc.rs 1774-2043), the parser of levels 10 to 12.  *)
(* From a first match on it keeps, for every position it can reach, the    *)
(* cheapest way found to get there (opt), asks for a match at each, and    *)
(* when no match reaches further walks the table back from its last        *)
(* position and writes what it chose.  What the search finds is left open: *)
(* any length that HCMatcher may return.  The table is never cleared: a    *)
(* round finds in it what the one before left.                             *)
(***************************************************************************)
EXTENDS Integers

CONSTANTS
  InputEnd,       \* iend
  OptNum,         \* LZ4_OPT_NUM: 4096
  Sufficient,     \* sufficient_length: 64, 128 or OptNum - 1
  RunMask,        \* RUN_MASK: 15
  MLMask,         \* ML_MASK: 15
  FavoredLength   \* 18: longer ones, up to twice it, are cut to it

ASSUME InputAssumption == InputEnd \in Nat /\ InputEnd > 12
ASSUME OptAssumption == OptNum \in Nat /\ Sufficient \in 4..(OptNum - 1)
\* A run as long as the trailing literals must take no byte of its own: the
\* prices of literals after a match count on it.
ASSUME MaskAssumption == MLMask \in Nat \ {0} /\ RunMask \in Nat /\ RunMask > 3
ASSUME FavoredAssumption == FavoredLength \in Nat /\ FavoredLength >= 4

MINMATCH == 4
TrailingLiterals == 3
mflimit == InputEnd - 12
matchlimit == InputEnd - 5
Positions == 0..(OptNum + TrailingLiterals - 1)   \* the indices opt has

VARIABLES
  pc,               \* "main", "chain", "emit", "done"
  full_update,      \* level 12
  favor_dec_speed,
  ip, anchor,
  opt,              \* [Positions -> [price, match, mlen, litlen]]
  last_match_pos, current,
  selected_end, relative_pos,
  seq               \* the sequence just written: [lits, start, len, match]

settings == <<full_update, favor_dec_speed>>
vars == <<pc, settings, ip, anchor, opt, last_match_pos, current, selected_end, relative_pos, seq>>

Least(x, y) == IF x < y THEN x ELSE y

(* A match stands for its offset: where it was found and how far it goes.  *)
NoMatch == [at |-> 0, len |-> 0]
NoSeq == [lits |-> 0, start |-> 0, len |-> MINMATCH, match |-> [at |-> 0, len |-> MINMATCH]]

(* literals_price, sequence_price: the bytes a run or a sequence takes.    *)
literals_price(litlen) == litlen + (IF litlen >= RunMask THEN 1 + (litlen - RunMask) \div 255 ELSE 0)
sequence_price(litlen, length) ==
  3 + literals_price(litlen)
    + (IF length >= MLMask + MINMATCH THEN 1 + (length - (MLMask + MINMATCH)) \div 255 ELSE 0)

Literal(price, litlen) == [price |-> price, match |-> NoMatch, mlen |-> 1, litlen |-> litlen]
Reached(price, match, mlen, litlen) == [price |-> price, match |-> match, mlen |-> mlen, litlen |-> litlen]

(* find_longer_match at position p, which may cut what it found.           *)
CutToFavored(len) ==
  IF favor_dec_speed /\ len > FavoredLength /\ len <= 2 * FavoredLength THEN FavoredLength ELSE len
FoundAt(p, longest) ==
  {[at |-> p, len |-> CutToFavored(n)] : n \in {m \in MINMATCH..(matchlimit - p) : m > longest}}

(* The three literals after the last match.                                *)
WithTrailing(table, last) ==
  [i \in Positions |-> IF i \in (last + 1)..(last + TrailingLiterals)
                       THEN Literal(table[last].price + literals_price(i - last), i - last)
                       ELSE table[i]]

(* encode_sequence; without room for it the block ends there (HCOutput).   *)
WrittenBack(len, match) ==                  \* Slip: ip stays where the match began
  /\ seq' = [lits |-> ip - anchor, start |-> ip, len |-> len, match |-> match]
  /\ ip' = ip /\ anchor' = ip
Written(len, match) ==
  /\ seq' = [lits |-> ip - anchor, start |-> ip, len |-> len, match |-> match]
  /\ ip' = ip + len /\ anchor' = ip + len

(* ------------------------------ first match ---------------------------- *)
NoFirst ==
  /\ pc = "main" /\ ip <= mflimit
  /\ ip' = ip + 1
  /\ UNCHANGED <<pc, settings, anchor, opt, last_match_pos, current, selected_end, relative_pos, seq>>

(* Long enough to be taken as it is.                                       *)
FirstLong ==
  /\ pc = "main" /\ ip <= mflimit
  /\ \E m \in FoundAt(ip, MINMATCH - 1) : m.len > Sufficient /\ Written(m.len, m)
  /\ UNCHANGED <<pc, settings, opt, last_match_pos, current, selected_end, relative_pos>>

WithFirst(m, litlen) ==
  [i \in Positions |->
     IF i < MINMATCH THEN Literal(literals_price(litlen + i), litlen + i)
     ELSE IF i <= m.len THEN Reached(sequence_price(litlen, i), m, i, litlen)
     ELSE opt[i]]
First ==
  /\ pc = "main" /\ ip <= mflimit
  /\ \E m \in FoundAt(ip, MINMATCH - 1) :
       /\ m.len <= Sufficient
       /\ opt' = WithTrailing(WithFirst(m, ip - anchor), m.len)
       /\ last_match_pos' = m.len
  /\ current' = 1 /\ pc' = "chain"
  /\ UNCHANGED <<settings, ip, anchor, selected_end, relative_pos, seq>>

Finish ==
  /\ pc = "main" /\ ip > mflimit /\ pc' = "done"
  /\ UNCHANGED <<settings, ip, anchor, opt, last_match_pos, current, selected_end, relative_pos, seq>>

(* ----------------------------- later matches --------------------------- *)
InReach == pc = "chain" /\ current < last_match_pos /\ ip + current <= mflimit

(* A position that the next one makes pointless is passed over.            *)
Pointless ==
  /\ opt[current + 1].price <= opt[current].price
  /\ full_update => opt[current + MINMATCH].price < opt[current].price + 3
Minimum == IF full_update THEN MINMATCH - 1 ELSE last_match_pos - current

Pass ==
  /\ InReach
  /\ current' = current + 1                   \* pointless, or nothing found
  /\ UNCHANGED <<pc, settings, ip, anchor, opt, last_match_pos, selected_end, relative_pos, seq>>

(* The literals after current get its price where that is less; then each  *)
(* length of the match is offered to the position it reaches.              *)
WithLiterals(c) ==
  LET LiteralPrice(n) ==
        opt[c].price - literals_price(opt[c].litlen) + literals_price(opt[c].litlen + n)
  IN  [i \in Positions |->
         IF i \in (c + 1)..(c + MINMATCH - 1) /\ LiteralPrice(i - c) < opt[i].price
         THEN Literal(LiteralPrice(i - c), opt[c].litlen + (i - c))
         ELSE opt[i]]
LitlenBefore(c) == IF opt[c].mlen = 1 THEN opt[c].litlen ELSE 0
PriceBeforeRun(c) ==                        \* Slip: before a match's own run as well
  IF c > opt[c].litlen THEN opt[c - opt[c].litlen].price ELSE 0
PriceBefore(c) ==
  IF opt[c].mlen # 1 THEN opt[c].price
  ELSE IF c > opt[c].litlen THEN opt[c - opt[c].litlen].price ELSE 0
Beaten(table, i, price) ==
  \/ i > last_match_pos + TrailingLiterals
  \/ price <= table[i].price - (IF favor_dec_speed THEN 1 ELSE 0)
MatchPrice(c, n) == PriceBefore(c) + sequence_price(LitlenBefore(c), n)
WithMatch(table, c, m) ==
  [i \in Positions |->
     IF i \in (c + MINMATCH)..(c + m.len) /\ Beaten(table, i, MatchPrice(c, i - c))
     THEN Reached(MatchPrice(c, i - c), m, i - c, LitlenBefore(c))
     ELSE table[i]]

(* The last position that a match reaches.                                 *)
ReachOf(table, c, m) ==
  IF c + m.len > last_match_pos /\ Beaten(table, c + m.len, MatchPrice(c, m.len))
  THEN c + m.len ELSE last_match_pos

Extend ==
  /\ InReach /\ ~Pointless
  /\ \E m \in FoundAt(ip + current, Minimum) :
       /\ m.len <= Sufficient /\ m.len + current < OptNum
       /\ LET table == WithLiterals(current)
              reach == ReachOf(table, current, m)
          IN  opt' = WithTrailing(WithMatch(table, current, m), reach) /\ last_match_pos' = reach
  /\ current' = current + 1
  /\ UNCHANGED <<pc, settings, ip, anchor, selected_end, relative_pos, seq>>

(* ------------------------------ the way back --------------------------- *)
(* From position c the positions the chosen way passes through.            *)
PathTo(c) ==
  LET before[i \in Positions] == IF opt[i].mlen > i THEN {i} ELSE {i} \cup before[i - opt[i].mlen]
  IN  before[c]

(* Each position of the way is told the step that leaves it, and not the   *)
(* one that led to it; the last step is the one given.                     *)
Turned(c, len, match) ==
  LET path == PathTo(c)
      After(i) == CHOOSE j \in path : j > i /\ \A k \in path : k > i => k >= j
  IN  [i \in Positions |->
         IF i \notin path THEN opt[i]
         ELSE IF i = c THEN [opt[i] EXCEPT !.mlen = len, !.match = match]
         ELSE [opt[i] EXCEPT !.mlen = opt[After(i)].mlen, !.match = opt[After(i)].match]]

TakeTable(c, end, len, match) ==
  /\ opt' = Turned(c, len, match)
  /\ selected_end' = end /\ relative_pos' = 0 /\ pc' = "emit"
  /\ UNCHANGED <<settings, ip, anchor, last_match_pos, current, seq>>

(* A match too long for the table, or long enough: the way leads to it.    *)
Immediate ==
  /\ InReach /\ ~Pointless
  /\ \E m \in FoundAt(ip + current, Minimum) :
       /\ m.len > Sufficient \/ m.len + current >= OptNum
       /\ TakeTable(current, current + 1, m.len, m)

Select ==
  /\ pc = "chain" /\ ~InReach
  /\ LET last == opt[last_match_pos]
     IN  TakeTable(last_match_pos - last.mlen, last_match_pos, last.mlen, last.match)

(* ------------------------------- writing ------------------------------- *)
EmitLiteral ==
  /\ pc = "emit" /\ relative_pos < selected_end /\ opt[relative_pos].mlen = 1
  /\ ip' = ip + 1 /\ relative_pos' = relative_pos + 1
  /\ UNCHANGED <<pc, settings, anchor, opt, last_match_pos, current, selected_end, seq>>
EmitMatch ==
  /\ pc = "emit" /\ relative_pos < selected_end /\ opt[relative_pos].mlen # 1
  /\ Written(opt[relative_pos].mlen, opt[relative_pos].match)
  /\ relative_pos' = relative_pos + opt[relative_pos].mlen
  /\ UNCHANGED <<pc, settings, opt, last_match_pos, current, selected_end>>
Emitted ==
  /\ pc = "emit" /\ relative_pos >= selected_end /\ pc' = "main"
  /\ UNCHANGED <<settings, ip, anchor, opt, last_match_pos, current, selected_end, relative_pos, seq>>

Finished == pc = "done" /\ UNCHANGED vars

Init ==
  /\ pc = "main" /\ ip = 0 /\ anchor = 0
  /\ full_update \in BOOLEAN /\ favor_dec_speed \in BOOLEAN
  /\ opt = [i \in Positions |-> [price |-> 0, match |-> NoMatch, mlen |-> 0, litlen |-> 0]]
  /\ last_match_pos = 0 /\ current = 0 /\ selected_end = 0 /\ relative_pos = 0
  /\ seq = NoSeq

Working ==
  \/ NoFirst \/ FirstLong \/ First \/ Finish
  \/ Pass \/ Extend \/ Immediate \/ Select
  \/ EmitLiteral \/ EmitMatch \/ Emitted
Next == Working \/ Finished

(* The code runs: nothing it waits for.                                    *)
Spec == Init /\ [][Next]_vars /\ WF_vars(Working)

-----------------------------------------------------------------------------
(* Properties.                                                             *)

(* Each sequence written is a match that was found right where it stands,  *)
(* no longer than it was found to be, and follows the one before; none     *)
(* takes the last five bytes or begins in the last twelve                  *)
(* (hc.rs 1995-2039).                                                      *)
StepsFound ==
  /\ seq.lits >= 0 /\ seq.len >= MINMATCH
  /\ seq.match.at = seq.start /\ seq.len <= seq.match.len
  /\ seq # NoSeq => seq.start <= mflimit /\ seq.start + seq.len <= matchlimit

(* Every entry up to the trailing literals is of this round: a literal, or *)
(* a match found where the entry says the step to it began.  Nothing that  *)
(* a round reads is left over from the one before (hc.rs 1856-1994).       *)
OfThisRound(i) ==
  \/ opt[i].mlen = 1
  \/ /\ opt[i].mlen \in MINMATCH..i /\ opt[i].mlen <= opt[i].match.len
     /\ opt[i].match.at = ip + i - opt[i].mlen
TableFresh ==
  pc = "chain" =>
    /\ last_match_pos + TrailingLiterals \in Positions
    /\ \A i \in 0..(last_match_pos + TrailingLiterals) : OfThisRound(i)

(* Prices are not kept up to date: an entry may say what it cost to come   *)
(* by a position that has become cheaper since, and a run of literals it   *)
(* counted may no longer be one.  Yet the way that is written never takes  *)
(* more bytes than its last entry says (hc.rs 1886-2009).                  *)
EndOfWay ==
  LET end[i \in 0..(OptNum + InputEnd)] == IF i >= selected_end THEN i ELSE end[i + opt[i].mlen]
  IN  end[0]
CostTo(last) ==
  LET cost[i \in Positions, n \in 0..InputEnd] ==
        IF i = last THEN literals_price(n)
        ELSE IF opt[i].mlen = 1 THEN cost[i + 1, n + 1]
        ELSE sequence_price(n, opt[i].mlen) + cost[i + opt[i].mlen, 0]
  IN  cost[0, ip - anchor]
NoDearer ==
  pc = "emit" /\ relative_pos = 0 =>
    LET last == IF EndOfWay = selected_end THEN selected_end ELSE selected_end - 1
    IN  CostTo(last) <= opt[last].price
==============================================================================
