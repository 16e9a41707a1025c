------------------------------ MODULE HCOutput ------------------------------
(***************************************************************************)
(* How the parsers of src/hc.rs write a block: encode_sequence (467-564),  *)
(* last_literals (1264-1322) and dest_overflow (1325-1368), under the      *)
(* three limits.  NotLimited has room for the worst case; LimitedOutput    *)
(* gives up when the block does not fit; FillOutput takes as much of the   *)
(* input as fits and says how much.  The parser is left open: any literals *)
(* and any match that keep its end of the block (HCParser, EndKept).  Only *)
(* the places are kept, not the bytes.                                     *)
(***************************************************************************)
EXTENDS Integers

CONSTANTS
  Calls,        \* what is asked: [limit, cap, iend]
  Tried(_)      \* the sequences tried in an input of a size: <<lits, len>>

(* What the parsers are asked for and what they hand over (HCParser,       *)
(* Follows): no literal run is negative, no match shorter than four bytes. *)
CallsAssumption ==
  \A c \in Calls : c.limit \in {"NotLimited", "LimitedOutput", "FillOutput"}
                  /\ c.cap \in Nat /\ c.iend \in Nat
TriedAssumption ==
  \A c \in Calls : \A s \in Tried(c.iend) : s[1] \in Nat /\ s[2] \in Nat /\ s[2] >= 4

MINMATCH == 4
MFLIMIT == 12
LASTLITERALS == 5
RUN_MASK == 15
ML_MASK == 15

VARIABLES
  call,
  pc,           \* "parse", "done"; "lost" after a sequence that went missing
  op, anchor,
  lastStart,    \* where the last match written begins; -1 before the first
  seq,          \* the last sequence: what was put and what a decoder reads
  result        \* [written, consumed]

vars == <<call, pc, op, anchor, lastStart, seq, result>>

Larger(x, y) == IF x > y THEN x ELSE y
Least(x, y) == IF x < y THEN x ELSE y

compress_bound(n) == n + n \div 255 + 16

Limited == call.limit # "NotLimited"

(* The end the sequences may use: FillOutput keeps five bytes back.        *)
oend == IF call.limit = "FillOutput" THEN Larger(call.cap - LASTLITERALS, 0) ELSE call.cap

(* ------------------------------- a sequence ---------------------------- *)
(* The bytes a length takes beyond its four bits: runs of 255 and a rest.  *)
LitBytes(n) == IF n >= RUN_MASK THEN (n - RUN_MASK) \div 255 + 1 ELSE 0

(* Those of a match are written two at a time, then one, then the rest.    *)
MatchCode(c) ==
  LET more == c - ML_MASK
      one  == IF (more % 510) >= 255 THEN 1 ELSE 0
  IN  IF c < ML_MASK THEN [bytes |-> 0, reads |-> c]
      ELSE LET full == 2 * (more \div 510) + one
           IN  [bytes |-> full + 1,
                reads |-> ML_MASK + 255 * full + (((more % 510) - 255 * one) % 256)]

AfterOffset(o, lits) == o + 1 + LitBytes(lits) + lits + 2
AfterSequence(o, lits, len) == AfterOffset(o, lits) + MatchCode(len - MINMATCH).bytes

(* encode_sequence succeeds: the estimates of a limited call, and the      *)
(* bounds of the buffer for every call.                                    *)
Fits(o, lits, len, limited) ==
  /\ limited => o + 1 + lits \div 255 + lits + 2 + 1 + LASTLITERALS <= oend
  /\ limited => AfterOffset(o, lits) + (len - MINMATCH) \div 255 + 1 + LASTLITERALS <= oend
  /\ AfterSequence(o, lits, len) <= call.cap

Encoded(lits, len) ==
  /\ op' = AfterSequence(op, lits, len)
  /\ anchor' = anchor + lits + len
  /\ lastStart' = anchor + lits
  /\ seq' = [put |-> len, reads |-> MatchCode(len - MINMATCH).reads + MINMATCH]

(* ----------------------------- last literals --------------------------- *)
(* The run that fills what is left of the buffer.                          *)
RunThatFillsAll(avail) == avail - 1           \* Slip: no room for its length
RunThatFills(avail) ==
  LET run == avail - 1 IN Larger(run - (run + 256 - RUN_MASK) \div 256, 0)

Nothing == [written |-> 0, consumed |-> 0]
RunEnd == call.cap

LastLiterals(o, from) ==
  LET whole == call.iend - from
      tight == Limited /\ o + 1 + (whole + 255 - RUN_MASK) \div 255 + whole > RunEnd
      run   == IF tight THEN RunThatFills(RunEnd - o) ELSE whole
  IN  IF tight /\ (call.limit = "LimitedOutput" \/ RunEnd <= o) THEN Nothing
      ELSE [written |-> o + 1 + LitBytes(run) + run, consumed |-> from + run]

(* ------------------------------ no more room --------------------------- *)
LitCost(lits) == 1 + (lits + 240) \div 255 + lits
max_lit_pos == Larger(oend - 3, 0)

(* The match as long as it may be with the bytes that are left.            *)
Cut(o, lits, len) ==
  Least(len, MINMATCH + ML_MASK - 1 + 255 * (max_lit_pos - (o + LitCost(lits))))

(* With the last literals it still ends twelve bytes before the block.     *)
EndsWell(o, lits, len) == oend + LASTLITERALS - (o + LitCost(lits) + 2) - 1 + len >= MFLIMIT

Overflow(lits, len) ==
  LET cut == Cut(op, lits, len)
  IN  IF /\ call.limit = "FillOutput"
         /\ op + LitCost(lits) <= max_lit_pos
         /\ EndsWell(op, lits, cut)
      THEN IF Fits(op, lits, cut, FALSE)
           THEN /\ Encoded(lits, cut)
                /\ result' = LastLiterals(op', anchor') /\ pc' = "done"
           ELSE pc' = "lost" /\ UNCHANGED <<op, anchor, lastStart, seq, result>>
      ELSE /\ result' = IF call.limit = "FillOutput" THEN LastLiterals(op, anchor) ELSE Nothing
           /\ pc' = "done" /\ UNCHANGED <<op, anchor, lastStart, seq>>

(* -------------------------------- actions ------------------------------ *)
Sequence(lits, len) ==
  /\ pc = "parse"
  /\ call.iend > MFLIMIT
  /\ anchor + lits <= call.iend - MFLIMIT
  /\ anchor + lits + len <= call.iend - LASTLITERALS
  /\ IF Fits(op, lits, len, Limited)
     THEN Encoded(lits, len) /\ UNCHANGED <<pc, result>>
     ELSE Overflow(lits, len)
  /\ UNCHANGED call

End ==
  /\ pc = "parse"
  /\ result' = LastLiterals(op, anchor) /\ pc' = "done"
  /\ UNCHANGED <<call, op, anchor, lastStart, seq>>

Finished == pc \in {"done", "lost"} /\ UNCHANGED vars

(* compress_generic_internal refuses an empty buffer and writes the empty  *)
(* block itself; the calls that choose NotLimited have room for the bound. *)
Allowed(c) ==
  /\ c.cap > 0 /\ c.iend > 0
  /\ (c.limit = "NotLimited") = (c.limit # "FillOutput" /\ c.cap >= compress_bound(c.iend))

Init ==
  /\ call \in {c \in Calls : Allowed(c)}
  /\ pc = "parse" /\ op = 0 /\ anchor = 0 /\ lastStart = -1
  /\ seq = [put |-> MINMATCH, reads |-> MINMATCH]
  /\ result = Nothing

Next == (\E s \in Tried(call.iend) : Sequence(s[1], s[2])) \/ End \/ Finished

Spec == Init /\ [][Next]_vars

-----------------------------------------------------------------------------
(* Properties.                                                             *)

(* No block is longer than its buffer, whatever the estimates before the   *)
(* sequences and the run that is made to fit come to (hc.rs 1273-1321).    *)
WithinCapacity == pc = "done" => result.written <= call.cap

(* Only LimitedOutput may fail: the room of compress_bound is enough for   *)
(* every parse, and FillOutput finds something to write in any buffer      *)
(* (hc.rs 1284-1297, 1338).                                                *)
OnlyLimitedFails == pc = "done" /\ call.limit # "LimitedOutput" => result.written > 0

(* The end of a block, also of one cut to fit: its last five bytes are     *)
(* literals and its last match begins twelve bytes before it, or no match  *)
(* has been written (hc.rs 1345-1367).                                     *)
EndOfBlock ==
  pc = "done" /\ result.written > 0 /\ lastStart >= 0 =>
    result.consumed - anchor >= LASTLITERALS /\ result.consumed - lastStart >= MFLIMIT

(* A block cut to fit takes as many literals as the buffer can hold:       *)
(* "Adapt lastRunSize to fill dst" (hc.rs 1288).                           *)
FillsUp ==
  pc = "done" /\ result.written > 0 /\ result.consumed < call.iend =>
    LET run == result.consumed - anchor + 1 IN op + 1 + LitBytes(run) + run > call.cap

(* A decoder reads back the length that was put (hc.rs 528-560).           *)
ReadsBack == seq.reads = seq.put

(* dest_overflow does not look whether its sequence was written: it always *)
(* is (hc.rs 1353-1364).                                                   *)
NothingLost == pc # "lost"

(* All of it: a block fits its buffer, only a limited one may fail, it     *)
(* ends as the format asks even where it was cut to fit, takes what the    *)
(* buffer can hold, and its lengths read as they were meant.               *)
OutputFits ==
  /\ WithinCapacity /\ OnlyLimitedFails /\ EndOfBlock
  /\ FillsUp /\ ReadsBack /\ NothingLost
=============================================================================
