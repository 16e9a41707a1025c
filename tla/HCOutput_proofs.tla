--------------------------- MODULE HCOutput_proofs ---------------------------
(***************************************************************************)
(* Proofs about how a parser of src/hc.rs writes a block: for every size   *)
(* of input and of buffer, whatever literals and matches it is given, the  *)
(* estimates made before a sequence cover what is written, and what is     *)
(* left of the buffer takes the end of the block.                          *)
(***************************************************************************)
EXTENDS HCOutput, TLAPS

USE DEF MINMATCH, MFLIMIT, LASTLITERALS, RUN_MASK, ML_MASK

Limits == {"NotLimited", "LimitedOutput", "FillOutput"}

TypeOK ==
  /\ call.limit \in Limits /\ call.cap \in Nat /\ call.iend \in Nat /\ Allowed(call)
  /\ \A s \in Tried(call.iend) : s[1] \in Nat /\ s[2] \in Nat /\ s[2] >= MINMATCH
  /\ pc \in {"parse", "done"}
  /\ op \in Nat /\ anchor \in Nat /\ lastStart \in Int

(* While sequences are written: a limited block keeps room for the end, an *)
(* unlimited one is hardly longer than its input; and what comes last has  *)
(* its distance from the end of the block.                                 *)
RoomLeft ==
  /\ Limited => (op = 0 /\ lastStart < 0) \/ op + LASTLITERALS <= oend
  /\ ~Limited => 255 * op <= 256 * anchor
FarFromEnd ==
  /\ anchor <= call.iend
  /\ lastStart >= 0 => /\ anchor <= call.iend - LASTLITERALS
                       /\ lastStart <= call.iend - MFLIMIT
                       /\ lastStart + MINMATCH <= anchor

OutputInv ==
  /\ TypeOK /\ OutputFits
  /\ pc = "parse" => RoomLeft /\ FarFromEnd

-----------------------------------------------------------------------------
(* The bytes of a length.                                                  *)

LEMMA LitBytesValue ==
  ASSUME NEW n \in Nat
  PROVE  /\ LitBytes(n) \in Nat /\ LitBytes(n) = (n + 240) \div 255
         /\ 255 * LitBytes(n) <= n + 240
         /\ n < 255 * LitBytes(n) + 15
BY DEF LitBytes

(* They take no more than the estimates say, and read as they were put.    *)
LEMMA MatchCodeValue ==
  ASSUME NEW c \in Nat
  PROVE  /\ MatchCode(c).bytes \in Nat
         /\ c < 15 => MatchCode(c).bytes = 0
         /\ c >= 15 => MatchCode(c).bytes = (c - 15) \div 255 + 1
         /\ MatchCode(c).bytes <= c \div 255 + 1 /\ MatchCode(c).bytes <= c
         /\ MatchCode(c).reads = c
<1>1. CASE c < 15
  BY <1>1 DEF MatchCode
<1>2. CASE c >= 15
  <2> DEFINE more == c - 15
             one == IF (more % 510) >= 255 THEN 1 ELSE 0
             full == 2 * (more \div 510) + one
  <2>1. MatchCode(c) = [bytes |-> full + 1, reads |-> 15 + 255 * full + (((more % 510) - 255 * one) % 256)]
    BY <1>2 DEF MatchCode
  <2>2. more \in Nat /\ one \in {0, 1} /\ full \in Nat
    BY <1>2
  <2>3. more = 510 * (more \div 510) + (more % 510) /\ more % 510 \in 0..509 /\ more \div 510 \in Nat
    BY <2>2
  <2>4. (more % 510) - 255 * one \in 0..254
    BY <2>3
  <2>5. ((more % 510) - 255 * one) % 256 = (more % 510) - 255 * one
    BY <2>4
  <2>6. 15 + 255 * full + (((more % 510) - 255 * one) % 256) = c
    BY <2>2, <2>3, <2>5
  <2>7. full = more \div 255
    BY <2>2, <2>3, <2>4
  <2>8. full + 1 <= c \div 255 + 1 /\ full + 1 <= c
    BY <1>2, <2>2, <2>7
  <2>9. QED  BY <1>2, <2>1, <2>2, <2>6, <2>7, <2>8
<1>3. QED  BY <1>1, <1>2

(* The run that fills the buffer: it fits, and one byte more would not.    *)
LEMMA RunThatFillsValue ==
  ASSUME NEW avail \in Nat, avail > 0
  PROVE  LET run == RunThatFills(avail) IN
         /\ run \in Nat
         /\ 1 + LitBytes(run) + run <= avail
         /\ 1 + LitBytes(run + 1) + (run + 1) > avail
         /\ avail >= 6 => run >= 5
         /\ avail - 1 < 15 => run = avail - 1
         /\ avail - 1 >= 15 => run >= 14
<1> DEFINE last == avail - 1
           q == (last + 241) \div 256
           run == last - q
<1>1. last \in Nat /\ q \in Nat /\ 256 * q <= last + 241 /\ last + 241 < 256 * q + 256
  OBVIOUS
<1>2. q <= last
  BY <1>1
<1>3. RunThatFills(avail) = run /\ run \in Nat
  BY <1>1, <1>2 DEF RunThatFills, Larger
<1>4. LitBytes(run) <= q
  BY <1>1, <1>3, LitBytesValue
<1>5. LitBytes(run + 1) >= q
  BY <1>1, <1>3, LitBytesValue
<1>6. LitBytes(run) \in Nat /\ LitBytes(run + 1) \in Nat
  <2>1. run + 1 \in Nat
    BY <1>3
  <2> HIDE DEF run
  <2>2. QED  BY <1>3, <2>1, LitBytesValue, ZenonT(60)
<1>7. /\ avail >= 6 => run >= 5
      /\ last < 15 => run = last
      /\ last >= 15 => run >= 14
  BY <1>1
<1>8. QED  BY <1>1, <1>3, <1>4, <1>5, <1>6, <1>7

-----------------------------------------------------------------------------
(* The end the sequences may use.                                          *)
LEMMA EndType ==
  ASSUME TypeOK
  PROVE  /\ oend \in Nat /\ oend <= call.cap /\ call.cap > 0 /\ call.iend > 0
         /\ call.limit = "FillOutput" /\ oend > 0 => call.cap = oend + LASTLITERALS
         /\ call.limit # "FillOutput" => oend = call.cap
         /\ ~Limited => call.cap >= compress_bound(call.iend) /\ call.limit = "NotLimited"
BY DEF TypeOK, Allowed, oend, Larger, Limited, Limits

(* What a sequence takes.                                                  *)
LEMMA AfterSequenceType ==
  ASSUME NEW o \in Nat, NEW lits \in Nat, NEW len \in Nat, len >= MINMATCH
  PROVE  /\ AfterSequence(o, lits, len) \in Nat
         /\ AfterSequence(o, lits, len)
              = o + 3 + LitBytes(lits) + lits + MatchCode(len - MINMATCH).bytes
<1>1. len - MINMATCH \in Nat
  OBVIOUS
<1>2. LitBytes(lits) \in Nat /\ MatchCode(len - MINMATCH).bytes \in Nat
  BY <1>1, LitBytesValue, MatchCodeValue
<1>3. QED  BY <1>2 DEF AfterSequence, AfterOffset

(* It is less than 256 bytes for 255 of input.                             *)
LEMMA SequenceGrows ==
  ASSUME NEW o \in Nat, NEW lits \in Nat, NEW len \in Nat, len >= MINMATCH
  PROVE  255 * AfterSequence(o, lits, len) <= 255 * o + 256 * (lits + len)
<1> DEFINE lb == LitBytes(lits)
           mb == MatchCode(len - MINMATCH).bytes
<1>1. len - MINMATCH \in Nat
  OBVIOUS
<1>2. lb \in Nat /\ 255 * lb <= lits + 240
  BY LitBytesValue
<1>3. mb \in Nat /\ mb <= len - MINMATCH
  BY <1>1, MatchCodeValue
<1>4. AfterSequence(o, lits, len) = o + 3 + lb + lits + mb
  BY AfterSequenceType
<1> HIDE DEF lb, mb
<1>5. QED  BY <1>2, <1>3, <1>4

(* A limited sequence that passes the estimates leaves room for the end.   *)
LEMMA FitsLeavesRoom ==
  ASSUME TypeOK, NEW lits \in Nat, NEW len \in Nat, len >= MINMATCH,
         Fits(op, lits, len, TRUE)
  PROVE  AfterSequence(op, lits, len) + LASTLITERALS <= oend
<1> DEFINE mb == MatchCode(len - MINMATCH).bytes
           ao == AfterOffset(op, lits)
           est == (len - MINMATCH) \div 255
<1>1. len - MINMATCH \in Nat
  OBVIOUS
<1>2. mb \in Nat /\ mb <= est + 1
  BY <1>1, MatchCodeValue, ZenonT(60)
<1>3. ao + est + 1 + LASTLITERALS <= oend
  BY DEF Fits
<1>4. AfterSequence(op, lits, len) = ao + mb
  BY DEF AfterSequence
<1>5. op \in Nat /\ LitBytes(lits) \in Nat
  BY LitBytesValue DEF TypeOK
<1>6. ao \in Nat /\ est \in Nat /\ oend \in Nat
  BY <1>1, <1>5, EndType DEF AfterOffset
<1> HIDE DEF ao, mb, est
<1>7. QED  BY <1>2, <1>3, <1>4, <1>6

(* A sequence within an input always fits when the bound is there.         *)
LEMMA BoundFits ==
  ASSUME TypeOK, RoomLeft, ~Limited, NEW lits \in Nat, NEW len \in Nat, len >= MINMATCH,
         anchor + lits + len <= call.iend
  PROVE  Fits(op, lits, len, Limited)
<1> DEFINE after == AfterSequence(op, lits, len)
<1>1. /\ op \in Nat /\ anchor \in Nat /\ call.iend \in Nat /\ call.cap \in Nat
      /\ call.cap >= compress_bound(call.iend)
  BY EndType DEF TypeOK
<1>2. after \in Nat /\ 255 * after <= 255 * op + 256 * (lits + len)
  <2>1. after \in Nat
    BY <1>1, AfterSequenceType
  <2>2. 255 * after <= 255 * op + 256 * (lits + len)
    BY <1>1, SequenceGrows
  <2>3. QED  BY <2>1, <2>2
<1>3. 255 * op <= 256 * anchor
  BY DEF RoomLeft
<1> HIDE DEF after
<1>4. 255 * after <= 256 * call.iend
  BY <1>1, <1>2, <1>3
<1>5. after <= call.cap
  BY <1>1, <1>2, <1>4 DEF compress_bound
<1>6. QED  BY <1>5 DEF Fits, after

-----------------------------------------------------------------------------
(* The last literals after what was written up to o, which stands for the  *)
(* input up to from.  How much of the buffer is left, and how far the last *)
(* match lies back, is what has to be known.                               *)
LEMMA LastLiteralsRight ==
  ASSUME TypeOK, NEW o \in Nat, NEW from \in Nat, from <= call.iend,
         ~Limited => 255 * o <= 256 * from,
         call.limit = "FillOutput" => o < call.cap
  PROVE  LET res == LastLiterals(o, from) IN
         /\ res.written <= call.cap
         /\ call.limit # "LimitedOutput" => res.written > 0
         /\ \/ res.consumed = call.iend
            \/ /\ call.limit = "FillOutput"
               /\ res.consumed = from + RunThatFills(call.cap - o)
               /\ LET run == res.consumed - from + 1 IN o + 1 + LitBytes(run) + run > call.cap
            \/ res.written = 0
<1> DEFINE whole == call.iend - from
           cost == (whole + 255 - RUN_MASK) \div 255
           tight == Limited /\ o + 1 + cost + whole > RunEnd
           avail == RunEnd - o
           run == IF tight THEN RunThatFills(avail) ELSE whole
           res == LastLiterals(o, from)
<1>1. call.cap \in Nat /\ call.cap > 0 /\ call.iend \in Nat /\ call.limit \in Limits /\ RunEnd = call.cap
  BY EndType DEF TypeOK, RunEnd
<1>2. whole \in Nat
  BY <1>1
<1>3. cost = LitBytes(whole) /\ cost \in Nat /\ 255 * cost <= whole + 240
  <2> HIDE DEF whole
  <2>1. /\ LitBytes(whole) \in Nat /\ LitBytes(whole) = (whole + 240) \div 255
        /\ 255 * LitBytes(whole) <= whole + 240
    BY <1>2, LitBytesValue, ZenonT(60)
  <2>2. whole + 255 - RUN_MASK = whole + 240
    BY <1>2
  <2>3. QED  BY <2>1, <2>2
<1>4. CASE ~tight
  <2>1. res = [written |-> o + 1 + LitBytes(whole) + whole, consumed |-> from + whole]
    BY <1>4 DEF LastLiterals
  <2>2. res.written = o + 1 + cost + whole /\ res.consumed = call.iend
    BY <1>1, <1>3, <2>1
  <2> HIDE DEF cost, whole
  <2>3. res.written > 0
    BY <1>2, <1>3, <2>2
  <2>4. res.written <= call.cap
    <3>1. CASE Limited
      BY <1>1, <1>2, <1>3, <1>4, <2>2, <3>1
    <3>2. CASE ~Limited
      <4>1. /\ 255 * o <= 256 * from /\ whole = call.iend - from
            /\ call.cap >= call.iend + call.iend \div 255 + 16
        BY <3>2, EndType DEF whole, compress_bound
      <4>2. 255 * (o + 1 + cost + whole) <= 256 * call.iend + 510
        BY <1>1, <1>2, <1>3, <4>1
      <4>3. QED  BY <1>1, <1>2, <1>3, <2>2, <4>1, <4>2
    <3>3. QED  BY <3>1, <3>2
  <2>5. QED  BY <2>2, <2>3, <2>4
<1>5. CASE tight /\ (call.limit = "LimitedOutput" \/ RunEnd <= o)
  <2>1. res = Nothing
    BY <1>5 DEF LastLiterals
  <2>2. call.limit = "LimitedOutput"
    BY <1>1, <1>5 DEF Limited, Limits
  <2>3. QED  BY <1>1, <2>1, <2>2 DEF Nothing
<1>6. CASE tight /\ call.limit # "LimitedOutput" /\ ~(RunEnd <= o)
  <2>1. call.limit = "FillOutput"
    BY <1>1, <1>6 DEF Limited, Limits
  <2>2. avail \in Nat /\ avail > 0
    BY <1>1, <1>6
  <2>3. res = [written |-> o + 1 + LitBytes(run) + run, consumed |-> from + run]
    BY <1>6 DEF LastLiterals
  <2>4. run = RunThatFills(avail)
    BY <1>6
  <2> HIDE DEF run, tight, res
  <2>5. /\ run \in Nat
        /\ 1 + LitBytes(run) + run <= avail
        /\ 1 + LitBytes(run + 1) + (run + 1) > avail
    BY <2>2, <2>4, RunThatFillsValue
  <2>6. LitBytes(run) \in Nat
    BY <2>5, LitBytesValue
  <2>7. res.written = o + 1 + LitBytes(run) + run /\ res.consumed = from + run
    BY <2>3
  <2>8. res.written <= call.cap /\ res.written > 0
    BY <1>1, <2>5, <2>6, <2>7
  <2>9. res.consumed - from + 1 = run + 1
    BY <2>5, <2>7
  <2>10. run + 1 \in Nat
    BY <2>5
  <2>11. LitBytes(run + 1) \in Nat
    BY <2>10, LitBytesValue
  <2>12. o + 1 + LitBytes(run + 1) + (run + 1) > call.cap
    BY <1>1, <2>5, <2>10, <2>11
  <2>13. res.consumed = from + RunThatFills(call.cap - o)
    BY <1>1, <2>4, <2>7
  <2>14. QED  BY <2>1, <2>8, <2>9, <2>12, <2>13 DEF res
<1>7. QED  BY <1>1, <1>4, <1>5, <1>6

(* A block ends well when the last match lies far enough from the end of   *)
(* the input and, where that is cut to fit, from the end of the run.       *)
LEMMA EndsRight ==
  ASSUME TypeOK, NEW o \in Nat, NEW from \in Nat, NEW last \in Int,
         from <= call.iend,
         last >= 0 => from <= call.iend - LASTLITERALS /\ last <= call.iend - MFLIMIT,
         ~Limited => 255 * o <= 256 * from,
         call.limit = "FillOutput" => o < call.cap,
         call.limit = "FillOutput" /\ last >= 0 =>
           /\ RunThatFills(call.cap - o) >= LASTLITERALS
           /\ RunThatFills(call.cap - o) + from - last >= MFLIMIT,
         op' = o, anchor' = from, lastStart' = last, call' = call,
         result' = LastLiterals(o, from)
  PROVE  (WithinCapacity /\ OnlyLimitedFails /\ EndOfBlock /\ FillsUp)'
<1> DEFINE res == LastLiterals(o, from)
           fill == RunThatFills(call.cap - o)
<1>1. /\ res.written <= call.cap
      /\ call.limit # "LimitedOutput" => res.written > 0
      /\ \/ res.consumed = call.iend
         \/ /\ call.limit = "FillOutput"
            /\ res.consumed = from + fill
            /\ LET run == res.consumed - from + 1 IN o + 1 + LitBytes(run) + run > call.cap
         \/ res.written = 0
  BY LastLiteralsRight
<1>2. result' = res
  OBVIOUS
<1>3. call.iend \in Nat /\ call.cap \in Nat
  BY DEF TypeOK
<1>4. call.limit = "FillOutput" => fill \in Nat
  <2>1. call.limit = "FillOutput" => call.cap - o \in Nat /\ call.cap - o > 0
    BY <1>3
  <2>2. QED  BY <2>1, RunThatFillsValue
<1> HIDE DEF res, fill
<1>5. (WithinCapacity /\ OnlyLimitedFails)'
  BY <1>1, <1>2 DEF WithinCapacity, OnlyLimitedFails
<1>6. EndOfBlock'
  <2> SUFFICES ASSUME res.written > 0, last >= 0
               PROVE  res.consumed - from >= LASTLITERALS /\ res.consumed - last >= MFLIMIT
    BY <1>2 DEF EndOfBlock
  <2>1. CASE res.consumed = call.iend
    BY <1>3, <2>1
  <2>2. CASE call.limit = "FillOutput" /\ res.consumed = from + fill
    <3>1. fill >= LASTLITERALS /\ fill + from - last >= MFLIMIT /\ fill \in Nat
      BY <1>4, <2>2 DEF fill
    <3>2. QED  BY <2>2, <3>1
  <2>3. QED  BY <1>1, <2>1, <2>2
<1>7. FillsUp'
  <2> SUFFICES ASSUME res.written > 0, res.consumed < call.iend
               PROVE  LET run == res.consumed - from + 1 IN o + 1 + LitBytes(run) + run > call.cap
    BY <1>2 DEF FillsUp, LitBytes
  <2>1. QED  BY <1>1, <1>3
<1>8. QED  BY <1>5, <1>6, <1>7

(* What a sequence that fits leaves behind.                                *)
LEMMA EncodedRight ==
  ASSUME TypeOK, NEW lits \in Nat, NEW len \in Nat, len >= MINMATCH, Encoded(lits, len)
  PROVE  /\ op' = AfterSequence(op, lits, len) /\ op' \in Nat
         /\ anchor' = anchor + lits + len /\ anchor' \in Nat
         /\ lastStart' = anchor + lits /\ lastStart' \in Nat
         /\ ReadsBack'
<1>1. len - MINMATCH \in Nat /\ op \in Nat /\ anchor \in Nat
  BY DEF TypeOK
<1>2. MatchCode(len - MINMATCH).reads = len - MINMATCH
  BY <1>1, MatchCodeValue
<1>3. AfterSequence(op, lits, len) \in Nat
  BY <1>1, AfterSequenceType
<1>4. seq' = [put |-> len, reads |-> MatchCode(len - MINMATCH).reads + MINMATCH]
  BY DEF Encoded
<1>5. ReadsBack'
  BY <1>1, <1>2, <1>4 DEF ReadsBack
<1>6. QED  BY <1>1, <1>3, <1>5 DEF Encoded

(* A sequence that fits leaves its room.                                   *)
LEMMA SequenceRight ==
  ASSUME TypeOK, RoomLeft, FarFromEnd, NEW lits \in Nat, NEW len \in Nat, len >= MINMATCH,
         call.iend > MFLIMIT, anchor + lits <= call.iend - MFLIMIT,
         anchor + lits + len <= call.iend - LASTLITERALS,
         Fits(op, lits, len, Limited), Encoded(lits, len), UNCHANGED call
  PROVE  (RoomLeft /\ FarFromEnd)'
<1>1. op \in Nat /\ anchor \in Nat /\ call.iend \in Nat
  BY DEF TypeOK
<1>2. /\ op' = AfterSequence(op, lits, len) /\ op' \in Nat
      /\ anchor' = anchor + lits + len
      /\ lastStart' = anchor + lits
  BY EncodedRight
<1>3. FarFromEnd'
  BY <1>1, <1>2 DEF FarFromEnd
<1>4. CASE Limited
  <2>1. op' + LASTLITERALS <= oend
    BY <1>2, <1>4, FitsLeavesRoom
  <2>2. oend' = oend
    BY DEF oend
  <2>3. QED  BY <1>3, <1>4, <2>1, <2>2 DEF RoomLeft, Limited
<1>5. CASE ~Limited
  <2>1. 255 * op' <= 255 * op + 256 * (lits + len)
    BY <1>1, <1>2, SequenceGrows
  <2>2. 255 * op' <= 256 * anchor'
    BY <1>1, <1>2, <1>5, <2>1 DEF RoomLeft
  <2>3. QED  BY <1>3, <1>5, <2>2 DEF RoomLeft, Limited
<1>6. QED  BY <1>4, <1>5

(* A sequence cut to the bytes that are left fits, and leaves a run of     *)
(* last literals that is long enough.                                      *)
LEMMA CutRight ==
  ASSUME TypeOK, NEW lits \in Nat, NEW len \in Nat, len >= MINMATCH,
         call.limit = "FillOutput", op + LitCost(lits) <= max_lit_pos,
         EndsWell(op, lits, Cut(op, lits, len))
  PROVE  LET cut == Cut(op, lits, len)
             after == AfterSequence(op, lits, cut)
         IN  /\ cut \in Nat /\ MINMATCH <= cut /\ cut <= len
             /\ after \in Nat /\ after < call.cap
             /\ RunThatFills(call.cap - after) >= LASTLITERALS
             /\ RunThatFills(call.cap - after) + cut >= MFLIMIT
<1> DEFINE cut == Cut(op, lits, len)
           after == AfterSequence(op, lits, cut)
           cost == LitCost(lits)
           k == max_lit_pos - (op + cost)
           mb == MatchCode(cut - MINMATCH).bytes
<1>1. /\ op \in Nat /\ call.cap \in Nat /\ oend \in Nat
      /\ oend > 0 => call.cap = oend + LASTLITERALS
  BY EndType DEF TypeOK
<1>2. LitBytes(lits) \in Nat /\ cost = 1 + LitBytes(lits) + lits /\ cost \in Nat /\ cost >= 1
  BY LitBytesValue DEF LitCost
<1>3. max_lit_pos = oend - 3 /\ oend > 3 /\ call.cap = oend + LASTLITERALS
  BY <1>1, <1>2 DEF max_lit_pos, Larger
<1>4. k \in Nat
  BY <1>1, <1>2, <1>3
<1>5. cut = Least(len, 18 + 255 * k)
  BY DEF Cut
<1> HIDE DEF k, cost
<1>6. cut \in Nat /\ MINMATCH <= cut /\ cut <= len /\ cut <= 18 + 255 * k
  BY <1>4, <1>5 DEF Least
<1> HIDE DEF cut
<1>7. /\ mb \in Nat /\ mb <= k
      /\ mb > 0 => cut >= 19
  <2>1. cut - MINMATCH \in Nat
    BY <1>6
  <2>2. /\ cut - MINMATCH < 15 => mb = 0
        /\ cut - MINMATCH >= 15 => mb = (cut - MINMATCH - 15) \div 255 + 1
    BY <2>1, MatchCodeValue
  <2> HIDE DEF mb
  <2>3. QED  BY <1>4, <1>6, <2>2
<1>8. after = op + 2 + cost + mb /\ after \in Nat
  <2>1. after = op + 3 + LitBytes(lits) + lits + mb /\ after \in Nat
    BY <1>1, <1>6, AfterSequenceType
  <2> HIDE DEF mb, after
  <2>2. QED  BY <1>1, <1>2, <1>7, <2>1
<1> HIDE DEF mb, after
<1>9. after + 6 <= call.cap
  BY <1>1, <1>2, <1>3, <1>4, <1>7, <1>8 DEF k
<1> DEFINE avail == call.cap - after
           run == RunThatFills(avail)
<1>10. avail \in Nat /\ avail >= 6
  BY <1>1, <1>8, <1>9
<1>11. avail - 1 + mb + cut >= MFLIMIT
  <2>1. oend + LASTLITERALS - (op + cost + 2) - 1 + cut >= MFLIMIT
    BY DEF EndsWell, cut, cost
  <2>2. QED  BY <1>1, <1>2, <1>3, <1>6, <1>7, <1>8, <2>1
<1> HIDE DEF avail
<1>12. /\ run \in Nat /\ run >= 5
       /\ avail - 1 < 15 => run = avail - 1
       /\ avail - 1 >= 15 => run >= 14
  BY <1>10, RunThatFillsValue
<1> HIDE DEF run
<1>13. run + cut >= MFLIMIT
  BY <1>6, <1>7, <1>10, <1>11, <1>12
<1>14. QED  BY <1>6, <1>8, <1>9, <1>12, <1>13, <1>1 DEF run, avail, after, cut

-----------------------------------------------------------------------------
(* A block that ends between two sequences.                                *)
LEMMA EndBetween ==
  ASSUME TypeOK, RoomLeft, FarFromEnd, UNCHANGED <<call, op, anchor, lastStart>>,
         result' = LastLiterals(op, anchor)
  PROVE  (WithinCapacity /\ OnlyLimitedFails /\ EndOfBlock /\ FillsUp)'
<1>1. /\ op \in Nat /\ anchor \in Nat /\ lastStart \in Int
      /\ call.cap \in Nat /\ call.cap > 0 /\ oend \in Nat
      /\ call.limit = "FillOutput" /\ oend > 0 => call.cap = oend + LASTLITERALS
  BY EndType DEF TypeOK
<1>2. ~Limited => 255 * op <= 256 * anchor
  BY DEF RoomLeft
<1>3. /\ anchor <= call.iend
      /\ lastStart >= 0 => anchor <= call.iend - LASTLITERALS /\ lastStart <= call.iend - MFLIMIT
  BY DEF FarFromEnd
<1>4. ASSUME call.limit = "FillOutput"
      PROVE  (op = 0 /\ lastStart < 0) \/ op + 2 * LASTLITERALS <= call.cap
  <2>1. (op = 0 /\ lastStart < 0) \/ op + LASTLITERALS <= oend
    BY <1>4 DEF RoomLeft, Limited
  <2>2. QED  BY <1>1, <1>4, <2>1
<1>5. call.limit = "FillOutput" => op < call.cap
  BY <1>1, <1>4
<1>6. ASSUME call.limit = "FillOutput", lastStart >= 0
      PROVE  /\ RunThatFills(call.cap - op) >= LASTLITERALS
             /\ RunThatFills(call.cap - op) + anchor - lastStart >= MFLIMIT
  <2> DEFINE avail == call.cap - op
             run == RunThatFills(avail)
  <2>1. avail \in Nat /\ avail >= 10
    BY <1>1, <1>4, <1>6
  <2> HIDE DEF avail
  <2>2. /\ run \in Nat
        /\ avail - 1 < 15 => run = avail - 1
        /\ avail - 1 >= 15 => run >= 14
    BY <2>1, RunThatFillsValue
  <2> HIDE DEF run
  <2>3. lastStart + MINMATCH <= anchor
    BY <1>6 DEF FarFromEnd
  <2>4. run >= LASTLITERALS /\ run + anchor - lastStart >= MFLIMIT
    BY <1>1, <2>1, <2>2, <2>3
  <2>5. QED  BY <2>4 DEF run, avail
<1>7. op' = op /\ anchor' = anchor /\ lastStart' = lastStart /\ call' = call
  OBVIOUS
<1>8. QED  BY <1>1, <1>2, <1>3, <1>5, <1>6, <1>7, EndsRight

(* The type of a state, and what holds before the end.                     *)
LEMMA StillRunning ==
  ASSUME pc' = "parse", ReadsBack' PROVE OutputFits'
BY DEF OutputFits, WithinCapacity, OnlyLimitedFails, EndOfBlock, FillsUp, NothingLost

LEMMA SequenceKeeps ==
  ASSUME OutputInv, NEW lits \in Nat, NEW len \in Nat, len >= MINMATCH, Sequence(lits, len)
  PROVE  OutputInv'
<1>1. /\ TypeOK /\ ReadsBack /\ RoomLeft /\ FarFromEnd
      /\ pc = "parse" /\ call' = call
      /\ call.iend > MFLIMIT /\ anchor + lits <= call.iend - MFLIMIT
      /\ anchor + lits + len <= call.iend - LASTLITERALS
  BY DEF OutputInv, OutputFits, Sequence
<1>2. op \in Nat /\ anchor \in Nat /\ call.iend \in Nat /\ call.cap \in Nat
  BY <1>1 DEF TypeOK
<1>3. oend' = oend /\ Allowed(call)' = Allowed(call)
  BY <1>1 DEF oend, Allowed, compress_bound
<1>4. CASE Fits(op, lits, len, Limited)
  <2>1. Encoded(lits, len) /\ UNCHANGED <<pc, result>>
    BY <1>4 DEF Sequence
  <2>2. /\ op' \in Nat /\ anchor' \in Nat /\ lastStart' \in Nat /\ ReadsBack'
    BY <1>1, <2>1, EncodedRight
  <2>3. (RoomLeft /\ FarFromEnd)'
    BY <1>1, <1>4, <2>1, SequenceRight
  <2>4. TypeOK'
    BY <1>1, <1>3, <2>1, <2>2 DEF TypeOK
  <2>5. OutputFits'
    BY <1>1, <2>1, <2>2, StillRunning
  <2>6. QED  BY <2>3, <2>4, <2>5 DEF OutputInv
<1>5. CASE ~Fits(op, lits, len, Limited)
  <2> DEFINE cut == Cut(op, lits, len)
  <2>1. Limited
    BY <1>1, <1>2, <1>5, BoundFits
  <2>2. Overflow(lits, len)
    BY <1>5 DEF Sequence
  <2>3. CASE call.limit = "FillOutput" /\ op + LitCost(lits) <= max_lit_pos /\ EndsWell(op, lits, cut)
    <3> DEFINE after == AfterSequence(op, lits, cut)
    <3>1. /\ cut \in Nat /\ MINMATCH <= cut /\ cut <= len
          /\ after \in Nat /\ after < call.cap
          /\ RunThatFills(call.cap - after) >= LASTLITERALS
          /\ RunThatFills(call.cap - after) + cut >= MFLIMIT
      BY <1>1, <2>3, CutRight
    <3>2. Fits(op, lits, cut, FALSE)
      BY <1>2, <3>1 DEF Fits
    <3>3. /\ Encoded(lits, cut) /\ result' = LastLiterals(op', anchor') /\ pc' = "done"
      BY <2>2, <2>3, <3>2 DEF Overflow
    <3> HIDE DEF cut
    <3>4. /\ op' = after /\ op' \in Nat /\ anchor' = anchor + lits + cut /\ anchor' \in Nat
          /\ lastStart' = anchor + lits /\ lastStart' \in Nat /\ ReadsBack'
      BY <1>1, <3>1, <3>3, EncodedRight
    <3> HIDE DEF after
    <3>5. /\ anchor' <= call.iend
          /\ anchor' <= call.iend - LASTLITERALS /\ lastStart' <= call.iend - MFLIMIT
      BY <1>1, <1>2, <3>1, <3>4
    <3> DEFINE run == RunThatFills(call.cap - after)
    <3>6. run \in Nat
      <4>1. call.cap - after \in Nat /\ call.cap - after > 0
        BY <1>2, <3>1
      <4>2. QED  BY <4>1, RunThatFillsValue
    <3>7. run + anchor' - lastStart' >= MFLIMIT /\ run >= LASTLITERALS
      <4>1. run + cut >= MFLIMIT /\ run >= LASTLITERALS
        BY <3>1
      <4> HIDE DEF run
      <4>2. QED  BY <1>2, <3>1, <3>4, <3>6, <4>1
    <3>8. (WithinCapacity /\ OnlyLimitedFails /\ EndOfBlock /\ FillsUp)'
      <4> DEFINE o == op'
                 from == anchor'
                 last == lastStart'
      <4>1. /\ o \in Nat /\ from \in Nat /\ last \in Int /\ from <= call.iend
            /\ from <= call.iend - LASTLITERALS /\ last <= call.iend - MFLIMIT
            /\ o < call.cap
            /\ RunThatFills(call.cap - o) >= LASTLITERALS
            /\ RunThatFills(call.cap - o) + from - last >= MFLIMIT
        BY <3>1, <3>4, <3>5, <3>7
      <4>2. op' = o /\ anchor' = from /\ lastStart' = last /\ result' = LastLiterals(o, from)
        BY <3>3
      <4> HIDE DEF o, from, last
      <4>3. QED  BY <1>1, <2>1, <4>1, <4>2, EndsRight
    <3>9. TypeOK'
      BY <1>1, <1>3, <3>3, <3>4 DEF TypeOK
    <3>10. OutputFits'
      BY <3>3, <3>4, <3>8 DEF OutputFits, NothingLost
    <3>11. QED  BY <3>3, <3>9, <3>10 DEF OutputInv
  <2>4. CASE ~(call.limit = "FillOutput" /\ op + LitCost(lits) <= max_lit_pos /\ EndsWell(op, lits, cut))
    <3>1. /\ result' = IF call.limit = "FillOutput" THEN LastLiterals(op, anchor) ELSE Nothing
          /\ pc' = "done" /\ UNCHANGED <<op, anchor, lastStart, seq>>
      BY <2>2, <2>4 DEF Overflow
    <3>2. TypeOK' /\ ReadsBack'
      BY <1>1, <1>3, <3>1 DEF TypeOK, ReadsBack
    <3>3. CASE call.limit = "FillOutput"
      <4>1. (WithinCapacity /\ OnlyLimitedFails /\ EndOfBlock /\ FillsUp)'
        BY <1>1, <3>1, <3>3, EndBetween
      <4>2. QED  BY <3>1, <3>2, <4>1 DEF OutputInv, OutputFits, NothingLost
    <3>4. CASE call.limit # "FillOutput"
      <4>1. call.limit = "LimitedOutput"
        BY <1>1, <2>1, <3>4 DEF Limited, TypeOK, Limits
      <4>2. result' = Nothing
        BY <3>1, <3>4
      <4>3. (WithinCapacity /\ OnlyLimitedFails /\ EndOfBlock /\ FillsUp)'
        BY <1>1, <1>2, <4>1, <4>2
           DEF Nothing, WithinCapacity, OnlyLimitedFails, EndOfBlock, FillsUp
      <4>4. QED  BY <3>1, <3>2, <4>3 DEF OutputInv, OutputFits, NothingLost
    <3>5. QED  BY <3>3, <3>4
  <2>5. QED  BY <2>3, <2>4
<1>6. QED  BY <1>4, <1>5

LEMMA EndKeeps ==
  ASSUME OutputInv, End PROVE OutputInv'
<1>1. /\ TypeOK /\ ReadsBack /\ RoomLeft /\ FarFromEnd
      /\ result' = LastLiterals(op, anchor) /\ pc' = "done"
      /\ UNCHANGED <<call, op, anchor, lastStart, seq>>
  BY DEF OutputInv, OutputFits, End
<1>2. (WithinCapacity /\ OnlyLimitedFails /\ EndOfBlock /\ FillsUp)'
  BY <1>1, EndBetween
<1>3. TypeOK' /\ ReadsBack'
  BY <1>1 DEF TypeOK, ReadsBack, Allowed, compress_bound
<1>4. QED  BY <1>1, <1>2, <1>3 DEF OutputInv, OutputFits, NothingLost

(* A block fits its buffer, and only a limited one may fail; it ends as    *)
(* the format asks even where it was cut to fit, takes what the buffer can *)
(* hold, and its lengths read as they were meant (hc.rs 467-564,           *)
(* 1264-1368).                                                             *)
THEOREM BlockWritten ==
  ASSUME CallsAssumption, TriedAssumption PROVE Spec => []OutputFits
<1>1. Init => OutputInv
  <2> SUFFICES ASSUME Init PROVE OutputInv
    OBVIOUS
  <2>1. TypeOK
    BY DEF Init, TypeOK, CallsAssumption, TriedAssumption, Limits
  <2>2. OutputFits
    BY DEF Init, OutputFits, WithinCapacity, OnlyLimitedFails, EndOfBlock, FillsUp,
           ReadsBack, NothingLost
  <2>3. RoomLeft /\ FarFromEnd
    BY <2>1 DEF Init, RoomLeft, FarFromEnd, TypeOK
  <2>4. QED  BY <2>1, <2>2, <2>3 DEF OutputInv
<1>2. OutputInv /\ [Next]_vars => OutputInv'
  <2> SUFFICES ASSUME OutputInv, [Next]_vars PROVE OutputInv'
    OBVIOUS
  <2>1. CASE UNCHANGED vars
    <3>1. UNCHANGED <<call, pc, op, anchor, lastStart, seq, result>>
      BY <2>1 DEF vars
    <3>2. TypeOK'
      BY <3>1 DEF OutputInv, TypeOK, Allowed, compress_bound
    <3>3. OutputFits'
      BY <3>1 DEF OutputInv, OutputFits, WithinCapacity, OnlyLimitedFails, EndOfBlock,
                  FillsUp, LitBytes, ReadsBack, NothingLost
    <3>4. (pc = "parse" => RoomLeft /\ FarFromEnd)'
      BY <3>1 DEF OutputInv, RoomLeft, FarFromEnd, Limited, oend, Larger
    <3>5. QED  BY <3>2, <3>3, <3>4 DEF OutputInv
  <2>2. ASSUME NEW s \in Tried(call.iend), Sequence(s[1], s[2]) PROVE OutputInv'
    <3>1. s[1] \in Nat /\ s[2] \in Nat /\ s[2] >= MINMATCH
      BY DEF OutputInv, TypeOK
    <3>2. QED  BY <2>2, <3>1, SequenceKeeps
  <2>3. CASE End
    BY <2>3, EndKeeps
  <2>4. QED  BY <2>1, <2>2, <2>3 DEF Next, Finished
<1>3. OutputInv => OutputFits
  BY DEF OutputInv
<1>4. QED  BY <1>1, <1>2, <1>3, PTL DEF Spec
==============================================================================
