------------------------------- MODULE HCParser -------------------------------
(***************************************************************************)
(* compress_hash_chain (src/hc.rs 1466-1772), the lazy parser of levels 3  *)
(* to 9.  It holds up to three overlapping matches, each longer than the   *)
(* one before, and cuts them so that they can follow each other before it  *)
(* writes the first.  What the search finds is left open: any match that   *)
(* HCMatcher may return.  A match remembers from where to where the bytes  *)
(* agree, which is what a cut may not leave.                               *)
(***************************************************************************)
EXTENDS Integers

CONSTANTS
  InputEnd,     \* iend
  OptimalML     \* OPTIMAL_ML: 18, the longest match of a one-byte length

InputAssumption == InputEnd \in Nat /\ InputEnd > 12
OptimalAssumption == OptimalML \in Nat /\ OptimalML > 4

MINMATCH == 4
mflimit == InputEnd - 12
matchlimit == InputEnd - 5

VARIABLES
  pc,               \* "main", "search2", "search3", "second", "done"
  ip, anchor,
  m1,               \* the match at ip: [len, from, to]
  start0, m0,       \* what m1 was before it gave way
  start2, m2,       \* the next match
  seq               \* the sequence just written: [lits, start, len, from, to]

vars == <<pc, ip, anchor, m1, start0, m0, start2, m2, seq>>

Least(x, y) == IF x < y THEN x ELSE y

NoMatch == [len |-> 0, from |-> 0, to |-> 0]
NoSeq == [lits |-> 0, start |-> 0, len |-> MINMATCH, from |-> 0, to |-> MINMATCH]
MatchFrom(from, to) == [len |-> to - from, from |-> from, to |-> to]

(* insert_and_get_wider_match from position p: a match that starts at low  *)
(* or later, covers the four bytes at p, and is longer than longest; and   *)
(* where it starts.                                                        *)
WiderAt(p, low) ==
  {MatchFrom(from, to) : from \in low..p, to \in (p + MINMATCH)..matchlimit}
FoundAt(p, low, longest) ==
  {NoMatch} \cup {m \in WiderAt(p, low) : m.len > longest}

(* encode_sequence: the literals since anchor and the match at start.      *)
Written(start, m) ==
  /\ seq' = [lits |-> start - anchor, start |-> start, len |-> m.len, from |-> m.from, to |-> m.to]
  /\ anchor' = start + m.len

(* ------------------------------ first match ---------------------------- *)
NoFirst ==
  /\ pc = "main" /\ ip <= mflimit
  /\ ip' = ip + 1
  /\ UNCHANGED <<pc, anchor, m1, start0, m0, start2, m2, seq>>

First ==
  /\ pc = "main" /\ ip <= mflimit
  /\ \E m \in FoundAt(ip, ip, MINMATCH - 1) \ {NoMatch} : m1' = m /\ m0' = m
  /\ start0' = ip /\ pc' = "search2"
  /\ UNCHANGED <<ip, anchor, start2, m2, seq>>

Finish ==
  /\ pc = "main" /\ ip > mflimit /\ pc' = "done"
  /\ UNCHANGED <<ip, anchor, m1, start0, m0, start2, m2, seq>>

(* ------------------------------ second match --------------------------- *)
Found2 == IF ip + m1.len <= mflimit THEN FoundAt(ip + m1.len - 2, ip, m1.len) ELSE {NoMatch}

(* Nothing longer: m1 is written.                                          *)
Alone ==
  /\ pc = "search2" /\ NoMatch \in Found2
  /\ Written(ip, m1)
  /\ ip' = ip + m1.len /\ pc' = "main"
  /\ UNCHANGED <<m1, start0, m0, start2, m2>>

(* A match that gave way too early comes back.                             *)
Restores(m) == start0 < ip /\ m.from < ip + m0.len

Second ==
  /\ pc = "search2"
  /\ \E m \in Found2 \ {NoMatch} :
       LET p == IF Restores(m) THEN start0 ELSE ip
           n == IF Restores(m) THEN m0 ELSE m1
       IN  IF m.from - p < 3
           THEN ip' = m.from /\ m1' = m /\ UNCHANGED <<pc, start2, m2>>
           ELSE ip' = p /\ m1' = n /\ start2' = m.from /\ m2' = m /\ pc' = "search3"
  /\ UNCHANGED <<anchor, start0, m0, seq>>

(* ------------------------------ third match ---------------------------- *)
(* How long m1 may be so that m2 keeps enough: a short m1 is not cut to    *)
(* less than it can use.  Slip: m2 may be left with nothing.               *)
RoomFor1All == Least(m1.len, OptimalML)
RoomFor1 ==
  LET wanted == Least(m1.len, OptimalML)
  IN  IF ip + wanted > start2 + m2.len - MINMATCH THEN start2 - ip + m2.len - MINMATCH ELSE wanted

(* By how much m2 then starts later.                                       *)
Correction == IF start2 - ip < OptimalML /\ RoomFor1 > start2 - ip THEN RoomFor1 - (start2 - ip) ELSE 0
second == start2 + Correction
cut2 == [m2 EXCEPT !.len = @ - Correction]

Found3 ==
  IF second + cut2.len <= mflimit THEN FoundAt(second + cut2.len - 3, second, cut2.len) ELSE {NoMatch}

(* m1 up to where m2 starts.                                               *)
Cut1(limit) == [m1 EXCEPT !.len = Least(@, limit)]

(* Nothing longer: m1 is written, then m2.                                 *)
Two ==
  /\ pc = "search3" /\ NoMatch \in Found3
  /\ LET m == Cut1(second - ip) IN Written(ip, m)
  /\ ip' = second /\ m1' = cut2 /\ pc' = "second"
  /\ UNCHANGED <<start0, m0, start2, m2>>

TwoEnd ==
  /\ pc = "second"
  /\ Written(ip, m1)
  /\ ip' = ip + m1.len /\ pc' = "main"
  /\ UNCHANGED <<m1, start0, m0, start2, m2>>

(* The third begins where m1 ends, or just after it: m2 is passed over,    *)
(* but what is left of it may come back as m0.                             *)
LeftOf2(m, end) ==
  LET late == [cut2 EXCEPT !.len = @ - (end - second)]
  IN  IF second >= end THEN [at |-> second, match |-> cut2]
      ELSE IF late.len < MINMATCH THEN [at |-> m.from, match |-> m]
      ELSE [at |-> end, match |-> late]

Third ==
  /\ pc = "search3"
  /\ \E m \in Found3 \ {NoMatch} :
       LET end == ip + m1.len
           left == LeftOf2(m, end)
       IN  /\ m.from < end + 3 /\ m.from >= end
           /\ Written(ip, m1)
           /\ start0' = left.at /\ m0' = left.match
           /\ ip' = m.from /\ m1' = m
  /\ pc' = "search2" /\ UNCHANGED <<start2, m2>>

(* The third begins before m1 ends and takes the place of m2.              *)
Replace2 ==
  /\ pc = "search3"
  /\ \E m \in Found3 \ {NoMatch} : m.from < ip + m1.len /\ start2' = m.from /\ m2' = m
  /\ UNCHANGED <<pc, ip, anchor, m1, start0, m0, seq>>

(* The third begins well after m1: m1 is written, and the other two move   *)
(* up.                                                                     *)
CutFor(p, c2) ==
  LET wanted == Least(m1.len, OptimalML)
  IN  IF p >= ip + m1.len THEN m1.len
      ELSE IF p - ip >= OptimalML THEN p - ip
      ELSE IF ip + wanted > p + c2.len - MINMATCH THEN p - ip + c2.len - MINMATCH
      ELSE wanted
MoveUp ==
  /\ pc = "search3"
  /\ \E m \in Found3 \ {NoMatch} :
       LET len == CutFor(second, cut2)
           c   == IF second < ip + m1.len /\ ip + len > second THEN ip + len - second ELSE 0
       IN  /\ m.from >= ip + m1.len + 3
           /\ Written(ip, [m1 EXCEPT !.len = len])
           /\ ip' = second + c /\ m1' = [cut2 EXCEPT !.len = @ - c]
           /\ start2' = m.from /\ m2' = m
  /\ UNCHANGED <<pc, start0, m0>>

Finished == pc = "done" /\ UNCHANGED vars

Init ==
  /\ pc = "main" /\ ip = 0 /\ anchor = 0
  /\ m1 = NoMatch /\ start0 = 0 /\ m0 = NoMatch /\ start2 = 0 /\ m2 = NoMatch
  /\ seq = NoSeq

Working == NoFirst \/ First \/ Finish \/ Alone \/ Second \/ Two \/ TwoEnd \/ Third \/ Replace2 \/ MoveUp
Next == Working \/ Finished

(* The code runs: nothing it waits for.                                    *)
Spec == Init /\ [][Next]_vars /\ WF_vars(Working)

-----------------------------------------------------------------------------
(* Properties.                                                             *)

(* Whatever is found and cut, the sequences follow each other: no literal  *)
(* run is negative, no match is cut below four bytes, and each is part of  *)
(* the match that was found (hc.rs 1518-1769).                             *)
Follows ==
  /\ seq.lits >= 0 /\ seq.len >= MINMATCH
  /\ seq.from <= seq.start /\ seq.start + seq.len <= seq.to

(* The end of the block: no match begins less than 12 bytes before it or   *)
(* takes one of its last five bytes.                                       *)
EndKept == seq # NoSeq => seq.start <= mflimit /\ seq.start + seq.len <= matchlimit

(* The matches in hand: none has been cut out of what it was found to be,  *)
(* and each starts late enough for the subtractions of the code.           *)
Inside(start, m) == m.from <= start /\ start + m.len <= m.to
InHand ==
  /\ anchor <= ip
  /\ pc \in {"search2", "search3", "second"} => Inside(ip, m1) /\ m1.len >= MINMATCH
  /\ pc = "search2" => Inside(start0, m0) /\ anchor <= start0 /\ start0 <= ip
  /\ pc = "search3" => Inside(start2, m2) /\ m2.len >= MINMATCH /\ start2 >= ip
==============================================================================
