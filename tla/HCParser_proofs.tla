--------------------------- MODULE HCParser_proofs ---------------------------
(***************************************************************************)
(* Proofs about the lazy parser: for every length of input and every       *)
(* optimal length above four, and whatever the searches return, the        *)
(* sequences it writes follow each other, each is part of a match that was *)
(* found, and none reaches into what a block keeps for its end.            *)
(***************************************************************************)
EXTENDS HCParser, TLAPS

Match == [len : Int, from : Int, to : Int]

TypeOK ==
  /\ pc \in {"main", "search2", "search3", "second", "done"}
  /\ ip \in Int /\ anchor \in Int /\ start0 \in Int /\ start2 \in Int
  /\ m1 \in Match /\ m0 \in Match /\ m2 \in Match
  /\ seq \in [lits : Int, start : Int, len : Int, from : Int, to : Int]

(* A match in hand that starts at p: four bytes or more of what was found, *)
(* which ends before the last five bytes of the input.                     *)
Usable(p, m) == m.from <= p /\ p + m.len <= m.to /\ m.to <= matchlimit /\ m.len >= MINMATCH

(* With one match in hand, and the one it took the place of, which starts  *)
(* at most two bytes before it and is no longer.                           *)
OneInHand ==
  /\ Usable(ip, m1) /\ ip <= mflimit
  /\ Usable(start0, m0) /\ m0.len <= m1.len
  /\ anchor <= start0 /\ start0 <= ip /\ ip <= start0 + 2

(* With two: the first ends early enough for a third to be looked for, the *)
(* second starts at most one byte behind the first, and is longer the      *)
(* closer it starts: what is cut from either leaves four bytes of both.    *)
TwoInHand ==
  /\ Usable(ip, m1) /\ ip + m1.len <= mflimit
  /\ Usable(start2, m2) /\ m2.len >= MINMATCH + 1 /\ start2 <= mflimit
  /\ start2 >= ip /\ start2 <= ip + m1.len + 1
  /\ (start2 - ip) + m2.len >= 2 * MINMATCH

(* Matches in hand, and the sequence written last.                         *)
Held ==
  /\ anchor <= ip
  /\ pc = "search2" => OneInHand
  /\ pc = "search3" => TwoInHand
  /\ pc = "second" => Usable(ip, m1) /\ ip <= mflimit
PutRight == Follows /\ EndKept

ParserInv == TypeOK /\ Held /\ PutRight

Settings == InputAssumption /\ OptimalAssumption

-----------------------------------------------------------------------------
(* What a search returns.                                                  *)
LEMMA FoundType ==
  ASSUME Settings, NEW p \in Int, NEW low \in Int, NEW longest \in Int,
         NEW m \in FoundAt(p, low, longest) \ {NoMatch}
  PROVE  /\ m \in Match /\ m.len = m.to - m.from
         /\ low <= m.from /\ m.from <= p /\ p + MINMATCH <= m.to
         /\ m.to <= matchlimit /\ m.len > longest
<1>1. PICK from \in low..p, to \in (p + MINMATCH)..matchlimit :
        m = MatchFrom(from, to) /\ m.len > longest
  BY DEF FoundAt, WiderAt
<1>2. from \in Int /\ to \in Int /\ matchlimit \in Int
  BY DEF Settings, InputAssumption, matchlimit, MINMATCH
<1>3. m = [len |-> to - from, from |-> from, to |-> to]
  BY <1>1 DEF MatchFrom
<1>4. QED  BY <1>1, <1>2, <1>3 DEF Match, matchlimit

(* What is cut between two matches in hand.  Either keeps four bytes.      *)
LEMMA Corrected ==
  ASSUME Settings, TypeOK, TwoInHand
  PROVE  /\ Correction \in Nat /\ second = start2 + Correction
         /\ cut2 \in Match /\ cut2.len = m2.len - Correction
         /\ cut2.from = m2.from /\ cut2.to = m2.to
         /\ cut2.len >= MINMATCH
         /\ second - ip >= MINMATCH /\ second <= mflimit
         /\ Correction > 0 => second <= ip + m1.len
         /\ Usable(second, cut2)
<1>1. /\ ip \in Int /\ start2 \in Int /\ m1.len \in Int /\ OptimalML \in Int
      /\ m2.len \in Int /\ m2.from \in Int /\ m2.to \in Int /\ OptimalML > 4
  BY DEF TypeOK, Match, Settings, OptimalAssumption
<1>2. /\ RoomFor1 \in Int /\ RoomFor1 >= MINMATCH /\ RoomFor1 <= m1.len
      /\ ip + RoomFor1 <= start2 + m2.len - MINMATCH
  BY <1>1 DEF RoomFor1, Least, TwoInHand, Usable, MINMATCH
<1>3. /\ Correction \in Nat
      /\ Correction > 0 => Correction = RoomFor1 - (start2 - ip)
      /\ Correction = 0 => start2 - ip >= MINMATCH
      /\ Correction <= m2.len - MINMATCH
  BY <1>1, <1>2 DEF Correction, TwoInHand, Usable, MINMATCH
<1>4. cut2 = [len |-> m2.len - Correction, from |-> m2.from, to |-> m2.to]
  BY DEF cut2, TypeOK, Match
<1>5. second = start2 + Correction
  BY DEF second
<1>6. /\ cut2 \in Match /\ cut2.len = m2.len - Correction
      /\ cut2.from = m2.from /\ cut2.to = m2.to
  BY <1>1, <1>3, <1>4 DEF Match
<1>7. cut2.len >= MINMATCH
  BY <1>1, <1>3, <1>6 DEF MINMATCH
<1>8. second - ip >= MINMATCH
  BY <1>1, <1>2, <1>3, <1>5
<1>9. (Correction > 0 => second <= ip + m1.len) /\ second <= mflimit
  BY <1>1, <1>2, <1>3, <1>5 DEF TwoInHand, mflimit, Settings, InputAssumption
<1>10. Usable(second, cut2)
  BY <1>1, <1>3, <1>5, <1>6, <1>7 DEF TwoInHand, Usable, matchlimit, MINMATCH
<1>11. QED  BY <1>3, <1>5, <1>6, <1>7, <1>8, <1>9, <1>10

(* A sequence cut from a usable match that starts early enough is right.   *)
LEMMA WrittenRight ==
  ASSUME Settings, TypeOK, NEW start \in Int, NEW m \in Match,
         Usable(start, m), start <= mflimit, anchor <= start, Written(start, m)
  PROVE  /\ PutRight' /\ anchor' = start + m.len /\ anchor' \in Int
         /\ seq' \in [lits : Int, start : Int, len : Int, from : Int, to : Int]
<1>1. /\ anchor \in Int /\ m.len \in Int /\ m.from \in Int /\ m.to \in Int
  BY DEF TypeOK, Match
<1>2. /\ seq' = [lits |-> start - anchor, start |-> start, len |-> m.len,
                 from |-> m.from, to |-> m.to]
      /\ anchor' = start + m.len
  BY DEF Written
<1>3. seq' \in [lits : Int, start : Int, len : Int, from : Int, to : Int]
  BY <1>1, <1>2
<1>4. Follows'
  BY <1>1, <1>2 DEF Follows, Usable
<1>5. EndKept'
  BY <1>1, <1>2 DEF EndKept, Usable, mflimit, matchlimit, Settings, InputAssumption
<1>6. QED  BY <1>1, <1>2, <1>3, <1>4, <1>5 DEF PutRight

-----------------------------------------------------------------------------
(* One lemma per action.                                                   *)

LEMMA SecondHeld ==
  ASSUME Settings, ParserInv, Second PROVE ParserInv'
<1> USE DEF ParserInv
<1>1. /\ pc = "search2" /\ OneInHand
      /\ UNCHANGED <<anchor, start0, m0, seq>>
  BY DEF Second, Held
<1>2. /\ ip \in Int /\ start0 \in Int /\ anchor \in Int
      /\ m1 \in Match /\ m0 \in Match /\ m1.len \in Int /\ m0.len \in Int
  BY DEF TypeOK, Match
<1>3. PICK m \in Found2 \ {NoMatch} :
        LET p == IF Restores(m) THEN start0 ELSE ip
            n == IF Restores(m) THEN m0 ELSE m1
        IN  IF m.from - p < 3
            THEN ip' = m.from /\ m1' = m /\ UNCHANGED <<pc, start2, m2>>
            ELSE ip' = p /\ m1' = n /\ start2' = m.from /\ m2' = m /\ pc' = "search3"
  BY DEF Second
<1> DEFINE p == IF Restores(m) THEN start0 ELSE ip
           n == IF Restores(m) THEN m0 ELSE m1
<1>4. ip + m1.len <= mflimit /\ m \in FoundAt(ip + m1.len - 2, ip, m1.len) \ {NoMatch}
  BY <1>3 DEF Found2
<1>5. /\ m \in Match /\ m.len = m.to - m.from
      /\ ip <= m.from /\ m.from <= ip + m1.len - 2
      /\ m.to <= matchlimit /\ m.len > m1.len
  BY <1>2, <1>4, FoundType DEF Settings
<1>6. m.len \in Int /\ m.from \in Int /\ m.to \in Int
  BY <1>5 DEF Match
<1>7. p \in Int /\ n \in Match /\ n.len \in Int /\ Usable(p, n)
  BY <1>1, <1>2 DEF OneInHand
<1>8. anchor <= p /\ p <= ip /\ p + n.len <= mflimit /\ n.len <= m1.len /\ m.from <= p + n.len + 1
  <2>1. CASE Restores(m)
    <3>1. p = start0 /\ n = m0 /\ m.from < ip + m0.len
      BY <2>1 DEF Restores
    <3>2. QED
      BY <1>1, <1>2, <1>4, <1>6, <3>1 DEF OneInHand, mflimit, Settings, InputAssumption
  <2>2. CASE ~Restores(m)
    BY <1>1, <1>2, <1>4, <1>5, <1>6, <2>2 DEF OneInHand
  <2>3. QED  BY <2>1, <2>2
<1>9. m.from <= mflimit
  BY <1>2, <1>4, <1>5, <1>6 DEF mflimit, Settings, InputAssumption
<1>10. m.from - p < 3 => m.from <= start0 + 2
  <2>1. ~Restores(m) /\ m.from - ip < 3 => ip = start0
    BY <1>1, <1>2, <1>5, <1>6 DEF Restores, OneInHand, Usable, MINMATCH
  <2>2. QED  BY <1>1, <1>2, <1>6, <2>1 DEF OneInHand
<1>11. CASE m.from - p < 3
  <2>1. ip' = m.from /\ m1' = m /\ UNCHANGED <<pc, start2, m2>>
    BY <1>3, <1>11
  <2>2. OneInHand'
    BY <1>1, <1>2, <1>5, <1>6, <1>9, <1>10, <1>11, <2>1
       DEF OneInHand, Usable, mflimit, matchlimit, MINMATCH
  <2>3. pc' = "search2" /\ anchor' <= ip'
    BY <1>1, <1>2, <1>5, <1>6, <2>1 DEF OneInHand
  <2>a. Held'
    BY <2>2, <2>3 DEF Held
  <2>4. TypeOK'
    BY <1>1, <1>5, <1>6, <2>1 DEF TypeOK
  <2>5. QED  BY <1>1, <2>a, <2>4 DEF PutRight, Follows, EndKept, mflimit, matchlimit
<1>12. CASE ~(m.from - p < 3)
  <2>1. ip' = p /\ m1' = n /\ start2' = m.from /\ m2' = m /\ pc' = "search3"
    BY <1>3, <1>12
  <2> HIDE DEF p, n
  <2>2. TwoInHand'
    <3>1. Usable(m.from, m)
      BY <1>1, <1>2, <1>5, <1>6 DEF Usable, OneInHand, MINMATCH
    <3>2. QED
      BY <1>1, <1>2, <1>5, <1>6, <1>7, <1>8, <1>9, <1>12, <2>1, <3>1
         DEF TwoInHand, OneInHand, Usable, mflimit, matchlimit, MINMATCH
  <2>3. Held'
    BY <1>1, <1>8, <2>1, <2>2 DEF Held
  <2>4. TypeOK'
    BY <1>1, <1>5, <1>6, <1>7, <2>1 DEF TypeOK
  <2>5. QED  BY <1>1, <2>3, <2>4 DEF PutRight, Follows, EndKept, mflimit, matchlimit
<1>13. QED  BY <1>11, <1>12

(* A match with nothing longer over its end is written and done with.      *)
LEMMA AloneHeld ==
  ASSUME Settings, ParserInv, Alone PROVE ParserInv'
<1> USE DEF ParserInv
<1>1. /\ pc = "search2" /\ OneInHand /\ Written(ip, m1)
      /\ ip' = ip + m1.len /\ pc' = "main"
      /\ UNCHANGED <<m1, start0, m0, start2, m2>>
  BY DEF Alone, Held
<1>2. ip \in Int /\ m1 \in Match /\ m1.len \in Int /\ anchor \in Int /\ start0 \in Int
  BY DEF TypeOK, Match
<1>3. Usable(ip, m1) /\ ip <= mflimit /\ anchor <= ip
  BY <1>1, <1>2 DEF OneInHand
<1>4. /\ PutRight' /\ anchor' = ip + m1.len /\ anchor' \in Int
      /\ seq' \in [lits : Int, start : Int, len : Int, from : Int, to : Int]
  BY <1>1, <1>2, <1>3, WrittenRight
<1>5. TypeOK'
  BY <1>1, <1>2, <1>4 DEF TypeOK
<1>6. QED  BY <1>1, <1>2, <1>4, <1>5 DEF Held

LEMMA TwoHeld ==
  ASSUME Settings, ParserInv, Two PROVE ParserInv'
<1> USE DEF ParserInv
<1> DEFINE m == Cut1(second - ip)
<1>1. /\ pc = "search3" /\ TwoInHand /\ Written(ip, m)
      /\ ip' = second /\ m1' = cut2 /\ pc' = "second"
      /\ UNCHANGED <<start0, m0, start2, m2>>
  BY DEF Two, Held
<1>2. /\ ip \in Int /\ m1.len \in Int /\ m1.from \in Int /\ m1.to \in Int /\ start2 \in Int
  BY DEF TypeOK, Match
<1>3. /\ Correction \in Nat /\ second = start2 + Correction
      /\ cut2 \in Match /\ Usable(second, cut2)
      /\ second - ip >= MINMATCH /\ second <= mflimit
  BY <1>1, Corrected
<1>4. second \in Int
  BY <1>2, <1>3
<1>5. m = [len |-> Least(m1.len, second - ip), from |-> m1.from, to |-> m1.to]
  BY DEF Cut1, TypeOK, Match
<1>6. m \in Match /\ Usable(ip, m) /\ m.len <= second - ip /\ ip <= mflimit
  BY <1>1, <1>2, <1>3, <1>4, <1>5
     DEF Match, Usable, TwoInHand, Least, mflimit, matchlimit, Settings, InputAssumption, MINMATCH
<1>7. m.len \in Int /\ anchor <= ip
  BY <1>1, <1>6 DEF Match, Held
<1> HIDE DEF m
<1>8. /\ PutRight' /\ anchor' = ip + m.len /\ anchor' \in Int
      /\ seq' \in [lits : Int, start : Int, len : Int, from : Int, to : Int]
  BY <1>1, <1>2, <1>6, <1>7, WrittenRight
<1>9. TypeOK'
  BY <1>1, <1>3, <1>4, <1>8 DEF TypeOK
<1>10. Held'
  <2>1. anchor' <= ip'
    BY <1>1, <1>2, <1>4, <1>6, <1>7, <1>8
  <2>2. Usable(ip, m1)' /\ (ip <= mflimit)'
    BY <1>1, <1>3 DEF Usable, mflimit, matchlimit
  <2>3. QED  BY <1>1, <2>1, <2>2 DEF Held
<1>11. QED  BY <1>8, <1>9, <1>10

LEMMA TwoEndHeld ==
  ASSUME Settings, ParserInv, TwoEnd PROVE ParserInv'
<1> USE DEF ParserInv
<1>1. /\ pc = "second" /\ Usable(ip, m1) /\ ip <= mflimit /\ anchor <= ip
      /\ Written(ip, m1) /\ ip' = ip + m1.len /\ pc' = "main"
      /\ UNCHANGED <<m1, start0, m0, start2, m2>>
  BY DEF TwoEnd, Held
<1>2. ip \in Int /\ m1 \in Match /\ m1.len \in Int
  BY DEF TypeOK, Match
<1>3. /\ PutRight' /\ anchor' = ip + m1.len /\ anchor' \in Int
      /\ seq' \in [lits : Int, start : Int, len : Int, from : Int, to : Int]
  BY <1>1, <1>2, WrittenRight
<1>4. TypeOK'
  BY <1>1, <1>2, <1>3 DEF TypeOK
<1>5. QED  BY <1>1, <1>2, <1>3, <1>4 DEF Held

(* What is left of the second behind the first starts at most two bytes    *)
(* before the third.                                                       *)
LEMMA ThirdHeld ==
  ASSUME Settings, ParserInv, Third PROVE ParserInv'
<1> USE DEF ParserInv
<1> DEFINE end == ip + m1.len
<1>1. /\ pc = "search3" /\ TwoInHand /\ anchor <= ip
      /\ pc' = "search2" /\ UNCHANGED <<start2, m2>>
  BY DEF Third, Held
<1>2. /\ ip \in Int /\ m1 \in Match /\ m1.len \in Int /\ end \in Int /\ start2 \in Int
  BY DEF TypeOK, Match
<1>3. /\ Correction \in Nat /\ second = start2 + Correction
      /\ cut2 \in Match /\ Usable(second, cut2) /\ second <= mflimit
  BY <1>1, Corrected
<1>4. /\ second \in Int /\ cut2.len \in Int /\ cut2.from \in Int /\ cut2.to \in Int
  BY <1>2, <1>3 DEF Match
<1>5. PICK m \in Found3 \ {NoMatch} :
        /\ m.from < end + 3 /\ m.from >= end
        /\ Written(ip, m1)
        /\ start0' = LeftOf2(m, end).at /\ m0' = LeftOf2(m, end).match
        /\ ip' = m.from /\ m1' = m
  BY DEF Third
<1>6. second + cut2.len <= mflimit /\ m \in FoundAt(second + cut2.len - 3, second, cut2.len) \ {NoMatch}
  BY <1>5 DEF Found3
<1>7. /\ m \in Match /\ m.len = m.to - m.from
      /\ second <= m.from /\ m.from <= second + cut2.len - 3
      /\ m.to <= matchlimit /\ m.len > cut2.len
  BY <1>4, <1>6, FoundType DEF Settings
<1>8. m.len \in Int /\ m.from \in Int /\ m.to \in Int
  BY <1>7 DEF Match
<1>9. Usable(ip, m1) /\ ip <= mflimit
  BY <1>1, <1>2 DEF TwoInHand, Usable, mflimit, Settings, InputAssumption, MINMATCH
<1>10. /\ PutRight' /\ anchor' = end /\ anchor' \in Int
       /\ seq' \in [lits : Int, start : Int, len : Int, from : Int, to : Int]
  BY <1>1, <1>2, <1>5, <1>9, WrittenRight
<1> HIDE DEF end
<1> DEFINE late == [cut2 EXCEPT !.len = @ - (end - second)]
<1>11. late = [len |-> cut2.len - (end - second), from |-> cut2.from, to |-> cut2.to]
  BY <1>3 DEF Match
<1>12. /\ start0' \in Int /\ m0' \in Match /\ Usable(start0', m0')
       /\ m0'.len <= m.len /\ end <= start0' /\ start0' <= m.from /\ m.from <= start0' + 2
  <2>1. CASE second >= end
    <3>1. start0' = second /\ m0' = cut2
      BY <1>5, <2>1 DEF LeftOf2
    <3>2. QED  BY <1>2, <1>3, <1>4, <1>5, <1>7, <1>8, <2>1, <3>1
  <2>2. CASE second < end /\ late.len < MINMATCH
    <3>1. start0' = m.from /\ m0' = m
      BY <1>2, <1>4, <1>5, <2>2 DEF LeftOf2
    <3>2. Usable(m.from, m)
      BY <1>3, <1>4, <1>7, <1>8 DEF Usable, MINMATCH
    <3>3. QED  BY <1>2, <1>5, <1>7, <1>8, <3>1, <3>2
  <2>3. CASE second < end /\ ~(late.len < MINMATCH)
    <3>1. start0' = end /\ m0' = late
      BY <1>2, <1>4, <1>5, <2>3 DEF LeftOf2
    <3>2. late \in Match /\ late.len <= cut2.len /\ Usable(end, late)
      BY <1>2, <1>3, <1>4, <1>11, <2>3 DEF Match, Usable, matchlimit, MINMATCH
    <3>3. late.len \in Int
      BY <3>2 DEF Match
    <3>4. QED  BY <1>2, <1>4, <1>5, <1>7, <1>8, <3>1, <3>2, <3>3
  <2>4. QED  BY <1>2, <1>4, <2>1, <2>2, <2>3
<1>13. TypeOK'
  BY <1>1, <1>5, <1>7, <1>8, <1>10, <1>12 DEF TypeOK
<1>14. OneInHand'
  <2>1. Usable(m.from, m) /\ m.from <= mflimit
    BY <1>3, <1>4, <1>6, <1>7, <1>8 DEF Usable, mflimit, MINMATCH, Settings, InputAssumption
  <2>2. QED
    BY <1>5, <1>10, <1>12, <2>1 DEF OneInHand, Usable, mflimit, matchlimit, MINMATCH
<1>15. Held'
  <2>1. anchor' <= ip'
    BY <1>2, <1>5, <1>8, <1>10, <1>12
  <2>2. QED  BY <1>1, <1>14, <2>1 DEF Held
<1>16. QED  BY <1>10, <1>13, <1>15

LEMMA Replace2Held ==
  ASSUME Settings, ParserInv, Replace2 PROVE ParserInv'
<1> USE DEF ParserInv
<1>1. /\ pc = "search3" /\ TwoInHand /\ anchor <= ip
      /\ UNCHANGED <<pc, ip, anchor, m1, start0, m0, seq>>
  BY DEF Replace2, Held
<1>2. /\ ip \in Int /\ m1.len \in Int /\ start2 \in Int
  BY DEF TypeOK, Match
<1>3. /\ Correction \in Nat /\ second = start2 + Correction
      /\ cut2 \in Match /\ cut2.len >= MINMATCH /\ second - ip >= MINMATCH
  BY <1>1, Corrected
<1>4. second \in Int /\ cut2.len \in Int
  BY <1>2, <1>3 DEF Match
<1>5. PICK m \in Found3 \ {NoMatch} : m.from < ip + m1.len /\ start2' = m.from /\ m2' = m
  BY DEF Replace2
<1>6. second + cut2.len <= mflimit /\ m \in FoundAt(second + cut2.len - 3, second, cut2.len) \ {NoMatch}
  BY <1>5 DEF Found3
<1>7. /\ m \in Match /\ m.len = m.to - m.from
      /\ second <= m.from /\ m.from <= second + cut2.len - 3
      /\ m.to <= matchlimit /\ m.len > cut2.len
  BY <1>4, <1>6, FoundType DEF Settings
<1>8. m.len \in Int /\ m.from \in Int /\ m.to \in Int
  BY <1>7 DEF Match
<1>9. TypeOK'
  BY <1>1, <1>5, <1>7, <1>8 DEF TypeOK
<1>10. Usable(m.from, m) /\ m.len >= MINMATCH + 1 /\ m.from <= mflimit
       /\ m.from >= ip + MINMATCH
  BY <1>2, <1>3, <1>4, <1>6, <1>7, <1>8 DEF Usable, mflimit, MINMATCH, Settings, InputAssumption
<1>11. TwoInHand'
  BY <1>1, <1>2, <1>5, <1>8, <1>10 DEF TwoInHand, Usable, mflimit, matchlimit, MINMATCH
<1>12. QED
  BY <1>1, <1>9, <1>11 DEF Held, PutRight, Follows, EndKept, mflimit, matchlimit

(* The first is cut so that the second keeps four bytes, and the second    *)
(* starts where it then ends.                                              *)
LEMMA MoveUpHeld ==
  ASSUME Settings, ParserInv, MoveUp PROVE ParserInv'
<1> USE DEF ParserInv
<1> DEFINE len == CutFor(second, cut2)
           c == IF second < ip + m1.len /\ ip + len > second THEN ip + len - second ELSE 0
           first == [m1 EXCEPT !.len = len]
           next == [cut2 EXCEPT !.len = @ - c]
<1>1. /\ pc = "search3" /\ TwoInHand /\ anchor <= ip
      /\ UNCHANGED <<pc, start0, m0>>
  BY DEF MoveUp, Held
<1>2. /\ ip \in Int /\ m1.len \in Int /\ m1.from \in Int /\ m1.to \in Int /\ start2 \in Int
      /\ OptimalML \in Int /\ OptimalML > 4 /\ m2.len \in Int
  BY DEF TypeOK, Match, Settings, OptimalAssumption
<1>3. /\ Correction \in Nat /\ second = start2 + Correction
      /\ cut2 \in Match /\ cut2.len >= MINMATCH /\ second - ip >= MINMATCH
      /\ cut2.len = m2.len - Correction
      /\ Correction > 0 => second <= ip + m1.len
      /\ Usable(second, cut2) /\ second <= mflimit
  BY <1>1, Corrected
<1>4. second \in Int /\ cut2.len \in Int /\ cut2.from \in Int /\ cut2.to \in Int
  BY <1>2, <1>3 DEF Match
<1>5. PICK m \in Found3 \ {NoMatch} :
        /\ m.from >= ip + m1.len + 3
        /\ Written(ip, first)
        /\ ip' = second + c /\ m1' = next
        /\ start2' = m.from /\ m2' = m
  BY DEF MoveUp
<1>6. second + cut2.len <= mflimit /\ m \in FoundAt(second + cut2.len - 3, second, cut2.len) \ {NoMatch}
  BY <1>5 DEF Found3
<1>7. /\ m \in Match /\ m.len = m.to - m.from
      /\ second <= m.from /\ m.from <= second + cut2.len - 3
      /\ m.to <= matchlimit /\ m.len > cut2.len
  BY <1>4, <1>6, FoundType DEF Settings
<1>8. m.len \in Int /\ m.from \in Int /\ m.to \in Int
  BY <1>7 DEF Match
<1>9. /\ len \in Int /\ MINMATCH <= len /\ len <= m1.len
      /\ second < ip + m1.len => ip + len <= second \/ ip + len <= second + cut2.len - MINMATCH
      /\ second >= ip + m1.len => len = m1.len
  BY <1>1, <1>2, <1>3, <1>4 DEF CutFor, Least, MINMATCH, TwoInHand, Usable
<1>10. /\ first = [len |-> len, from |-> m1.from, to |-> m1.to]
       /\ next = [len |-> cut2.len - c, from |-> cut2.from, to |-> cut2.to]
  BY <1>3 DEF TypeOK, Match
<1> HIDE DEF len
<1>11. /\ c \in Nat /\ ip + len <= second + c /\ c <= cut2.len - MINMATCH
       /\ second < ip + m1.len => second + c <= ip + m1.len
       /\ second >= ip + m1.len => c = 0
  BY <1>2, <1>3, <1>4, <1>9 DEF MINMATCH
<1> HIDE DEF c
<1>12. /\ first \in Match /\ first.len = len /\ Usable(ip, first) /\ ip <= mflimit
  BY <1>1, <1>2, <1>9, <1>10
     DEF TwoInHand, Usable, Match, MINMATCH, mflimit, matchlimit, Settings, InputAssumption
<1>13. /\ next \in Match /\ next.len = cut2.len - c /\ Usable(second + c, next)
  BY <1>3, <1>4, <1>10, <1>11 DEF Usable, Match, MINMATCH, matchlimit
<1> HIDE DEF first, next
<1>14. /\ PutRight' /\ anchor' = ip + len /\ anchor' \in Int
       /\ seq' \in [lits : Int, start : Int, len : Int, from : Int, to : Int]
  BY <1>1, <1>2, <1>5, <1>12, WrittenRight
<1>15. TypeOK'
  BY <1>1, <1>4, <1>5, <1>7, <1>8, <1>11, <1>13, <1>14 DEF TypeOK
<1>16. /\ (m.from - (second + c)) + m.len >= 2 * MINMATCH
       /\ second + c <= m.from /\ m.len >= MINMATCH + 1
  <2>1. CASE second < ip + m1.len
    BY <1>2, <1>3, <1>4, <1>5, <1>7, <1>8, <1>11, <2>1 DEF MINMATCH
  <2>2. CASE second >= ip + m1.len /\ Correction > 0
    BY <1>2, <1>3, <1>4, <1>5, <1>7, <1>8, <1>11, <2>2 DEF MINMATCH
  <2>3. CASE second >= ip + m1.len /\ Correction = 0
    BY <1>1, <1>2, <1>3, <1>4, <1>5, <1>7, <1>8, <1>11, <2>3 DEF MINMATCH, TwoInHand
  <2>4. QED  BY <1>2, <1>3, <1>4, <2>1, <2>2, <2>3
<1>17. Usable(m.from, m) /\ m.from <= mflimit /\ m.from <= second + c + next.len + 1
       /\ second + c + next.len <= mflimit
  BY <1>3, <1>4, <1>6, <1>7, <1>8, <1>11, <1>13
     DEF Usable, mflimit, MINMATCH, Settings, InputAssumption
<1>18. TwoInHand'
  BY <1>5, <1>13, <1>16, <1>17 DEF TwoInHand, Usable, mflimit, matchlimit, MINMATCH
<1>19. Held'
  <2>1. anchor' <= ip'
    BY <1>5, <1>11, <1>14
  <2>2. QED  BY <1>1, <1>18, <2>1 DEF Held
<1>20. QED  BY <1>14, <1>15, <1>19

(* Before there is a match, and at the end.                                *)
LEMMA FirstHeld ==
  ASSUME Settings, ParserInv, NoFirst \/ First \/ Finish PROVE ParserInv'
<1> USE DEF ParserInv
<1>1. pc = "main" /\ anchor <= ip /\ ip \in Int /\ anchor \in Int
  BY DEF NoFirst, First, Finish, Held, TypeOK
<1>2. CASE NoFirst \/ Finish
  BY <1>1, <1>2
     DEF NoFirst, Finish, TypeOK, Held, PutRight, Follows, EndKept, mflimit, matchlimit
<1>3. CASE First
  <2>1. PICK m \in FoundAt(ip, ip, MINMATCH - 1) \ {NoMatch} : m1' = m /\ m0' = m
    BY <1>3 DEF First
  <2>2. /\ m \in Match /\ m.len = m.to - m.from /\ ip <= m.from /\ m.from <= ip
        /\ m.to <= matchlimit /\ m.len > MINMATCH - 1
    BY <1>1, <2>1, FoundType DEF MINMATCH
  <2>3. m.len \in Int /\ m.from \in Int /\ m.to \in Int
    BY <2>2 DEF Match
  <2>4. /\ start0' = ip /\ pc' = "search2" /\ ip <= mflimit
        /\ UNCHANGED <<ip, anchor, start2, m2, seq>>
    BY <1>3 DEF First
  <2>5. OneInHand'
    BY <1>1, <2>1, <2>2, <2>3, <2>4 DEF OneInHand, Usable, mflimit, matchlimit, MINMATCH
  <2>6. TypeOK'
    BY <1>1, <2>1, <2>2, <2>4 DEF TypeOK
  <2>7. QED
    BY <1>1, <2>4, <2>5, <2>6 DEF Held, PutRight, Follows, EndKept, mflimit, matchlimit
<1>4. QED  BY <1>2, <1>3

-----------------------------------------------------------------------------
(* The matches in hand can always be cut so that they follow each other:   *)
(* the invariant of the loops of compress_hash_chain (hc.rs 1501-1769).    *)
THEOREM ParserInvariant ==
  ASSUME InputAssumption, OptimalAssumption PROVE Spec => []ParserInv
<1> USE DEF Settings
<1>1. Init => ParserInv
  BY DEF Init, ParserInv, TypeOK, Match, Held, PutRight, Follows, EndKept, NoMatch, NoSeq, MINMATCH
<1>2. ParserInv /\ [Next]_vars => ParserInv'
  <2> SUFFICES ASSUME ParserInv, [Next]_vars PROVE ParserInv'
    OBVIOUS
  <2>1. CASE UNCHANGED vars
    BY <2>1 DEF vars, ParserInv, TypeOK, Held, OneInHand, TwoInHand, Usable,
                PutRight, Follows, EndKept, mflimit, matchlimit
  <2>2. CASE Working
    BY <2>2, FirstHeld, AloneHeld, SecondHeld, TwoHeld, TwoEndHeld, ThirdHeld,
       Replace2Held, MoveUpHeld DEF Working
  <2>3. QED  BY <2>1, <2>2 DEF Next, Finished
<1>3. QED  BY <1>1, <1>2, PTL DEF Spec

(* The sequences follow each other, none is cut below four bytes, and each *)
(* is part of the match that was found; none reaches into the end of the   *)
(* block; and the matches in hand start late enough for the subtractions   *)
(* of the code (hc.rs 1518-1769).                                          *)
THEOREM SequencesRight ==
  ASSUME InputAssumption, OptimalAssumption
  PROVE  Spec => [](Follows /\ EndKept /\ InHand)
<1>1. ParserInv => Follows /\ EndKept /\ InHand
  <2> SUFFICES ASSUME ParserInv PROVE InHand
    BY DEF ParserInv, PutRight
  <2>1. CASE pc = "search3"
    BY <2>1 DEF ParserInv, Held, TwoInHand, Usable, InHand, Inside, MINMATCH, TypeOK, Match
  <2>2. CASE pc # "search3"
    BY <2>2 DEF ParserInv, Held, OneInHand, Usable, InHand, Inside, MINMATCH, TypeOK, Match
  <2>3. QED  BY <2>1, <2>2
<1>2. QED  BY <1>1, ParserInvariant, PTL
==============================================================================
