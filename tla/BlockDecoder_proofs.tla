------------------------- MODULE BlockDecoder_proofs -------------------------
(***************************************************************************)
(* Proofs that the block decoder stays within its slices: for every run of *)
(* bytes, every size of buffer and of history, complete and partial, a     *)
(* block that lies apart from the buffer is never read past its end, and   *)
(* nothing is written past the room for the output.                        *)
(***************************************************************************)
EXTENDS BlockDecoder, TLAPS, WellFoundedInduction, SequenceTheorems

-----------------------------------------------------------------------------
(* Where a length ends.                                                    *)

LEMMA LeastExists ==
  ASSUME NEW T \in SUBSET Nat, T # {}
  PROVE  \E x \in T : \A y \in T : x <= y
<1> DEFINE R == OpToRel(<, Nat)
<1>1. IsWellFoundedOn(R, Nat)
  BY NatLessThanWellFounded
<1>2. \A x, y \in Nat : y < x => <<y, x>> \in R
  BY DEF OpToRel
<1> HIDE DEF R
<1>3. PICK x \in T : \A y \in T : ~(<<y, x>> \in R)
  BY <1>1, WFMin
<1>4. ASSUME NEW y \in T PROVE x <= y
  <2>1. x \in Nat /\ y \in Nat
    OBVIOUS
  <2>2. ~(y < x)
    BY <1>2, <1>3, <2>1, Zenon
  <2>3. QED  BY <2>1, <2>2
<1>5. QED  BY <1>4

-----------------------------------------------------------------------------
(* The states.                                                             *)
Number == [ok : BOOLEAN, n : Nat, next : Nat]

(* A call whose block lies apart from the buffer.                          *)
Apart == ~call.inPlace

CallTyped == IsCall(call)

TypeOK ==
  /\ ip \in Nat /\ op \in Nat
  /\ pc \in {"start", "token", "match", "done", "failed"}
  /\ token.code \in 0..15 /\ token.offset \in 0..(Window - 1)
  /\ reach.src \in Int /\ reach.dst \in Int /\ reach.back \in Int

(* Wherever the decoder goes on, there is a byte for it to read; its       *)
(* output never ends past what is wanted.                                  *)
Ahead == /\ call.start <= op /\ op <= oend
         /\ pc = "start" => ip = 0
         /\ pc \in {"token", "match"} => ip < iend

(* How far a match may reach.  A window of history makes every offset one  *)
(* into it; with less, an offset is looked at, but against the prefix      *)
(* counted twice.                                                          *)
Overreach == IF checkOffset THEN call.prefix ELSE 0
ReachesBack == reach.back >= lowPrefix - Overreach

DecoderInv == CallTyped /\ (Apart => TypeOK /\ Ahead /\ WithinSlices /\ ReachesBack)

(* The sizes of a call.                                                    *)
LEMMA SizesType ==
  ASSUME CallTyped
  PROVE  /\ iend \in Nat /\ lowPrefix \in Nat /\ dictSize \in Nat
         /\ call.start \in Nat /\ call.room \in Nat /\ Len(call.ext) \in Nat
         /\ call.prefix \in Nat /\ lowPrefix + call.prefix = call.start
         /\ dictSize = Len(call.ext) + call.prefix
         /\ outputSize \in Nat /\ oend \in Nat /\ call.start <= oend
         /\ oend <= call.start + call.room
<1>1. iend \in Nat
  BY LenProperties DEF CallTyped, IsCall, iend
<1>2. /\ call.prefix \in 0..call.start /\ call.start \in Nat /\ call.room \in Nat
      /\ Len(call.ext) \in Nat /\ call.target \in Nat /\ call.partial \in BOOLEAN
  BY LenProperties DEF CallTyped, IsCall
<1>3. outputSize \in Nat /\ outputSize <= call.room
  BY <1>2 DEF outputSize, Smaller
<1>4. QED  BY <1>1, <1>2, <1>3 DEF lowPrefix, dictSize, oend

(* Bytes, and the one that stands for those which are not there.           *)
LEMMA InputType ==
  ASSUME CallTyped, Apart, NEW m, NEW k \in Nat
  PROVE  /\ Input(m, k) \in 0..256
         /\ k < iend => Input(m, k) \in 0..255
<1>1. call.bytes \in Seq(0..255) /\ iend = Len(call.bytes) /\ iend \in Nat
  BY SizesType DEF CallTyped, IsCall, iend
<1>2. CASE k < iend
  <2>1. Input(m, k) = call.bytes[k + 1] /\ k + 1 \in 1..Len(call.bytes)
    BY <1>1, <1>2 DEF Input, Apart
  <2>2. QED  BY <1>1, <2>1, ElementOfSeq
<1>3. CASE ~(k < iend)
  <2>1. k >= iend
    BY <1>1, <1>3
  <2>2. Input(m, k) = 256
    BY <2>1, Zenon DEF Input, Stale
  <2>3. QED  BY <1>3, <2>2
<1>4. QED  BY <1>2, <1>3

LEMMA OffsetType ==
  ASSUME CallTyped, Apart, NEW m, NEW k \in Nat
  PROVE  U16(m, k) \in 0..(Window - 1)
<1> DEFINE a == Input(m, k)
           b == Input(m, k + 1)
           v == a + 256 * b
<1>1. a \in 0..256 /\ b \in 0..256
  BY InputType
<1> HIDE DEF a, b
<1>2. v \in Nat
  BY <1>1
<1>3. Window \in Nat \ {0}
  BY WindowAssumption
<1> HIDE DEF v
<1>4. v \in Nat => v % Window \in 0..(Window - 1)
  BY <1>3
<1>5. QED  BY <1>2, <1>4 DEF U16, v, a, b

(* A length that goes on in bytes stays within the limit it is given.      *)
LEMMA ReadVariableLengthType ==
  ASSUME CallTyped, Apart, NEW m, NEW k \in Nat, NEW limit \in Nat
  PROVE  LET l == ReadVariableLength(m, k, limit) IN
         /\ l \in Number
         /\ l.ok => k < l.next /\ l.next <= limit
         /\ ~l.ok => l.next = Larger(k, limit)
<1> DEFINE ends == {e \in k..(limit - 1) : Input(m, e) # 255}
           least == CHOOSE x \in ends : \A y \in ends : x <= y
           l == ReadVariableLength(m, k, limit)
<1>1. CASE ends = {}
  <2>1. l = [ok |-> FALSE, n |-> 0, next |-> Larger(k, limit)]
    BY <1>1 DEF ReadVariableLength
  <2>2. QED  BY <2>1 DEF Larger, Number
<1>2. CASE ends # {}
  <2>1. ends \in SUBSET Nat
    OBVIOUS
  <2>2. \E x \in ends : \A y \in ends : x <= y
    <3> HIDE DEF ends
    <3>1. QED  BY <1>2, <2>1, LeastExists
  <2>3. least \in ends
    BY <2>2
  <2>4. l = [ok |-> TRUE, n |-> 255 * (least - k) + Input(m, least), next |-> least + 1]
    BY <1>2 DEF ReadVariableLength
  <2> HIDE DEF least
  <2>5. least \in Nat /\ k <= least /\ least <= limit - 1
    BY <2>3
  <2>6. Input(m, least) \in 0..256
    BY <2>5, InputType
  <2>7. 255 * (least - k) + Input(m, least) \in Nat
    BY <2>5, <2>6
  <2>8. QED  BY <2>4, <2>5, <2>7 DEF Number
<1>3. QED  BY <1>1, <1>2

-----------------------------------------------------------------------------
(* What a step reads first.                                                *)

(* The token, and how many literals follow it.                             *)
LEMMA TokenType ==
  ASSUME CallTyped, Apart, TypeOK, Ahead, pc = "token"
  PROVE  Token \in 0..255 /\ Literals \in 0..15 /\ Token % 16 \in 0..15
<1>1. Token \in 0..255
  BY InputType DEF Token, TypeOK, Ahead
<1> HIDE DEF Token
<1>2. QED  BY <1>1 DEF Literals

LEMMA LiteralLengthType ==
  ASSUME CallTyped, Apart, NEW nibble \in 0..15, NEW k \in Nat, k <= iend
  PROVE  LET l == LiteralLength(nibble, k) IN
         l \in Number /\ l.next <= iend /\ k <= l.next
<1> DEFINE limit == SatSub(iend, RUN_MASK)
           r == ReadVariableLength(mem, k, limit)
<1>1. iend \in Nat /\ limit \in Nat /\ limit <= iend
  BY SizesType DEF SatSub, Larger, RUN_MASK
<1>2. CASE nibble # RUN_MASK
  <2>1. LiteralLength(nibble, k) = [ok |-> TRUE, n |-> nibble, next |-> k]
    BY <1>2 DEF LiteralLength
  <2>2. QED  BY <2>1 DEF Number
<1>3. CASE nibble = RUN_MASK
  <2>1. LiteralLength(nibble, k) = [r EXCEPT !.n = @ + nibble]
    BY <1>3 DEF LiteralLength
  <2> HIDE DEF limit
  <2>2. /\ r \in Number
        /\ r.ok => k < r.next /\ r.next <= limit
        /\ ~r.ok => r.next = Larger(k, limit)
    BY <1>1, ReadVariableLengthType
  <2> HIDE DEF r
  <2>3. LiteralLength(nibble, k) = [ok |-> r.ok, n |-> r.n + nibble, next |-> r.next]
    BY <2>1, <2>2 DEF Number
  <2>4. r.next \in Nat /\ r.n + nibble \in Nat /\ r.ok \in BOOLEAN
    BY <2>2 DEF Number
  <2>5. r.next <= iend /\ k <= r.next
    BY <1>1, <2>2, <2>4 DEF Larger
  <2>6. QED  BY <2>3, <2>4, <2>5 DEF Number
<1>4. QED  BY <1>2, <1>3

LEMMA MatchLengthType ==
  ASSUME CallTyped, Apart, TypeOK, Ahead, pc = "match"
  PROVE  /\ MatchLength \in Number /\ MatchLength.next <= iend
         /\ MatchLength.ok => MatchLength.n >= MINMATCH /\ MatchLength.next < iend
<1> DEFINE limit == SatSub(iend, 1 + LASTLITERALS)
           r == ReadVariableLength(mem, ip, limit)
<1>1. /\ iend \in Nat /\ limit \in Nat /\ limit <= iend /\ (limit > 0 => limit < iend)
      /\ ip \in Nat /\ ip < iend /\ token.code \in 0..15
  <2>1. iend \in Nat
    BY SizesType
  <2>2. limit \in Nat /\ limit <= iend /\ (limit > 0 => limit < iend)
    BY <2>1 DEF SatSub, Larger, LASTLITERALS
  <2>3. QED  BY <2>1, <2>2 DEF TypeOK, Ahead
<1>2. CASE token.code # ML_MASK
  <2>1. MatchLength = [ok |-> TRUE, n |-> token.code + MINMATCH, next |-> ip]
    BY <1>2 DEF MatchLength
  <2>2. QED  BY <1>1, <2>1 DEF Number, MINMATCH
<1>3. CASE token.code = ML_MASK
  <2>1. MatchLength = [r EXCEPT !.n = @ + token.code + MINMATCH]
    BY <1>3 DEF MatchLength
  <2> HIDE DEF limit
  <2>2. /\ r \in Number
        /\ r.ok => ip < r.next /\ r.next <= limit
        /\ ~r.ok => r.next = Larger(ip, limit)
    BY <1>1, ReadVariableLengthType
  <2> HIDE DEF r
  <2>3. MatchLength = [ok |-> r.ok, n |-> r.n + token.code + MINMATCH, next |-> r.next]
    BY <2>1, <2>2 DEF Number
  <2>4. r.next \in Nat /\ r.n + token.code + MINMATCH \in Nat /\ r.ok \in BOOLEAN
        /\ r.n + token.code + MINMATCH >= MINMATCH
    BY <1>1, <2>2 DEF Number, MINMATCH
  <2>5. r.next <= iend /\ (r.ok => r.next < iend)
    BY <1>1, <2>2, <2>4 DEF Larger
  <2>6. QED  BY <2>3, <2>4, <2>5 DEF Number
<1>4. QED  BY <1>2, <1>3

(* Words overshoot by less than a word, or by the whole of one.            *)
LEMMA WordsExtent ==
  ASSUME NEW n \in Nat
  PROVE  /\ Wild * Words(n) \in Nat /\ n <= Wild * Words(n)
         /\ Wild * Words(n) <= n + Wild
         /\ n > 0 => Wild * Words(n) <= n + Wild - 1
         /\ n <= 16 => Wild * Words(n) <= 16
BY DEF Words, Wild, Larger

LEMMA WildExtentType ==
  ASSUME Apart, NEW k \in Nat, NEW d \in Nat, NEW n \in Nat
  PROVE  /\ WildExtent(k, d, n) \in Nat /\ n <= WildExtent(k, d, n)
         /\ WildExtent(k, d, n) <= n + Wild
         /\ n <= 16 => WildExtent(k, d, n) <= 16
<1>1. /\ Wild * Words(n) \in Nat /\ n <= Wild * Words(n)
      /\ Wild * Words(n) <= n + Wild
      /\ n <= 16 => Wild * Words(n) <= 16
  BY WordsExtent
<1>2. QED  BY <1>1 DEF WildExtent, Wild

LEMMA MatchExtentType ==
  ASSUME NEW d, NEW s, NEW n \in Nat, n > 0
  PROVE  MatchExtent(d, s, n) \in Nat /\ MatchExtent(d, s, n) <= n + Wild - 1
<1>1. n > 0 => Wild * Words(n) <= n + Wild - 1 /\ Wild * Words(n) \in Nat
  BY WordsExtent
<1>2. QED  BY <1>1 DEF MatchExtent, Wild

-----------------------------------------------------------------------------
(* The steps.                                                              *)

(* What a step must leave for the decoder to be within its slices.         *)
LEMMA StaysWithin ==
  ASSUME DecoderInv, Apart, call' = call, NEW src \in Int, NEW dst \in Int, NEW back \in Int,
         Reached(src, dst, back), src <= iend, dst <= oend, back >= lowPrefix - Overreach,
         ip' \in Nat, op' \in Nat, call.start <= op', op' <= oend,
         pc' \in {"token", "match", "done", "failed"},
         pc' \in {"token", "match"} => ip' < iend,
         token'.code \in 0..15, token'.offset \in 0..(Window - 1)
  PROVE  DecoderInv'
<1>1. reach' = [src |-> src, dst |-> dst, back |-> back]
  BY DEF Reached
<1>2. /\ iend' = iend /\ oend' = oend /\ lowPrefix' = lowPrefix /\ Overreach' = Overreach
      /\ Apart' = Apart /\ CallTyped' = CallTyped
  BY DEF iend, oend, outputSize, lowPrefix, Overreach, checkOffset, dictSize, Apart, CallTyped
<1>3. TypeOK'
  BY <1>1 DEF TypeOK
<1>4. Ahead'
  BY <1>2 DEF Ahead
<1>5. oend \in Int /\ oend <= call.start + call.room /\ call.start \in Nat /\ call.room \in Nat
  BY SizesType DEF DecoderInv
<1>6. WithinSlices'
  BY <1>1, <1>2, <1>5 DEF WithinSlices, Apart
<1>7. ReachesBack'
  BY <1>1, <1>2 DEF ReachesBack
<1>8. QED  BY <1>2, <1>3, <1>4, <1>6, <1>7 DEF DecoderInv

(* The values a step starts from.                                          *)
LEMMA BeforeStep ==
  ASSUME DecoderInv, Apart
  PROVE  /\ iend \in Nat /\ oend \in Nat /\ lowPrefix \in Nat /\ Overreach \in Nat
         /\ call.start \in Nat /\ lowPrefix <= call.start
         /\ ip \in Nat /\ op \in Nat /\ call.start <= op /\ op <= oend
         /\ token.code \in 0..15 /\ token.offset \in 0..(Window - 1)
         /\ Window \in Nat
BY SizesType, WindowAssumption DEF DecoderInv, TypeOK, Ahead, Overreach

(* Failing takes nothing.                                                  *)
LEMMA FailStays ==
  ASSUME DecoderInv, Apart, NEW at \in Nat, at <= iend, Fail(at), Reached(at, 0, call.start)
  PROVE  DecoderInv'
<1>1. pc' = "failed" /\ ip' = at /\ call' = call /\ op' = op /\ token' = token
  BY DEF Fail
<1>2. /\ iend \in Nat /\ oend \in Nat /\ lowPrefix \in Nat /\ Overreach \in Nat
      /\ call.start \in Nat /\ lowPrefix <= call.start
      /\ op \in Nat /\ call.start <= op /\ op <= oend
      /\ token.code \in 0..15 /\ token.offset \in 0..(Window - 1)
  BY BeforeStep
<1>3. 0 <= oend /\ call.start >= lowPrefix - Overreach
  BY <1>2
<1>4. QED  BY <1>1, <1>2, <1>3, StaysWithin

LEMMA StartStays ==
  ASSUME DecoderInv, Apart, Start PROVE DecoderInv'
<1>1. /\ pc = "start" /\ UNCHANGED <<call, mem, ip, op, token>>
      /\ pc' \in {"token", "done", "failed"} /\ (pc' = "token" => iend # 0)
      /\ \/ Reached(iend, 0, call.start) /\ pc' \in {"done", "failed"}
         \/ Reached(0, 0, call.start)
  BY DEF Start, Untouched
<1>2. /\ iend \in Nat /\ oend \in Nat /\ lowPrefix \in Nat /\ Overreach \in Nat
      /\ call.start \in Nat /\ lowPrefix <= call.start
      /\ op \in Nat /\ call.start <= op /\ op <= oend /\ ip \in Nat
      /\ token.code \in 0..15 /\ token.offset \in 0..(Window - 1)
  BY BeforeStep
<1>3. 0 <= oend /\ call.start >= lowPrefix - Overreach /\ 0 <= iend
  BY <1>2
<1>4. pc = "start" => ip = 0
  BY DEF DecoderInv, Ahead
<1>5. pc' \in {"token", "match"} => ip' < iend
  BY <1>1, <1>2, <1>4
<1>6. CASE Reached(iend, 0, call.start)
  BY <1>1, <1>2, <1>3, <1>5, <1>6, StaysWithin
<1>7. CASE Reached(0, 0, call.start)
  BY <1>1, <1>2, <1>3, <1>5, <1>7, StaysWithin
<1>8. QED  BY <1>1, <1>6, <1>7

(* Without an external part, and with a window's history or the check, no  *)
(* match reaches further back than Overreach says.                         *)
LEMMA MatchBack ==
  ASSUME DecoderInv, Apart, NEW offset \in 0..(Window - 1), ~TooFar(offset)
  PROVE  At(offset) + Len(call.ext) >= lowPrefix - Overreach
<1>1. /\ op \in Nat /\ call.start <= op /\ call.start \in Nat /\ Window \in Nat
      /\ lowPrefix \in Nat /\ offset \in Nat /\ offset < Window
  BY BeforeStep, WindowAssumption
<1>2. /\ call.prefix \in Nat /\ lowPrefix + call.prefix = call.start
      /\ dictSize = Len(call.ext) + call.prefix /\ Len(call.ext) \in Nat
  BY SizesType DEF DecoderInv
<1>3. CASE checkOffset
  BY <1>1, <1>2, <1>3 DEF TooFar, At, Overreach
<1>4. CASE ~checkOffset
  BY <1>1, <1>2, <1>4 DEF checkOffset, At, Overreach
<1>5. QED  BY <1>3, <1>4

LEMMA ShortcutStays ==
  ASSUME DecoderInv, Apart, Shortcut PROVE DecoderInv'
<1> DEFINE n      == Literals
           m      == WildCopyTo(mem, ip + 1, op, n)
           o      == op + n
           k      == ip + 1 + n
           code   == Token % 16
           offset == U16(m, k)
           short  == ShortMatch(o, code, offset)
           extent == WildExtent(ip + 1, op, n)
           src    == Larger(k + OffsetSize, ip + 1 + extent)
           dst    == op + extent
<1>1. /\ pc = "token" /\ Roomy(n) /\ call' = call /\ ip' = k + OffsetSize
      /\ IF short
         THEN /\ op' = o + code + MINMATCH
              /\ Reached(src, Larger(dst, o + 18), o - offset) /\ UNCHANGED <<pc, token>>
         ELSE /\ op' = o
              /\ pc' = "match" /\ token' = [code |-> code, offset |-> offset]
              /\ Reached(src, dst, call.start)
  BY DEF Shortcut
<1>2. /\ iend \in Nat /\ oend \in Nat /\ lowPrefix \in Nat /\ Overreach \in Nat
      /\ call.start \in Nat /\ lowPrefix <= call.start
      /\ op \in Nat /\ call.start <= op /\ op <= oend /\ ip \in Nat
      /\ token.code \in 0..15 /\ token.offset \in 0..(Window - 1)
      /\ Window \in Nat
  BY BeforeStep
<1>3. n \in 0..14 /\ code \in 0..15
  BY <1>1, TokenType DEF DecoderInv, Roomy, RUN_MASK
<1>4. ip + 17 < iend /\ op + 32 <= oend
  BY <1>1, <1>2 DEF Roomy, SHORT_IN_MARGIN, SHORT_OUT_MARGIN
<1>5. offset \in 0..(Window - 1)
  <2>1. k \in Nat
    BY <1>2, <1>3
  <2> HIDE DEF k, m
  <2>2. QED  BY <2>1, OffsetType DEF DecoderInv
<1>6. extent \in Nat /\ extent <= 16
  <2>1. ip + 1 \in Nat /\ n \in Nat /\ n <= 16
    BY <1>2, <1>3
  <2> HIDE DEF n
  <2>2. QED  BY <1>2, <2>1, WildExtentType
<1> HIDE DEF n, code, offset, extent
<1>7. /\ src \in Nat /\ src <= iend /\ dst \in Nat /\ dst <= oend
      /\ k + OffsetSize \in Nat /\ k + OffsetSize < iend
      /\ o \in Nat /\ call.start <= o /\ o + 18 <= oend
      /\ Larger(dst, o + 18) \in Nat /\ Larger(dst, o + 18) <= oend
  BY <1>2, <1>3, <1>4, <1>6 DEF Larger, OffsetSize
<1>8. CASE short
  <2>1. code <= 14 /\ (call.prefix >= Window \/ o - offset >= lowPrefix)
    BY <1>3, <1>8 DEF ShortMatch, ML_MASK
  <2>2. call.prefix \in Nat /\ lowPrefix + call.prefix = call.start
    BY SizesType DEF DecoderInv
  <2>3. o - offset >= lowPrefix - Overreach /\ o - offset \in Int
    BY <1>2, <1>5, <1>7, <2>1, <2>2
  <2>4. op' = o + code + MINMATCH /\ Reached(src, Larger(dst, o + 18), o - offset)
        /\ pc' = "token" /\ token' = token
    BY <1>1, <1>8
  <2> HIDE DEF short, src, dst, k, o
  <2>5. op' \in Nat /\ call.start <= op' /\ op' <= oend
    BY <1>2, <1>3, <1>7, <2>1, <2>4 DEF MINMATCH
  <2>6. QED  BY <1>1, <1>2, <1>7, <2>3, <2>4, <2>5, StaysWithin
<1>9. CASE ~short
  <2>1. /\ op' = o /\ pc' = "match" /\ token' = [code |-> code, offset |-> offset]
        /\ Reached(src, dst, call.start)
    BY <1>1, <1>9
  <2> HIDE DEF short, src, dst, k, o
  <2>2. o <= oend /\ call.start >= lowPrefix - Overreach
    BY <1>2, <1>7
  <2>3. QED  BY <1>1, <1>2, <1>3, <1>5, <1>7, <2>1, <2>2, StaysWithin
<1>10. QED  BY <1>8, <1>9

(* The literals of a sequence, by each of its ways.                        *)
LEMMA LiteralsStay ==
  ASSUME DecoderInv, Apart,
         LiteralsBroken \/ PlainLiterals \/ LastLiterals \/ PartialLiterals
  PROVE  DecoderInv'
<1> DEFINE l == LiteralLength(Literals, ip + 1)
           len == l.n
           next == l.next
           code == Token % 16
<1>1. pc = "token" /\ call' = call
  BY DEF LiteralsBroken, PlainLiterals, LastLiterals, PartialLiterals, Fail
<1>2. /\ iend \in Nat /\ oend \in Nat /\ lowPrefix \in Nat /\ Overreach \in Nat
      /\ call.start \in Nat /\ lowPrefix <= call.start
      /\ op \in Nat /\ call.start <= op /\ op <= oend /\ ip \in Nat
      /\ token.code \in 0..15 /\ token.offset \in 0..(Window - 1)
  BY BeforeStep
<1>3. Literals \in 0..15 /\ code \in 0..15
  BY <1>1, TokenType DEF DecoderInv
<1>4. l \in Number /\ next <= iend
  <2>1. ip + 1 \in Nat /\ ip + 1 <= iend
    BY <1>1, <1>2 DEF DecoderInv, Ahead
  <2>2. QED  BY <1>3, <2>1, LiteralLengthType DEF DecoderInv
<1> HIDE DEF l, code
<1>5. len \in Nat /\ next \in Nat
  BY <1>4 DEF Number
<1>a. call.start >= lowPrefix - Overreach
  BY <1>2
<1>6. CASE LiteralsBroken
  <2>1. Fail(next) /\ Reached(next, 0, call.start)
    BY <1>6 DEF LiteralsBroken, l
  <2> HIDE DEF next
  <2>2. QED  BY <1>4, <1>5, <2>1, FailStays
<1>7. CASE PlainLiterals
  <2> DEFINE k == next + len
             extent == WildExtent(next, op, len)
             src == Larger(k + OffsetSize, next + extent)
             dst == op + extent
             offset == U16(mem', k)
  <2>1. /\ ~Restricted(l) /\ op' = op + len
        /\ pc' = "match" /\ token' = [code |-> code, offset |-> offset]
        /\ ip' = k + OffsetSize
        /\ Reached(src, dst, call.start)
    BY <1>7 DEF PlainLiterals, ThenMatch, l, code
  <2>2. k \in Nat /\ op + len + 12 <= oend /\ k + 8 <= iend
    BY <1>2, <1>5, <2>1 DEF Restricted, MFLIMIT, LASTLITERALS
  <2>3. offset \in 0..(Window - 1)
    <3> HIDE DEF k
    <3>1. QED  BY <2>2, OffsetType DEF DecoderInv
  <2> HIDE DEF len, next
  <2>4. extent \in Nat /\ extent <= len + Wild
    BY <1>2, <1>5, WildExtentType
  <2> HIDE DEF extent, offset
  <2>5. /\ src \in Int /\ src <= iend /\ dst \in Int /\ dst <= oend
        /\ k + OffsetSize \in Nat /\ k + OffsetSize < iend
        /\ op + len \in Nat /\ call.start <= op + len /\ op + len <= oend
    BY <1>2, <1>5, <2>2, <2>4 DEF Larger, OffsetSize, Wild
  <2> HIDE DEF src, dst, k
  <2>6. QED  BY <1>1, <1>2, <1>3, <1>a, <2>1, <2>3, <2>5, StaysWithin
<1>8. CASE LastLiterals
  <2>1. CASE ~Ends(l)
    <3>1. Fail(next) /\ Reached(next, 0, call.start)
      BY <1>8, <2>1 DEF LastLiterals, l
    <3> HIDE DEF next
    <3>2. QED  BY <1>4, <1>5, <3>1, FailStays
  <2>2. CASE Ends(l)
    <3>1. /\ op' = op + len /\ ip' = iend /\ pc' = "done"
          /\ Reached(iend, op + len, call.start) /\ UNCHANGED token
      BY <1>8, <2>2 DEF LastLiterals, l
    <3>2. op + len <= oend
      BY <2>2 DEF Ends
    <3> HIDE DEF len
    <3>3. op + len \in Nat /\ call.start <= op + len /\ iend <= iend
      BY <1>2, <1>5
    <3>4. QED  BY <1>1, <1>2, <1>a, <3>1, <3>2, <3>3, StaysWithin
  <2>3. QED  BY <2>1, <2>2
<1>9. CASE PartialLiterals
  <2> DEFINE n == PartialLength(l)
             k == next + n
             offset == U16(mem', k)
  <2>1. /\ op' = op + n
        /\ IF Stops(op + n, k)
           THEN /\ ip' = k /\ pc' = "done" /\ UNCHANGED token
                /\ Reached(k, op + n, call.start)
           ELSE /\ pc' = "match" /\ token' = [code |-> code, offset |-> offset]
                /\ ip' = k + OffsetSize
                /\ Reached(k + OffsetSize, op + n, call.start)
    BY <1>9 DEF PartialLiterals, ThenMatch, l, code
  <2>2. n = Smaller(Smaller(len, iend - next), oend - op)
    BY DEF PartialLength
  <2> HIDE DEF n, len, next
  <2>3. n \in Nat /\ next + n <= iend /\ op + n <= oend
    BY <1>2, <1>4, <1>5, <2>2 DEF Smaller
  <2>4. /\ k \in Nat /\ k <= iend /\ op + n \in Nat /\ call.start <= op + n
    BY <1>2, <1>5, <2>3
  <2> HIDE DEF k
  <2>5. offset \in 0..(Window - 1)
    BY <2>4, OffsetType DEF DecoderInv
  <2> HIDE DEF offset
  <2>6. CASE Stops(op + n, k)
    BY <1>1, <1>2, <1>a, <2>1, <2>3, <2>4, <2>6, StaysWithin
  <2>7. CASE ~Stops(op + n, k)
    <3>1. k + OffsetSize \in Nat /\ k + OffsetSize < iend
      BY <1>2, <2>4, <2>7 DEF Stops, SatSub, Larger, OffsetSize
    <3>2. k + OffsetSize <= iend
      BY <1>2, <3>1
    <3>3. QED  BY <1>1, <1>2, <1>3, <1>a, <2>1, <2>3, <2>4, <2>5, <2>7, <3>1, <3>2, StaysWithin
  <2>8. QED  BY <2>6, <2>7
<1>10. QED  BY <1>6, <1>7, <1>8, <1>9

(* A match, by each of its ways.                                           *)
LEMMA MatchStays ==
  ASSUME DecoderInv, Apart,
         MatchRefused \/ ExternalMatch \/ PartialMatch \/ MatchTooLong \/ PlainMatch
  PROVE  DecoderInv'
<1> DEFINE l == MatchLength
           len == l.n
           next == l.next
           s == At(token.offset)
<1>1. pc = "match" /\ call' = call
  BY DEF MatchRefused, ExternalMatch, PartialMatch, MatchTooLong, PlainMatch, Fail, Copied
<1>2. /\ iend \in Nat /\ oend \in Nat /\ lowPrefix \in Nat /\ Overreach \in Nat
      /\ call.start \in Nat /\ lowPrefix <= call.start
      /\ op \in Nat /\ call.start <= op /\ op <= oend
      /\ token.code \in 0..15 /\ token.offset \in 0..(Window - 1)
      /\ Window \in Nat
  BY BeforeStep
<1>3. l \in Number /\ next <= iend /\ (l.ok => len >= MINMATCH /\ next < iend)
  BY <1>1, MatchLengthType DEF DecoderInv
<1> HIDE DEF l
<1>4. len \in Nat /\ next \in Nat
  BY <1>3 DEF Number
<1>5. /\ Len(call.ext) \in Nat /\ (call.ext = <<>> => Len(call.ext) = 0)
  BY SizesType DEF DecoderInv
<1>6. s \in Int
  BY <1>2 DEF At
<1>7. ASSUME Fail(next), Reached(next, 0, call.start) PROVE DecoderInv'
  <2> HIDE DEF next
  <2>1. QED  BY <1>3, <1>4, <1>7, FailStays
<1>8. ~TooFar(token.offset) => s + Len(call.ext) >= lowPrefix - Overreach
  BY <1>2, MatchBack
<1>9. ~TooFar(token.offset) /\ ~InExternal(token.offset) => s >= lowPrefix - Overreach
  BY <1>2, <1>5, <1>6, <1>8 DEF InExternal
<1>10. CASE MatchRefused
  BY <1>7, <1>10 DEF MatchRefused, l
<1>11. CASE MatchTooLong
  BY <1>7, <1>11 DEF MatchTooLong, l
<1>12. CASE ExternalMatch
  <2> DEFINE n == ExternalLength(l)
             back == Smaller(lowPrefix, s + Len(call.ext))
  <2>1. CASE op + len > SatSub(oend, LASTLITERALS) /\ ~call.partial
    BY <1>7, <1>12, <2>1 DEF ExternalMatch, l
  <2>2. CASE ~(op + len > SatSub(oend, LASTLITERALS) /\ ~call.partial)
    <3>1. /\ op' = op + n /\ ip' = next /\ pc' = "token" /\ token' = token
          /\ Reached(next, op + n, back) /\ l.ok /\ ~TooFar(token.offset)
      BY <1>12, <2>2 DEF ExternalMatch, Copied, l
    <3>2. n \in Nat /\ op + n <= oend
      BY <1>2, <1>4, <2>2 DEF ExternalLength, SatSub, Smaller, Larger, LASTLITERALS
    <3> HIDE DEF n
    <3>3. back \in Int /\ back >= lowPrefix - Overreach
      BY <1>2, <1>5, <1>6, <1>8, <3>1 DEF Smaller
    <3> HIDE DEF back
    <3>4. op + n \in Nat /\ call.start <= op + n /\ next < iend
      BY <1>2, <1>3, <3>1, <3>2
    <3> HIDE DEF next
    <3>5. QED  BY <1>1, <1>2, <1>3, <1>4, <3>1, <3>2, <3>3, <3>4, StaysWithin
  <2>3. QED  BY <2>1, <2>2
<1>13. CASE PartialMatch
  <2> DEFINE n == Smaller(len, oend - op)
  <2>1. /\ l.ok /\ ~TooFar(token.offset) /\ ~InExternal(token.offset)
        /\ op' = op + n /\ ip' = next /\ token' = token
        /\ pc' \in {"done", "token"}
        /\ Reached(next, op + n, s)
    BY <1>13 DEF PartialMatch, l
  <2>2. n \in Nat /\ op + n <= oend
    BY <1>2, <1>4 DEF Smaller
  <2> HIDE DEF n
  <2>3. op + n \in Nat /\ call.start <= op + n /\ next < iend
    BY <1>2, <1>3, <2>1, <2>2
  <2> HIDE DEF next, s
  <2>4. QED  BY <1>1, <1>2, <1>3, <1>4, <1>6, <1>9, <2>1, <2>2, <2>3, StaysWithin
<1>14. CASE PlainMatch
  <2>1. PICK dst \in {op + len, op + MatchExtent(op, s, len)} :
           /\ l.ok /\ ~TooFar(token.offset) /\ ~InExternal(token.offset)
           /\ op + len <= MatchEnd
           /\ dst = op + len \/ Slack(len)
           /\ op' = op + len /\ ip' = next /\ pc' = "token" /\ token' = token
           /\ Reached(next, dst, s)
    BY <1>14 DEF PlainMatch, Copied, l
  <2>2. op + len <= oend
    BY <1>2, <1>4, <2>1 DEF MatchEnd, SatSub, Larger, LASTLITERALS
  <2>3. len > 0 /\ next < iend
    BY <1>3, <1>4, <2>1 DEF MINMATCH
  <2> HIDE DEF len, s
  <2>4. MatchExtent(op, s, len) \in Nat /\ MatchExtent(op, s, len) <= len + Wild - 1
    BY <1>4, <2>3, MatchExtentType
  <2>5. dst \in Int /\ dst <= oend
    BY <1>2, <1>4, <2>1, <2>2, <2>4 DEF Slack, MATCH_SAFEGUARD_DISTANCE, Wild, MINMATCH
  <2>6. op + len \in Nat /\ call.start <= op + len
    BY <1>2, <1>4
  <2> HIDE DEF next
  <2>7. QED  BY <1>1, <1>2, <1>3, <1>4, <1>6, <1>9, <2>1, <2>2, <2>3, <2>5, <2>6, StaysWithin
<1>15. QED  BY <1>10, <1>11, <1>12, <1>13, <1>14

-----------------------------------------------------------------------------
LEMMA DecoderInvariant == Spec => []DecoderInv
<1>1. Init => DecoderInv
  <2> SUFFICES ASSUME NEW c \in Calls, StartOf(c) PROVE DecoderInv
    BY DEF Init
  <2>1. /\ call = c /\ ip = 0 /\ op = call.start /\ pc = "start"
        /\ token = [code |-> 0, offset |-> 0]
        /\ reach = [src |-> 0, dst |-> 0, back |-> call.start]
    BY DEF StartOf
  <2>2. CallTyped
    BY <2>1, CallsAssumption DEF CallTyped
  <2>3. /\ iend \in Nat /\ oend \in Nat /\ call.start <= oend
        /\ lowPrefix \in Nat /\ lowPrefix <= call.start /\ call.prefix \in Nat
        /\ call.start \in Nat /\ call.room \in Nat
    BY <2>2, SizesType
  <2>4. TypeOK
    BY <2>1, <2>3, WindowAssumption DEF TypeOK
  <2>5. Ahead
    BY <2>1, <2>3 DEF Ahead
  <2>6. Apart => WithinSlices
    BY <2>1, <2>3 DEF WithinSlices, Apart
  <2>7. ReachesBack
    BY <2>1, <2>3 DEF ReachesBack, Overreach
  <2>8. QED  BY <2>2, <2>4, <2>5, <2>6, <2>7 DEF DecoderInv
<1>2. DecoderInv /\ [Next]_vars => DecoderInv'
  <2> SUFFICES ASSUME DecoderInv, [Next]_vars PROVE DecoderInv'
    OBVIOUS
  <2>1. CASE UNCHANGED vars
    BY <2>1
       DEF vars, DecoderInv, CallTyped, Apart, TypeOK, Ahead, WithinSlices, ReachesBack,
           iend, oend, outputSize, lowPrefix, Overreach, checkOffset, dictSize
  <2>2. CASE Step /\ Apart
    BY <2>2, StartStays, ShortcutStays, LiteralsStay, MatchStays DEF Step
  <2>3. CASE Step /\ ~Apart
    <3>1. call' = call
      BY <2>3 DEF Step, Start, Shortcut, LiteralsBroken, PlainLiterals, LastLiterals,
                  PartialLiterals, MatchRefused, ExternalMatch, PartialMatch, MatchTooLong,
                  PlainMatch, Fail, Copied
    <3>2. QED  BY <2>3, <3>1 DEF DecoderInv, Apart, CallTyped
  <2>4. QED  BY <2>1, <2>2, <2>3 DEF Next, Finished
<1>3. QED  BY <1>1, <1>2, PTL DEF Spec

(* A block that lies apart from the buffer is never read past its end, and *)
(* its output never written past its room: the margins of the fast paths   *)
(* cover the words they copy too much (block.rs 1662-1908).                *)
THEOREM SlicesKept == Spec => [](Apart => WithinSlices)
<1>1. DecoderInv => (Apart => WithinSlices)
  BY DEF DecoderInv
<1>2. QED  BY <1>1, DecoderInvariant, PTL

(* And no match is taken from before the history, when the history is a    *)
(* whole window or none of it is a prefix; otherwise a match may reach as  *)
(* far before the prefix as it is long (block.rs 1606-1609, 1819-1834).    *)
THEOREM MemorySafe ==
  Spec => [](Apart => IF call.prefix = 0 \/ ~checkOffset THEN InBounds
                      ELSE reach.back >= lowPrefix - call.prefix)
<1>1. DecoderInv => (Apart => IF call.prefix = 0 \/ ~checkOffset THEN InBounds
                              ELSE reach.back >= lowPrefix - call.prefix)
  <2> SUFFICES ASSUME DecoderInv, Apart
               PROVE  IF call.prefix = 0 \/ ~checkOffset THEN InBounds
                      ELSE reach.back >= lowPrefix - call.prefix
    OBVIOUS
  <2>1. WithinSlices /\ reach.back >= lowPrefix - Overreach /\ lowPrefix \in Nat
    BY SizesType DEF DecoderInv, ReachesBack
  <2>2. QED  BY <2>1 DEF Overreach, InBounds, MatchInHistory
<1>2. QED  BY <1>1, DecoderInvariant, PTL
==============================================================================
