------------------------------ MODULE MCHCWrite ------------------------------
(***************************************************************************)
(* What src/hc.rs does with the matches it finds: the lazy and the optimal *)
(* parser, the writing of what they chose under the three limits, and      *)
(* compress_mid, which does all of it at once.  A behaviour is that of one *)
(* of them.  Inputs are a few tens of bytes for the parsers; sizes around  *)
(* every step of a length for the writing; a window of sixteen bytes and   *)
(* tables of seven slots for compress_mid, so that entries collide and get *)
(* out of reach.                                                           *)
(***************************************************************************)
EXTENDS HCOptimal, SequencesExt

VARIABLES
  part,                                \* "optimal", "lazy", "output", "mid"
  m1, start0, m0, start2, m2,                             \* HCParser's
  call, op, lastStart, result,                            \* HCOutput's
  base, srcOff, prefixIdx, dict, dictIdx, ctx, hash4, hash8, seqs, last,
  blocks                                                  \* MidCompressor's

ownOptimal == <<settings, opt, last_match_pos, current, selected_end, relative_pos>>
ownLazy == <<m1, start0, m0, start2, m2>>
ownOutput == <<call, op, lastStart, result>>
ownMid == <<base, srcOff, prefixIdx, dict, dictIdx, ctx, hash4, hash8, seqs, last, blocks>>
mcVars == <<part, vars, ownLazy, ownOutput, ownMid>>

(* A short optimal length, so that matches are longer and shorter than it. *)
Lazy == INSTANCE HCParser WITH InputEnd <- 26, OptimalML <- 7
ASSUME Lazy!InputAssumption /\ Lazy!OptimalAssumption

-----------------------------------------------------------------------------
(* Writing: around 15 and 19, one and two bytes of 255, a pair and a third.*)
Bound(n) == n + n \div 255 + 16
Room(n) ==
  {Bound(n) - 1, Bound(n), Bound(n) + 9}
  \cup IF n < 100 THEN 1..45 ELSE {9, 15, 25, 36} \cup 268..296 \cup 528..548
Calls ==
  UNION {[limit : {"NotLimited", "LimitedOutput", "FillOutput"}, cap : Room(n), iend : {n}] :
           n \in {1, 12, 13, 17, 18, 24, 34, 300, 560, 830, 2000}}
Tried(n) ==
  IF n < 100 THEN {0, 1, 6, 14, 15, 16} \X {4, 5, 7, 18, 19}
  ELSE IF n > 1000 THEN {0, 6, 15} \X {1900}
  ELSE ({0, 15} \X {273, 274, 528, 529, 783, 784}) \cup ({200, 269, 270, 271, 524, 525} \X {4, 19, 274})

Output == INSTANCE HCOutput
ASSUME Output!CallsAssumption /\ Output!TriedAssumption

-----------------------------------------------------------------------------
(* compress_mid.                                                           *)
Slots == 0..6
DistanceMax == 15
FourHash(b) == (b[1] + 2 * b[2] + 3 * b[3] + 5 * b[4]) % 7
SevenHash(b) == (b[1] + 2 * b[2] + 3 * b[3] + 4 * b[4] + b[5] + 3 * b[6] + 6 * b[7]) % 7
Tables == INSTANCE MidCompressor WITH
  SkipLog <- 2, FillTail <- 6, Hash4 <- FourHash, Hash7 <- SevenHash, Jobs <- {}

Chunks(n, words) == {FlattenSeq(w) : w \in [1..n -> words]}
Repeat(word, n) == [i \in 1..n |-> word[((i - 1) % Len(word)) + 1]]
Marked(s, at) == IF at \in DOMAIN s THEN [s EXCEPT ![at] = 9] ELSE s
Periodic(n) ==
  {Marked(Repeat(w, n), at) : w \in {<<1>>, <<1, 2>>, <<2, 1, 1>>, <<1, 2, 3, 4, 5, 1, 2>>,
                                      <<3, 1, 2, 1, 2, 4, 1, 2, 3, 1>>}, at \in {0, 3, 7, 12}}

(* START_OFFSET, one more than the greatest distance.                      *)
StartOffset == DistanceMax + 1
Loaded(bytes, idx) == Tables!Loaded(bytes, idx)
Job(s, attached, given) == Tables!Job(s, attached, given)
Alone == Tables!None
NewAt(idx) == Loaded(<<>>, idx)
Behind(s) == [src |-> s, adjacent |-> TRUE]
Elsewhere(s) == [src |-> s, adjacent |-> FALSE]

Texts ==
  Chunks(6, {<<1, 1, 2>>, <<1, 2, 1>>, <<2, 2, 1>>})
  \cup Chunks(4, {<<1, 1, 1, 2, 1>>, <<2, 1, 1, 3, 1, 2>>, <<1, 2, 1, 1>>})
(* A four byte match with a longer one, of other bytes, right behind it.   *)
Overtaken ==
  {<<1, 2, 3, 4, x, y>> \o <<2, 3, 4, 5, 6, 7, 8, z>> \o <<1, 2, 3, 4, 5, 6, 7, 8, 1, 2, 3, 4, 5>> :
     x \in 1..9, y \in 1..9, z \in 1..9}
OneBlock == {Job(NewAt(StartOffset), Alone, <<Behind(s)>>) : s \in Texts \cup Overtaken \cup Periodic(24)}
TwoBlocks ==
  {Job(NewAt(StartOffset), Alone, <<Behind(s), t>>) :
     s \in Periodic(14), t \in {Behind(u) : u \in Periodic(17)} \cup {Elsewhere(u) : u \in Periodic(19)}}
Dicts == {Repeat(<<1, 2, 3>>, 12), Repeat(<<1>>, 9), <<3, 1, 2, 1, 2, 1, 1, 2, 3, 1, 2>>, <<1, 2, 3>>,
          Repeat(<<3, 1, 2, 1, 2, 4, 1, 2, 3, 1>>, 23)}
AfterDict ==
  {Job(Loaded(d, StartOffset), Alone, <<b>>) :
     d \in Dicts, b \in {Behind(u) : u \in Periodic(15)} \cup {Elsewhere(u) : u \in Periodic(17)}}
Attached ==
  {Job(NewAt(2 * StartOffset), Loaded(d, StartOffset), <<Behind(u)>> \o more) :
     d \in Dicts, u \in Periodic(17), more \in {<<>>, <<Behind(Repeat(<<1, 2>>, 14))>>}}

(* Tables filled at a level above 2 put indices where other bytes hash to: *)
(* of the stream itself, whose level has changed, or of the attached one.  *)
Strange(bytes, k) ==
  LET t == [h \in Slots |-> StartOffset + ((h * k) % Len(bytes))]
  IN  [prefix |-> bytes, dictLimit |-> StartOffset, tables |-> [four |-> t, eight |-> t]]
Switched ==
  {Job(Strange(d, k), Alone, <<b>>) : d \in Dicts, k \in 1..4,
     b \in {Behind(u) : u \in Periodic(14)} \cup {Elsewhere(u) : u \in Periodic(14)}}
  \cup {Job(NewAt(2 * StartOffset), Strange(d, k), <<Behind(u)>>) :
          d \in Dicts, k \in 1..4, u \in Periodic(14)}

Mid == INSTANCE MidCompressor WITH
  SkipLog <- 2, FillTail <- 6, Hash4 <- FourHash, Hash7 <- SevenHash,
  Jobs <- OneBlock \cup TwoBlocks \cup AfterDict \cup Attached \cup Switched
ASSUME Mid!MidAssumption

-----------------------------------------------------------------------------
(* Whoever is not there.                                                   *)
NoOptimal ==
  /\ full_update = FALSE /\ favor_dec_speed = FALSE /\ opt = <<>>
  /\ last_match_pos = 0 /\ current = 0 /\ selected_end = 0 /\ relative_pos = 0
NoLazy == m1 = Lazy!NoMatch /\ start0 = 0 /\ m0 = Lazy!NoMatch /\ start2 = 0 /\ m2 = Lazy!NoMatch
NoOutput ==
  call = [limit |-> "NotLimited", cap |-> 0, iend |-> 0] /\ op = 0 /\ lastStart = -1 /\ result = Output!Nothing
NoMid ==
  /\ base = <<>> /\ srcOff = 0 /\ prefixIdx = 0 /\ dict = <<>> /\ dictIdx = 0 /\ ctx = Alone
  /\ hash4 = <<>> /\ hash8 = <<>> /\ seqs = <<>> /\ last = <<>> /\ blocks = <<>>

MCInit ==
  \/ part = "optimal" /\ Init /\ NoLazy /\ NoOutput /\ NoMid
  \/ part = "lazy" /\ Lazy!Init /\ NoOptimal /\ NoOutput /\ NoMid
  \/ part = "output" /\ Output!Init /\ NoOptimal /\ NoLazy /\ NoMid /\ ip = 0
  \/ part = "mid" /\ Mid!Init /\ NoOptimal /\ NoLazy /\ NoOutput /\ seq = NoSeq

ByOptimal(step) == part = "optimal" /\ step /\ UNCHANGED <<part, ownLazy, ownOutput, ownMid>>
ByLazy(step) == part = "lazy" /\ step /\ UNCHANGED <<part, ownOptimal, ownOutput, ownMid>>
MCNext ==
  \/ ByOptimal(Next)
  \/ ByLazy(Lazy!Next)
  \/ part = "output" /\ Output!Next /\ UNCHANGED <<part, ownOptimal, ownLazy, ownMid, ip>>
  \/ part = "mid" /\ Mid!Next /\ UNCHANGED <<part, ownOptimal, ownLazy, ownOutput, seq>>

(* The code runs: nothing a parser waits for.                              *)
MCSpec ==
  MCInit /\ [][MCNext]_mcVars /\ WF_mcVars(ByOptimal(Working)) /\ WF_mcVars(ByLazy(Lazy!Working))

(* What the parsers write: sequences that follow each other, each part of  *)
(* a match that was found and none of it in what a block keeps for its     *)
(* end; and what they hold between one sequence and the next is what they  *)
(* will need (hc.rs 1518-1769, 1856-2039).                                 *)
SequencesFollow ==
  /\ part = "lazy" => Lazy!Follows /\ Lazy!EndKept /\ Lazy!InHand
  /\ part = "optimal" => StepsFound /\ TableFresh

(* NoDearer of HCOptimal (hc.rs 1886-2009).                                *)
NeverDearer == part = "optimal" => NoDearer

(* Both parsers reach the end of their input: giving way to longer matches *)
(* and coming back to earlier ones does not go on forever, nor does the    *)
(* way back through the table (hc.rs 1501-1769, 1995-2039).                *)
ParserEnds == <>(part \in {"optimal", "lazy"} => pc = "done")

(* A block fits its buffer, or, of all calls, only a limited one fails; it *)
(* ends as the format asks even where it was cut to fit, takes what the    *)
(* buffer can hold, and its lengths read as they were meant                *)
(* (hc.rs 467-564, 1264-1368).                                             *)
OutputFits == part = "output" => Output!OutputFits

(* RoundTrip, Conforms and EntriesBehind of MidCompressor: a decoder gets  *)
(* back the block, whatever its tables say (hc.rs 1092-1241).              *)
MidRoundTrip == part = "mid" => Mid!RoundTrip /\ Mid!Conforms /\ Mid!EntriesBehind
=============================================================================
