----------------------------- MODULE MCBlockStream -----------------------------
(***************************************************************************)
(* The block compressor and the three that carry its state from block to   *)
(* block - BlockStream, LinkedBlocks and StateReuse - in small instances   *)
(* for TLC.  A behaviour is that of one of them, chosen at the beginning,  *)
(* or of one call by itself.  Inputs are over two to four byte values, so  *)
(* that matches, collisions and overlaps are everywhere; the window is a   *)
(* few bytes, so that they get out of reach; indices are narrow where they *)
(* are to reach the sizes at which a state starts over.                    *)
(***************************************************************************)
EXTENDS BlockStream

VARIABLES
  who,
  dict, inBlock, past, blocks,     \* LinkedBlocks'
  kept, uses                       \* StateReuse's

linked == <<dict, inBlock, past, blocks>>
reuse == <<kept, uses>>
mcVars == <<who, allVars, linked, reuse>>

MCHash(b) == (b[1] + 2 * b[2] + 3 * b[3] + 5 * b[4] + (IF Len(b) > 4 THEN 7 * b[5] ELSE 0)) % HashSize

AllWords(n, k) == [1..n -> 1..k]
(* A word over and over, with one byte of it changed somewhere.            *)
Repeat(word, n) == [i \in 1..n |-> word[((i - 1) % Len(word)) + 1]]
Marked(s, at) == IF at \in DOMAIN s THEN [s EXCEPT ![at] = 9] ELSE s
Periodic(lengths) ==
  {Marked(Repeat(w, n), at) : w \in {<<1>>, <<1, 2>>, <<1, 2, 3>>, <<1, 2, 3, 4, 5, 1, 2>>},
                              n \in lengths, at \in {0, 5, 9, 13, 20}}

(* Nothing repeats: four bytes at a time are all different.                *)
Random(n) == [i \in 1..n |-> (i * i + 7 * (i \div 16)) % 251]

OneShot ==
  {CompressFast(s, 40, 1) : s \in AllWords(13, 2)}
  \cup {CompressFast(s, room, acc) : s \in Periodic({0, 1, 12, 14, 17, 24, 33, 45}), acc \in {1, 3},
                                     room \in 0..30}
  \cup {CompressFast(s, CompressBound(Len(s)), 1) :
          s \in Periodic({0, 1, 13, 26, 27, 45}) \cup {Random(n) : n \in {14, 15, 254, 270, 290}}}

(* Rooms from nothing to more than enough; among the inputs one whose      *)
(* match is longer than the room has length bytes for.                     *)
Fill ==
  {CompressDestSize(s, room, acc) : s \in Periodic({0, 1, 12, 13, 17, 24, 33, 45}), acc \in {1, 4},
                                    room \in 0..24}
  \cup {CompressDestSize(Repeat(w, n), room, 1) :
          w \in {<<1>>, <<1, 2, 3>>}, n \in {850, 1100}, room \in 12..24}
  \cup {CompressDestSize(Random(n), room, 1) : n \in {14, 34, 280}, room \in {1, 2, 15, 16, 17, 18, 270, 271, 274, 275}}

(* After a dictionary: next to the input or elsewhere, or another stream's.*)
JobDicts == {Repeat(<<1, 2, 3>>, 12), Repeat(<<1>>, 8), <<3, 1, 2, 1, 2, 1, 1, 2, 3, 1, 2>>,
          Random(6) \o Repeat(<<1, 2>>, 14), <<1, 2, 3>>}
AfterDict(s, room, d, slow) ==
  LET st0 == LoadDict(d, slow)
      tail(n) == SubSeq(d, Len(d) - n + 1, Len(d))
      whole == tail(st0.dictSize)
      short == SaveDict(st0, 7)
  IN  {CompressContinue(st0, s, room, whole, prefix, None, 1) : prefix \in BOOLEAN}
      \cup {CompressContinue(short, s, room, tail(short.dictSize), prefix, None, 1) : prefix \in BOOLEAN}
      \cup {CompressContinue([New EXCEPT !.currentOffset = Window], s, room, whole, FALSE, st0, 1)}
WithHistory ==
  UNION {AfterDict(s, room, d, slow) :
           s \in Periodic({13, 17, 30}) \cup {Random(14)}, room \in {12, 46}, d \in JobDicts, slow \in BOOLEAN}
Filling == INSTANCE BlockEncoder WITH Jobs <- Fill
After == INSTANCE BlockEncoder WITH Jobs <- WithHistory

ASSUME EveryJobCalled ==
  /\ JobsAssumption /\ Filling!JobsAssumption /\ After!JobsAssumption
  /\ JobsPrimed /\ Filling!JobsPrimed /\ After!JobsPrimed

-----------------------------------------------------------------------------
(* A stream: blocks of 3 to 14 bytes, at places that make a block follow   *)
(* the last one, lie elsewhere, or cover the start of the history.         *)
W1 == <<1, 2, 1, 2, 1, 3, 1, 2, 1, 2, 1, 2, 1, 2>>
W2 == <<3, 1, 2, 1, 2, 1, 3, 1, 2, 3, 3, 3, 3, 3>>
W3 == <<4, 5, 6, 7, 8, 9, 10, 11, 12, 13, 14, 15, 16, 17, 18, 19>>
StreamWords == {W1, W2, <<1, 2, 1>>}
StreamPlaces == {5, 19, 26}
StreamDicts == {W2 \o W1, <<2, 1, 2, 1, 3, 1, 2, 1>>, <<1, 2>>}

Stream == INSTANCE BlockStream WITH
  Fast <- 64, Half <- 128, Wrap <- 256, Large <- 14, Jobs <- {},
  Places <- StreamPlaces, SafePlace <- 64, Words <- StreamWords, Dicts <- StreamDicts,
  MemSize <- 80, Offsets <- {0, 110}, MaxCalls <- 3

(* A frame of linked blocks, shorter than an index is wide.                *)
FrameWords == {W1, W2, W3, <<1, 2, 1>>}
LinkedDicts == {<<>>, W2 \o W1, <<1, 2, 1>>}
Linked == INSTANCE LinkedBlocks WITH
  Fast <- 64, Half <- 128, Wrap <- 256, Large <- 14, Jobs <- {},
  Words <- FrameWords, FrameDicts <- LinkedDicts, MaxBlocks <- 4

ASSUME LinkedFrames == Linked!BlocksAssumption /\ Linked!ShorterThanIndex

(* Inputs below and above the size that decides the width of the entries   *)
(* and the size that forgets the table.                                    *)
ReuseInputs == {<<>>, <<1, 2, 3>>, Repeat(<<1, 2, 3>>, 14), Repeat(<<1>>, 17),
                Repeat(<<3, 1, 2, 3, 1>>, 19), Repeat(<<1, 2, 3, 1>>, 26), Repeat(<<2, 3, 1>>, 80)}
Reuse == INSTANCE StateReuse WITH
  Window <- 64, Fast <- 128, Half <- 256, Wrap <- 512, Large <- 20, Jobs <- {},
  Inputs <- ReuseInputs, MaxUses <- 5

ASSUME ReusedInputs == Reuse!InputsAssumption

-----------------------------------------------------------------------------
NoStream == mem = <<>> /\ given = Idle /\ calls = 0
NoHistory == stream = New /\ heard = <<>>
NoFrame == dict = <<>> /\ inBlock = FALSE /\ past = FALSE /\ blocks = 0
NoReuse == kept = New /\ uses = 0

MCInit ==
  \/ who = "once" /\ (Init \/ Filling!Init \/ After!Init) /\ NoStream /\ NoHistory /\ NoFrame /\ NoReuse
  \/ who = "stream" /\ Stream!StreamInit /\ NoFrame /\ NoReuse
  \/ who = "linked" /\ Linked!FrameInit /\ NoStream /\ NoReuse
  \/ who = "reuse" /\ Reuse!ReuseInit /\ NoStream /\ NoHistory /\ NoFrame

MCNext ==
  \/ who = "once" /\ Next /\ UNCHANGED <<who, streamVars, linked, reuse>>
  \/ who = "stream" /\ Stream!StreamNext /\ UNCHANGED <<who, linked, reuse>>
  \/ who = "linked" /\ Linked!FrameNext /\ UNCHANGED <<who, mem, given, calls, reuse>>
  \/ who = "reuse" /\ Reuse!ReuseNext /\ UNCHANGED <<who, streamVars, linked>>

MCSpec == MCInit /\ [][MCNext]_mcVars

(* Frames of linked blocks by themselves; and frames that are longer than  *)
(* an index is wide.                                                       *)
LinkedInit == who = "linked" /\ Linked!FrameInit /\ NoStream /\ NoReuse
LinkedSpec == LinkedInit /\ [][Linked!FrameNext /\ UNCHANGED <<who, mem, given, calls, reuse>>]_mcVars

LongWords == {W1, W2, W3, [i \in 1..40 |-> IF i < 3 THEN i ELSE 4]}
Long == INSTANCE LinkedBlocks WITH
  Fast <- 24, Half <- 32, Wrap <- 64, Large <- 14, Jobs <- {},
  Words <- LongWords, FrameDicts <- {<<>>}, MaxBlocks <- 6
LongInit == who = "long" /\ Long!FrameInit /\ NoStream /\ NoReuse
LongSpec == LongInit /\ [][Long!FrameNext /\ UNCHANGED <<who, mem, given, calls, reuse>>]_mcVars

(* Where a frame has a block that went past the codec, the table of the    *)
(* blocks after it is not honest and they may not decode (see the README); *)
(* of every other call this holds.                                        *)
OneCodec == who = "linked" => ~past

(* TableHonest and NothingAhead of BlockEncoder: no entry of the table     *)
(* speaks of what it was not made from, whatever the state has been        *)
(* through (block.rs 405-583).                                             *)
EveryTableHonest == OneCodec => TableHonest /\ NothingAhead

(* A block decodes after what its decoder has: one of a stream, whose      *)
(* history is the decoder's (Decodable, HistoryShared, ffi.rs 428-500),    *)
(* and one of a frame all of whose blocks went through the codec           *)
(* (LinkedDecodable, block.rs 430-436, frame.rs 525-556, 612-636).         *)
EveryDecodable == Decodable /\ HistoryShared /\ (who = "linked" => Linked!LinkedDecodable)

(* The same of every frame.                                                *)
FrameDecodable == Linked!FrameDecodable

(* "consecutive calls see a growing history": the same of a frame however  *)
(* long it is (block.rs 1383-1384).                                        *)
LongFrameDecodable == Long!LinkedDecodable

(* What is put in a reused table is found in it: Remembered of StateReuse  *)
(* (block.rs 566-571).                                                     *)
Remembered == who = "reuse" => Reuse!Remembered
==============================================================================
