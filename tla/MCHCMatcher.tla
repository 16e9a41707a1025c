----------------------------- MODULE MCHCMatcher -----------------------------
(***************************************************************************)
(* Instances of HCMatcher, and of HCStream, which gives it its histories.  *)
(* Texts are runs of two bytes, so that patterns begin and end everywhere, *)
(* also across the end of the dictionary; two patterns share a hash.       *)
(* A stream has a window of 8 bytes, blocks shorter and longer than it     *)
(* takes to copy an attached stream, and places that follow, overlap and   *)
(* leave the block before.                                                 *)
(***************************************************************************)
EXTENDS HCMatcher

VARIABLES
  where,        \* where matches are looked for; "stream": a stream is used
  mem, stream, heard, fresh, left, block, clock, calls       \* HCStream's

streamVars == <<mem, stream, heard, fresh, left, block, clock, calls>>
mcVars == <<vars, where, streamVars>>

MCHash(b) == (b[1] + 2 * b[2] + 3 * b[3] + 3 * b[4]) % 5

Sum(l) == FoldLeft(+, 0, l)
Cuts(total, n) ==
  {Append(l, total - Sum(l)) : l \in {l \in [1..(n - 1) -> 1..(total - n + 1)] : Sum(l) < total}}
Runs(lengths) == FlattenSeq([i \in 1..Len(lengths) |-> [j \in 1..lengths[i] |-> i % 2]])
Texts(total, n) == UNION {{Runs(l) : l \in Cuts(total, k)} : k \in 1..n}
LastFive == <<2, 2, 2, 2, 2>>

(* A text whose first d bytes are a dictionary, or an attached context.    *)
Best(t, d, p, attempts, pattern, swap, favor, stale) ==
  Call(SubSeq(t, 1, d), <<>>, SubSeq(t, d + 1, Len(t)) \o LastFive, p, p, MINMATCH - 1, attempts,
       pattern, swap, favor, stale)
InCtx(t, d, p) ==
  Call(<<>>, SubSeq(t, 1, d), SubSeq(t, d + 1, Len(t)) \o LastFive, p, p, MINMATCH - 1, 9,
       FALSE, FALSE, FALSE, 0)
(* For more than longest from low on, as the lazy parser asks.             *)
Wider(t, d, low, longest, back) ==
  [Best(t, d, low + longest - back, 9, TRUE, FALSE, FALSE, 0) EXCEPT !.low = low, !.longest = longest]
InBase(asked) == {c \in asked : c.ip + MFLIMIT <= Len(c.base)}

Shortcuts ==
  {Best(t, 0, p, a, pattern, swap, FALSE, stale) :
     t \in Texts(15, 4), p \in 2..8, a \in {2, 9}, pattern \in BOOLEAN, swap \in BOOLEAN,
     stale \in {0, 1}}
  \cup {Best(t, 0, p, 9, TRUE, TRUE, TRUE, 0) : t \in Texts(15, 3), p \in 2..8}

Texts16 == Texts(16, 4)
Sought == InBase({Wider(t, d, low, longest, back) :
                    t \in Texts16, d \in {0, 3, 6}, low \in 1..2, longest \in 4..5, back \in {2, 3}})
InDictionary == {Best(t, 6, p, 9, FALSE, swap, FALSE, stale) :
                   t \in Texts16, p \in 0..3, swap \in BOOLEAN, stale \in {0, 1}}
AcrossDict == Sought \cup InDictionary \cup {InCtx(t, 6, p) : t \in Texts16, p \in 0..3}

RunAcross == InBase({Best(t, 3, p, 9, TRUE, FALSE, FALSE, 0) : t \in Texts(17, 4), p \in 1..7})

-----------------------------------------------------------------------------
(* A window of 12 bytes, longer texts and all shortcuts; one of 20 bytes,  *)
(* and dictionaries; one of 32, and runs that begin in a dictionary.       *)
Near == INSTANCE HCMatcher WITH Window <- 12, Calls <- Shortcuts
Dict == INSTANCE HCMatcher WITH Window <- 20, Calls <- AcrossDict
Across == INSTANCE HCMatcher WITH Window <- 32, Calls <- RunAcross

(* Index spaces are small enough for streams to be restarted and their     *)
(* history to be indexed anew.                                             *)
Stream == INSTANCE HCStream WITH
  Window <- 8, Restart <- 30, Reload <- 45, Large <- 4, Places <- {3, 6},
  DictPlace <- 24, SafePlace <- 36, Sizes <- {3, 6}, DictSizes <- {3, 7}, MemSize <- 48,
  Offsets <- {0, 29}, Habits <- {}, MaxCalls <- 4, call <- block

ASSUME Stream!SizesAssumption /\ Stream!PlacesAssumption

NoStream == mem = <<>> /\ stream = Stream!New /\ heard = <<>> /\ fresh = <<>> /\ left = 0
            /\ block = Stream!NoCall /\ clock = 0 /\ calls = 0
NoCall == call = Best(LastFive, 0, 0, 1, FALSE, FALSE, FALSE, 0) /\ tables = <<>> /\ s = Start

MCInit ==
  \/ where = "near" /\ Near!Init /\ NoStream
  \/ where = "dict" /\ Dict!Init /\ NoStream
  \/ where = "stream" /\ Stream!Init /\ NoCall
MCNext ==
  \/ where = "near" /\ Near!Next /\ UNCHANGED <<where, streamVars>>
  \/ where = "dict" /\ Dict!Next /\ UNCHANGED <<where, streamVars>>
  \/ where = "stream" /\ Stream!Next /\ UNCHANGED <<where, vars>>
MCSpec == MCInit /\ [][MCNext]_mcVars

AcrossInit == where = "runs" /\ Across!Init /\ NoStream
AcrossSpec == AcrossInit /\ [][Across!Next /\ UNCHANGED <<where, streamVars>>]_mcVars

(* TrueMatch and NoneLonger of HCMatcher, each in its window (hc.rs        *)
(* 635-961).                                                               *)
TrueMatches ==
  /\ where = "near" => Near!TrueMatch
  /\ where = "dict" => Dict!TrueMatch
NonePassedOver ==
  /\ where = "near" => Near!NoneLonger
  /\ where = "dict" => Dict!NoneLonger

(* And of runs that begin in a dictionary (hc.rs 861-878).                 *)
RunsAreMatches == Across!TrueMatch

(* HistoryShared of HCStream: a block is compressed against what its       *)
(* decoder has, and nothing in the tables lies ahead of it (ffi.rs         *)
(* 124-194, 298-336, hc.rs 674-678).                                       *)
HistoryShared == Stream!HistoryShared /\ Stream!EntriesBehind /\ Stream!NextInPrefix /\ Stream!IndexFits

(* DictionarySeen of HCStream: a dictionary is not lost on the way to the  *)
(* first block (ffi.rs 139-161, 304-317).                                  *)
DictionarySeen == Stream!DictionarySeen
=============================================================================
