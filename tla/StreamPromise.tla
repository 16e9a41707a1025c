---------------------------- MODULE StreamPromise ----------------------------
(***************************************************************************)
(* What a stream decoder promises: block after block, the content a reader *)
(* of the whole stream gets, of which only the last Window bytes matter;   *)
(* a damaged block is refused and leaves the stream where it was.  Where   *)
(* the content lies in memory is not part of the promise.                  *)
(***************************************************************************)
EXTENDS BlockFormat

CONSTANTS
  Window,      \* 64 KB
  Blocks,      \* [seqs, last, sound]
  Dicts

VARIABLES
  said,        \* the end of the stream's content
  block,       \* the block of the last call
  answer       \* "ready", "decoded" or "refused"

promiseVars == <<said, block, answer>>

EndOf(s) == SubSeq(s, (IF Len(s) > Window THEN Len(s) - Window ELSE 0) + 1, Len(s))

Init == said = <<>> /\ block \in Blocks /\ answer = "ready"

Start(dict) == said' = EndOf(dict) /\ answer' = "ready" /\ UNCHANGED block

Decode ==
  /\ block' \in Blocks /\ block'.sound /\ Reaches(said, block')
  /\ said' = EndOf(said \o Content(said, block')) /\ answer' = "decoded"

Refuse ==
  /\ block' \in Blocks /\ ~block'.sound
  /\ answer' = "refused" /\ UNCHANGED said

Next == Decode \/ Refuse \/ (\E dict \in Dicts : Start(dict))
Spec == Init /\ [][Next]_promiseVars
==============================================================================
