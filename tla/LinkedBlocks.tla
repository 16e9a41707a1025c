----------------------------- MODULE LinkedBlocks -----------------------------
(***************************************************************************)
(* The linked blocks of a frame (src/frame.rs 512-636), each compressed    *)
(* against the window before it, which the frame keeps in a vector of its  *)
(* own, through one StreamState that is primed when the frame begins and   *)
(* not touched by anything but its blocks until the frame ends.            *)
(***************************************************************************)
EXTENDS BlockEncoder

CONSTANTS Words, FrameDicts, MaxBlocks

(* A frame's blocks and dictionary are bytes, and all that is compressed   *)
(* of it comes to less than an index is wide.                              *)
BlocksAssumption ==
  /\ HASH_UNIT <= Window /\ MaxBlocks \in Nat
  /\ \A s \in Words \cup FrameDicts : s \in Seq(Nat)
ShorterThanIndex ==
  \E longest \in {Len(w) : w \in Words} :
    /\ \A w \in Words : Len(w) <= longest
    /\ Window + MaxBlocks * longest < Wrap

VARIABLES
  dict,        \* Cctx.dict
  stream,      \* Cctx.stream
  inBlock,
  heard,       \* the window of a decoder of the frame
  past,        \* ghost: a block went past the codec, by uncompressedUpdate
  blocks

frameVars == <<dict, stream, inBlock, heard, past, blocks>>
allVars == <<vars, frameVars>>

Tail64(s) == SubSeq(s, Larger(0, Len(s) - Window) + 1, Len(s))

(* begin: a dictionary shorter than a hash unit is not kept.               *)
FrameInit ==
  /\ \E d \in FrameDicts, slow \in BOOLEAN :
       LET s == IF d = <<>> THEN [New EXCEPT !.tt = "U32"] ELSE LoadDict(d, slow)
       IN  /\ stream = s /\ dict = SubSeq(d, Len(d) - s.dictSize + 1, Len(d))
           /\ heard = Tail64(d)
  /\ inBlock = FALSE /\ past = FALSE /\ blocks = 0 /\ Resting

(* A block that does not get smaller is stored, so there is no room for it *)
(* to be written in as many bytes.                                         *)
MakeBlock(w) ==
  /\ ~inBlock /\ blocks < MaxBlocks
  /\ Start(CompressContinue(stream, w, IF Len(w) > 1 THEN Len(w) - 1 ELSE 1, dict, TRUE, None, 1))
  /\ inBlock' = TRUE /\ blocks' = blocks + 1
  /\ UNCHANGED <<dict, stream, heard, past>>

Compress == inBlock /\ Step /\ UNCHANGED frameVars

(* set_history: the window moves on, and the stream is told what is left.  *)
Retained(d) == Len(d)
BlockMade ==
  /\ inBlock /\ pc \in {"done", "failed"}
  /\ dict' = Tail64(dict \o src)
  /\ stream' = SaveDict(st, Retained(dict'))
  /\ heard' = Tail64(heard \o src)
  /\ inBlock' = FALSE
  /\ UNCHANGED <<vars, past, blocks>>

(* A block of uncompressedUpdate: the window moves, the codec sees nothing. *)
StoreBlock(w) ==
  /\ ~inBlock /\ blocks < MaxBlocks
  /\ dict' = Tail64(dict \o w) /\ heard' = Tail64(heard \o w)
  /\ stream' = SaveDict(stream, Retained(dict'))
  /\ past' = TRUE /\ blocks' = blocks + 1
  /\ UNCHANGED <<vars, inBlock>>

FrameEnds == ~inBlock /\ blocks = MaxBlocks /\ UNCHANGED allVars

FrameNext == (\E w \in Words : MakeBlock(w) \/ StoreBlock(w)) \/ Compress \/ BlockMade \/ FrameEnds
FrameSpec == FrameInit /\ [][FrameNext]_allVars

(* ------------------------------ properties ----------------------------- *)
(* A block that is written compressed decodes after the window a decoder   *)
(* has (block.rs 430-436, frame.rs 525-556, 612-636).                      *)
FrameDecodable ==
  inBlock /\ pc = "done" => Reaches(heard, Block) /\ Content(heard, Block) = src

(* The same of frames all of whose blocks went through the codec.          *)
LinkedDecodable == ~past => FrameDecodable
==============================================================================
