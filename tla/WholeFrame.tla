------------------------------ MODULE WholeFrame ------------------------------
(***************************************************************************)
(* LZ4F_compressFrame and LZ4F_compressFrame_usingCDict of src/frame.rs: a *)
(* whole frame in one call, made of the begin, update and end of           *)
(* FrameEncoder on a context that may be anywhere, into a destination of   *)
(* LZ4F_compressFrameBound bytes or less.                                  *)
(***************************************************************************)
EXTENDS FrameEncoder

CONSTANTS
  Shortages,  \* by how much a destination misses the bound
  MaxFrames   \* bound: whole frames

VARIABLES
  wf,        \* the running call: [op, size, prefs, room], room being what is
             \* left of dst for the next part
  answer,    \* what the last one returned
  made       \* bounded counter

frameVars == <<vars, wf, answer, made>>

-----------------------------------------------------------------------------
(* optimal_bsid: of the block sizes up to the requested one, the smallest  *)
(* that takes the whole input.                                             *)
SizeAt(id) == K64 * 4 ^ (id - 4)

OptimalBSID(requested, size) ==
  LET enough == { id \in 4..(requested - 1) : size <= SizeAt(id) }
  IN  IF enough = {} THEN requested
      ELSE CHOOSE id \in enough : \A other \in enough : id <= other

DeclaredSize(p, size) == IF p.contentSize # 0 THEN size ELSE 0

(* The preferences the frame is made with.                                 *)
FrameBlock(p, size) == WithDefaultSize([p EXCEPT !.blockSizeID = OptimalBSID(@, size)]).blockSizeID
FramePrefs(p, size) ==
  [p EXCEPT !.contentSize = DeclaredSize(p, size),
            !.blockSizeID = OptimalBSID(@, size),
            !.autoFlush = TRUE,
            !.linked = @ /\ size > GetBlockSize(FrameBlock(p, size))]

(* compress_frame_bound: as if flushed at the end, behind a full header.   *)
CompressFrameBound(p, size) ==
  HeaderSizeMax + CompressBoundInternal(size, [p EXCEPT !.autoFlush = TRUE], 0)

HeaderSize(p) == 7 + (IF p.contentSize # 0 THEN 8 ELSE 0)

-----------------------------------------------------------------------------
NoFrame == [op |-> "none", size |-> 0, prefs |-> NoPrefs, room |-> 0]
Answer(a) == wf' = NoFrame /\ answer' = a

CompressFrame(p, size, short) ==
  LET fp == FramePrefs(p, size)
      bound == CompressFrameBound(fp, size) IN
  /\ wf.op = "none" /\ Ready /\ made < MaxFrames /\ made' = made + 1
  /\ short <= bound
  /\ \/ ~ValidBlockSizeId(FrameBlock(p, size)) /\ Answer("maxBlockSizeInvalid")
     \/ /\ ValidBlockSizeId(FrameBlock(p, size)) /\ short > 0
        /\ Answer("dstMaxSizeTooSmall")
     \/ /\ ValidBlockSizeId(FrameBlock(p, size)) /\ short = 0
        /\ wf' = [op |-> "begin", size |-> size, prefs |-> fp, room |-> bound]
        /\ UNCHANGED answer
  /\ UNCHANGED vars

FrameBegin(d) ==
  /\ wf.op = "begin"
  /\ IF wf.room < HeaderSizeMax THEN BeginTooSmall(wf.room) /\ Answer("dstMaxSizeTooSmall")
     ELSE /\ Begin(wf.prefs, d, wf.room)
          /\ wf' = [wf EXCEPT !.op = "update", !.room = @ - HeaderSize(wf.prefs)]
          /\ UNCHANGED answer
  /\ UNCHANGED made

FrameUpdate ==
  /\ wf.op = "update" /\ Ready
  /\ IF wf.room < CompressBoundInternal(wf.size, prefs, Len(tmp))
     THEN Reject("dstMaxSizeTooSmall") /\ Answer("dstMaxSizeTooSmall")
     ELSE /\ UpdateCall(wf.size, "compressed", wf.room)
          /\ wf' = [wf EXCEPT !.op = "updating"] /\ UNCHANGED answer
  /\ UNCHANGED made

(* A step of the running update or end.  What update has written is taken  *)
(* off the room when end is called.                                        *)
FrameStep ==
  /\ wf.op \in {"updating", "ending"} /\ Step
  /\ wf' = IF wf.op = "updating" /\ call'.op = "none"
           THEN [wf EXCEPT !.op = "updated", !.room = @ - call.at] ELSE wf
  /\ UNCHANGED <<answer, made>>

FrameEnd ==
  /\ wf.op = "updated" /\ EndCall(wf.room)
  /\ wf' = [wf EXCEPT !.op = "ending"] /\ UNCHANGED <<answer, made>>

FrameDone ==
  /\ wf.op = "ending" /\ Ready
  /\ Answer(res) /\ UNCHANGED <<vars, made>>

(* The context's other calls, in between.                                  *)
OtherCall ==
  /\ wf.op = "none" /\ made < MaxFrames
  /\ \/ \E p \in PrefSet : Begin(p, 0, HeaderSizeMax)
     \/ \E n \in SrcSizes, cap \in Caps : UpdateCall(n, "compressed", cap)
  /\ UNCHANGED <<wf, answer, made>>
OtherStep == wf.op = "none" /\ Step /\ UNCHANGED <<wf, answer, made>>

Rest == wf.op = "none" /\ Ready /\ made = MaxFrames /\ UNCHANGED frameVars

-----------------------------------------------------------------------------
FrameInit == Init /\ wf = NoFrame /\ answer = "ok" /\ made = 0

FrameNext ==
  \/ \E p \in PrefSet, size \in SrcSizes, short \in Shortages : CompressFrame(p, size, short)
  \/ \E d \in DictLengths : FrameBegin(d)
  \/ FrameUpdate \/ FrameStep \/ FrameEnd \/ FrameDone
  \/ OtherCall \/ OtherStep
  \/ Rest

FrameSpec == FrameInit /\ [][FrameNext]_frameVars

-----------------------------------------------------------------------------
(* Properties.                                                             *)

(* A destination of compressFrameBound bytes is enough (frame.rs 265-269,  *)
(* 797): once it was accepted no part of the frame is refused for room,    *)
(* and none writes past the room it has.                                   *)
BoundIsEnough ==
  wf.op \in {"update", "updating", "updated", "ending"} =>
    /\ res # "dstMaxSizeTooSmall" /\ call.at <= wf.room
    /\ wf.op = "update" => CompressBoundInternal(wf.size, prefs, Len(tmp)) <= wf.room

(* Whatever the context was doing, the frame is complete and holds the     *)
(* whole input and nothing else, under a content size that is the input's  *)
(* (frame.rs 787-789, 801-803): a call that passed its checks succeeds.    *)
FrameWhole ==
  wf.op = "ending" /\ Ready =>
    /\ res = "ok" /\ sealed
    /\ content = [i \in 1..wf.size |-> <<i, "compressed">>]
    /\ header.contentSize \in {0, wf.size}
=============================================================================
