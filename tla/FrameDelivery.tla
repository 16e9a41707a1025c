----------------------------- MODULE FrameDelivery -----------------------------
(***************************************************************************)
(* What a frame decompressor promises, seen from its client: content comes *)
(* out in order, a frame is complete only when all of it has come out, and *)
(* a frame is rejected only when something is wrong with it.  Stages,      *)
(* buffers and the sizes of the calls are not part of the promise.         *)
(*                                                                         *)
(* A frame's fault is "none", or where it is damaged: "type", "header",    *)
(* "block" (a block longer than the header allows), "size" (a wrong        *)
(* content size) or "body" (a block's bytes, under some checksum).         *)
(***************************************************************************)
EXTENDS Integers, SequencesExt

CONSTANT Frames

VARIABLES frame, out, verdict, lenient

vars == <<frame, out, verdict, lenient>>

Fault == frame.fault
Content == [i \in 1..frame.content |-> i]

Init ==
  /\ frame \in Frames /\ out = <<>> /\ verdict = "open" /\ lenient = FALSE

(* More of the content.  Bytes of a damaged block may come out before the  *)
(* checksum that gives it away, except when the checksum covers it before  *)
(* it is decoded and nobody asked to skip checksums.                       *)
Deliver ==
  /\ verdict = "open"
  /\ IsPrefix(out, out') /\ Len(out') <= frame.content
  /\ Fault # "body" \/ (frame.guarded /\ ~lenient)
       => IsPrefix(out', Content)
  /\ UNCHANGED <<frame, verdict, lenient>>

(* A call asks not to verify checksums, from here to the end of the frame. *)
Relax == verdict = "open" /\ lenient' = TRUE /\ UNCHANGED <<frame, out, verdict>>

Accept ==
  /\ verdict = "open" /\ verdict' = "complete"
  /\ Len(out) = frame.content
  /\ Fault = "none" \/ (Fault = "body" /\ lenient)
  /\ UNCHANGED <<frame, out, lenient>>

Reject ==
  /\ verdict = "open" /\ verdict' = "rejected"
  /\ Fault # "none"
  /\ UNCHANGED <<frame, out, lenient>>

Open ==
  /\ frame' \in Frames /\ out' = <<>> /\ verdict' = "open" /\ lenient' = FALSE

Next == Deliver \/ Relax \/ Accept \/ Reject \/ Open

Spec == Init /\ [][Next]_vars
=============================================================================
