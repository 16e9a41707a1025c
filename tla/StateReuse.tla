------------------------------ MODULE StateReuse ------------------------------
(***************************************************************************)
(* One-shot compression into a state the caller keeps (src/block.rs        *)
(* 563-583, 1490-1531; src/ffi.rs 344-398): call after call, with and      *)
(* without a full reset, of inputs that want 16-bit and 32-bit tables,     *)
(* some of them refused for want of room.  The fast reset keeps the table  *)
(* when it can, and with it every index of the inputs before.              *)
(***************************************************************************)
EXTENDS BlockEncoder

CONSTANTS Inputs, MaxUses

(* A state that is not started over has no more than Fast behind it, and   *)
(* inputs over LZ4_MAX_INPUT_SIZE are refused (src/block.rs 58, 850).       *)
InputsAssumption == \A s \in Inputs : s \in Seq(Nat) /\ Fast + Window + Len(s) < Wrap

VARIABLES kept, uses

reuseVars == <<kept, uses>>

(* The caller makes a call: fastReset picks which of the two.              *)
UseState(s, room, fastReset) ==
  /\ pc \in {"done", "failed"} /\ uses < MaxUses
  /\ Start(CompressExtState(kept, s, room, 1, fastReset))
  /\ uses' = uses + 1 /\ UNCHANGED kept

(* store: the state of a refused call is kept as well.                     *)
Compressed == Step /\ kept' = st' /\ UNCHANGED uses
UsedUp == pc \in {"done", "failed"} /\ uses = MaxUses /\ UNCHANGED <<vars, reuseVars>>

ReuseInit == Resting /\ kept = New /\ uses = 0
ReuseNext ==
  \/ \E s \in Inputs, fastReset, enough \in BOOLEAN :
       UseState(s, IF enough THEN CompressBound(Len(s)) ELSE 8, fastReset)
  \/ Compressed
  \/ UsedUp
ReuseSpec == ReuseInit /\ [][ReuseNext]_<<vars, reuseVars>>

(* ------------------------------ properties ----------------------------- *)
(* What this input puts in the table is found in it: no index is cut to    *)
(* the width of an entry, however many inputs came before, and only the    *)
(* size of the output would show it (block.rs 566-571).                    *)
Remembered ==
  pc # "begin" /\ iend >= MinLength =>
    \A p \in {0, anchor} :
      p < mflimitPlusOne => st.table[HashPosition(src, p, tt)] >= startIndex
==============================================================================
