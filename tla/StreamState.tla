----------------------------- MODULE StreamState ------------------------------
(***************************************************************************)
(* The state a block compressor carries from call to call (StreamState and *)
(* AbiStreamState, src/block.rs 363-583): a hash table of indices, the     *)
(* index the next byte will have, how much history lies before it, and for *)
(* a caller's LZ4_stream_t where that history lies.  Each operation is a   *)
(* function of the state.  Sizes that are 64 KB, 1 GiB, 2 GiB, 4 GiB in    *)
(* the code are constants.                                                 *)
(***************************************************************************)
EXTENDS BlockFormat

CONSTANTS
  Window,        \* 64 KB; a match reaches back less than that (LZ4_DISTANCE_MAX)
  Fast,          \* 1 << 30: a stream further on than this starts over
  Half,          \* 0x8000_0000: a stream is renormalised before it gets there
  Wrap,          \* 2^32, the width of an index
  Large,         \* 4 KB
  HashSize,      \* entries of the table
  Hash(_)        \* the entry of 4 (U16) or 5 (U32) bytes

ASSUME SizesAssumption ==
  /\ Window \in Nat \ {0} /\ HashSize \in Nat \ {0} /\ Large \in Nat
  /\ Fast \in Nat /\ Half \in Nat /\ Wrap \in Nat
  /\ Window < Fast /\ Fast < Half /\ Half < Wrap

Smaller(x, y) == IF x < y THEN x ELSE y
Larger(x, y)  == IF x > y THEN x ELSE y

HASH_UNIT == 8

(* Table: entries are as wide as the table's type.                         *)
Zeros == [h \in 0..(HashSize - 1) |-> 0]
Width(tt) == IF tt = "U16" THEN Window ELSE Wrap
Put(table, tt, h, index) == [table EXCEPT ![h] = index % Width(tt)]
Clear(st) == [st EXCEPT !.table = Zeros, !.currentOffset = 0, !.tt = "none"]

(* hash_position: 4 bytes, or 5 of a word of 8.                            *)
HashPosition(bytes, at, tt) ==
  LET word == SubSeq(bytes, at + 1, at + (IF tt = "U16" THEN 4 ELSE HASH_UNIT))
  IN  Hash(SubSeq(word, 1, IF tt = "U16" THEN 4 ELSE 5))

(* dictionary is an address, and 0 none; dictCtx another state or None.    *)
None == [none |-> TRUE]
New == [table |-> Zeros, currentOffset |-> 0, dictSize |-> 0, tt |-> "none",
        dictionary |-> 0, dictCtx |-> None]

ResetFast(st) ==
  LET s == IF st.tt # "none" /\ (st.tt # "U32" \/ st.currentOffset > Fast) THEN Clear(st) ELSE st
  IN  [s EXCEPT !.currentOffset = IF @ # 0 THEN (@ + Window) % Wrap ELSE 0,
                !.dictionary = 0, !.dictCtx = None, !.dictSize = 0]

(* The same before a one-shot compression into a state already used.       *)
StaleByType(st, n, tt) == st.tt # tt \/ n >= Large      \* Slip: the index not looked at
Stale(st, n, tt) ==
  \/ st.tt # tt
  \/ tt = "U16" /\ st.currentOffset + n >= Window - 1
  \/ tt = "U32" /\ st.currentOffset > Fast
  \/ n >= Large
Prepare(st, n, tt) ==
  LET s == IF st.tt # "none" /\ Stale(st, n, tt) THEN Clear(st) ELSE st
  IN  [s EXCEPT !.currentOffset = IF @ # 0 /\ tt = "U32" THEN (@ + Window) % Wrap ELSE @,
                !.dictionary = 0, !.dictCtx = None, !.dictSize = 0]

(* Indices are brought down before they reach half their width.            *)
Unshifted(st, delta) == st.table                \* Slip: the entries left as they were
ShiftedTable(st, delta) ==
  [h \in DOMAIN st.table |-> IF st.table[h] < delta THEN 0 ELSE st.table[h] - delta]
Renormalize(st, n) ==
  IF st.currentOffset + n <= Half THEN st
  ELSE LET kept == Smaller(st.dictSize, Window)
       IN  [st EXCEPT !.table = ShiftedTable(st, st.currentOffset - Window),
                      !.currentOffset = Window, !.dictSize = kept,
                      !.dictionary = Larger(0, st.dictionary + st.dictSize - kept)]

(* load_dict: every third position of the tail is indexed, later ones over *)
(* earlier; the slow kind then adds all positions whose entry is free.     *)
BaseOf(st, d) == st.currentOffset - Len(d)
Entered(table, st, d, p, onlyFree) ==
  LET h == HashPosition(d, p, "U32")
  IN  IF onlyFree /\ table[h] > st.currentOffset - Window THEN table
      ELSE Put(table, "U32", h, BaseOf(st, d) + p)
Entering(st, d, positions, onlyFree) ==
  LET table[i \in 0..Len(positions)] ==
        IF i = 0 THEN st.table ELSE Entered(table[i - 1], st, d, positions[i], onlyFree)
  IN  table
Indexed(st, d, positions, onlyFree) ==
  [st EXCEPT !.table = Entering(st, d, positions, onlyFree)[Len(positions)]]

LoadDict(dict, slow) ==
  LET empty == [New EXCEPT !.currentOffset = Window, !.tt = "U32"]
      d     == SubSeq(dict, Larger(0, Len(dict) - Window) + 1, Len(dict))
      sized == [empty EXCEPT !.dictSize = Len(d)]
      last  == Len(d) - HASH_UNIT
      fast  == Indexed(sized, d, [i \in 1..(last \div 3 + 1) |-> 3 * (i - 1)], FALSE)
  IN  IF Len(dict) < HASH_UNIT THEN empty
      ELSE IF slow THEN Indexed(fast, d, [i \in 1..(last + 1) |-> i - 1], TRUE)
      ELSE fast

(* StreamState::save_dict: only so much of the history was kept.           *)
SaveDict(st, retained) ==
  [st EXCEPT !.dictSize = Smaller(Smaller(retained, Window), st.dictSize)]
==============================================================================
