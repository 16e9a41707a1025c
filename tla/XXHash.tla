------------------------------- MODULE XXHash -------------------------------
(***************************************************************************)
(* The streaming hashes of src/xxh.rs, XXH32 and XXH64, against the        *)
(* one-shot ones.  The arithmetic is left symbolic: an accumulator is the  *)
(* sequence of words it has taken in since its seed, and a hash is what    *)
(* goes into the final mix: the accumulators or the seed alone, the        *)
(* length, and the tail.  What is modelled is where each byte ends up.     *)
(* The two hashes are written alike, line by line, but for the large_len   *)
(* flag of XXH32; each definition stands for both.  A call with a null     *)
(* input changes nothing and is left out.                                  *)
(***************************************************************************)
EXTENDS Integers, Sequences

CONSTANTS
  Lane,     \* bytes in a word: a stripe is one word for each accumulator
  Wrap,     \* the length is kept modulo this
  Sticky,   \* TRUE for XXH32: a flag of its own says a stripe was taken in
  States, Seeds,
  Lengths,  \* lengths of the pieces
  MaxFed    \* bound: bytes fed since a reset

VARIABLES
  state,   \* Xxh32State or Xxh64State: [ready, seed, total, large, v, mem, memsize]
  fed      \* ghost: the bytes fed to each state since its reset

vars == <<state, fed>>

Stripe == 4 * Lane

-----------------------------------------------------------------------------
Seeded(seed) == [i \in 1..4 |-> <<seed>>]

(* A round for each accumulator on the stripe at the front of p.           *)
Rounds(v, p) == [i \in 1..4 |-> Append(v[i], SubSeq(p, (i - 1) * Lane + 1, i * Lane))]

(* A loop over the whole stripes of p.                                     *)
TakenIn(v, p) ==
  LET after[n \in 0..(Len(p) \div Stripe)] ==
        IF n = 0 THEN v ELSE Rounds(after[n - 1], SubSeq(p, (n - 1) * Stripe + 1, Len(p)))
  IN  after[Len(p) \div Stripe]
Leftover(p) == SubSeq(p, Len(p) - (Len(p) % Stripe) + 1, Len(p))

(* xxh32_finalize: of the tail it is given, as much as is less than a      *)
(* stripe.                                                                 *)
Finalize(start, total, tail) ==
  [start |-> start, total |-> total, tail |-> SubSeq(tail, 1, Len(tail) % Stripe)]

Converged(v) == [long |-> TRUE, v |-> v]
Short(lane) == [long |-> FALSE, v |-> lane]

(* xxh32 and xxh64: the hash of data in one call.                          *)
OneShot(data, seed) ==
  Finalize(IF Len(data) >= Stripe THEN Converged(TakenIn(Seeded(seed), data)) ELSE Short(<<seed>>),
           Len(data) % Wrap, Leftover(data))

-----------------------------------------------------------------------------
Zeros == [i \in 1..Stripe |-> 0]
(* createState: not yet a state to hash with.                              *)
Created == [ready |-> FALSE, seed |-> 0, total |-> 0, large |-> FALSE,
            v |-> [i \in 1..4 |-> <<>>], mem |-> Zeros, memsize |-> 0]

ResetState(s, seed) ==
  [ready |-> TRUE, seed |-> seed, total |-> 0, large |-> FALSE, v |-> Seeded(seed),
   mem |-> Zeros, memsize |-> 0]

Filled(mem, at, bytes) ==
  [i \in 1..Stripe |-> IF i \in (at + 1)..(at + Len(bytes)) THEN bytes[i - at] ELSE mem[i]]

(* large_len, which the 64-bit state does without.                         *)
Large(s, input) ==
  s.large \/ Len(input) >= Stripe \/ (s.total + Len(input)) % Wrap >= Stripe

Counted(s, input) ==
  [s EXCEPT !.total = (@ + Len(input)) % Wrap, !.large = Large(s, input)]

Buffer(s, bytes) ==
  [s EXCEPT !.mem = Filled(@, s.memsize, bytes), !.memsize = @ + Len(bytes)]

(* The buffer is completed, taken in and empty again.                      *)
Drain(s, bytes) ==
  LET mem == Filled(s.mem, s.memsize, bytes) IN
  [s EXCEPT !.mem = mem, !.v = Rounds(@, mem), !.memsize = 0]

TakeStripes(s, p) ==
  LET rest == Leftover(p)
      taken == [s EXCEPT !.v = TakenIn(@, p)]
  IN  IF rest = <<>> THEN taken
      ELSE [taken EXCEPT !.mem = Filled(@, 0, rest), !.memsize = Len(rest)]

Updated(s, input) ==
  LET fill == Stripe - s.memsize
      counted == Counted(s, input)
  IN  IF Len(input) < fill THEN Buffer(counted, input)
      ELSE IF s.memsize > 0
           THEN TakeStripes(Drain(counted, SubSeq(input, 1, fill)),
                            SubSeq(input, fill + 1, Len(input)))
           ELSE TakeStripes(counted, input)

(* xxh32_digest goes by the flag, xxh64_digest by the length.  Slip: both  *)
(* by the length.                                                          *)
LongByTotal(s) == s.total >= Stripe
Long(s) == IF Sticky THEN s.large ELSE s.total >= Stripe

Digest(s) ==
  Finalize(IF Long(s) THEN Converged(s.v) ELSE Short(s.v[3]),
           s.total, SubSeq(s.mem, 1, s.memsize))

-----------------------------------------------------------------------------
Reset(id, seed) ==
  /\ state' = [state EXCEPT ![id] = ResetState(@, seed)]
  /\ fed' = [fed EXCEPT ![id] = <<>>]

Update(id, n) ==
  LET input == [i \in 1..n |-> Len(fed[id]) + i] IN
  /\ state[id].ready /\ Len(fed[id]) + n <= MaxFed
  /\ state' = [state EXCEPT ![id] = Updated(@, input)]
  /\ fed' = [fed EXCEPT ![id] = @ \o input]

CopyState(to, from) ==
  /\ state' = [state EXCEPT ![to] = state[from]]
  /\ fed' = [fed EXCEPT ![to] = fed[from]]

Init == state = [id \in States |-> Created] /\ fed = [id \in States |-> <<>>]

Next == \E id \in States :
  \/ \E seed \in Seeds : Reset(id, seed)
  \/ \E n \in Lengths : Update(id, n)
  \/ \E other \in States \ {id} : CopyState(id, other)

Spec == Init /\ [][Next]_vars

-----------------------------------------------------------------------------
(* Properties.                                                             *)

(* Cut into whatever pieces, copied in the middle, and past the wrap of    *)
(* the length: a digest is the hash of all the bytes fed since the reset,  *)
(* computed in one call (xxh.rs 105-200, 269-377).                         *)
DigestIsOneShot ==
  \A id \in States : state[id].ready => Digest(state[id]) = OneShot(fed[id], state[id].seed)

(* Every word in an accumulator is of the stream and in its place, and the *)
(* buffer holds the rest: what a later update or a copy goes on from.      *)
LanesInStep ==
  \A id \in States : state[id].ready =>
    /\ state[id].v = TakenIn(Seeded(state[id].seed), fed[id])
    /\ SubSeq(state[id].mem, 1, state[id].memsize) = Leftover(fed[id])
=============================================================================
