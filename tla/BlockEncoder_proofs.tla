-------------------------- MODULE BlockEncoder_proofs --------------------------
(***************************************************************************)
(* That the block compressor loses nothing: whatever the table and the     *)
(* history are, the block that is written means what was compressed; and   *)
(* that it keeps within its room, and ends as the format asks.  The first  *)
(* part is about BlockFormat: its definitions are recursive functions, and *)
(* the facts about them are proved by induction over numbers, stated here  *)
(* for sets, as the least element of any set of numbers.                   *)
(***************************************************************************)
EXTENDS BlockEncoder, SequenceTheorems, WellFoundedInduction, TLAPS

-----------------------------------------------------------------------------
(* Numbers.                                                                *)

LEMMA NumbersOrdered ==
  \E R : IsWellFoundedOn(R, Nat) /\ \A x, y \in Nat : x < y => <<x, y>> \in R
<1> DEFINE R == OpToRel(<, Nat)
<1>1. IsWellFoundedOn(R, Nat)
  BY NatLessThanWellFounded
<1>2. ASSUME NEW x \in Nat, NEW y \in Nat, x < y PROVE <<x, y>> \in R
  BY <1>2 DEF R, OpToRel
<1> HIDE DEF R
<1>3. QED  BY <1>1, <1>2

(* A set of numbers has a least one.                                       *)
LEMMA LeastNumber ==
  ASSUME NEW T \in SUBSET Nat, T # {}
  PROVE  \E u \in T : \A n \in T : u <= n
<1>1. PICK R : IsWellFoundedOn(R, Nat) /\ \A x, y \in Nat : x < y => <<x, y>> \in R
  BY NumbersOrdered
<1>2. \A S : T \subseteq Nat /\ T # {} /\ IsWellFoundedOn(S, Nat)
               => \E x \in T : \A y \in T : <<y, x>> \notin S
  BY WFMin, Zenon
<1>3. PICK u \in T : \A y \in T : <<y, u>> \notin R
  BY <1>1, <1>2
<1>4. ASSUME NEW n \in T PROVE u <= n
  <2>1. u \in Nat /\ n \in Nat
    OBVIOUS
  <2>2. ~(n < u)
    BY <1>1, <1>3, <2>1, Zenon
  <2>3. QED  BY <2>1, <2>2
<1>5. QED  BY <1>4

(* Induction, for the set of the numbers that have the property.           *)
LEMMA Induction ==
  ASSUME NEW T, 0 \in T, \A n \in Nat : n \in T => n + 1 \in T
  PROVE  Nat \subseteq T
<1> DEFINE U == Nat \ T
<1> SUFFICES ASSUME U # {} PROVE FALSE
  OBVIOUS
<1>1. PICK u \in U : \A n \in U : u <= n
  <2>1. U \in SUBSET Nat
    OBVIOUS
  <2> HIDE DEF U
  <2>2. QED  BY <2>1, LeastNumber
<1>2. u \in Nat /\ u \notin T /\ u # 0
  OBVIOUS
<1>3. u - 1 \in Nat
  BY <1>2
<1>4. u - 1 \in T
  BY <1>1, <1>3
<1>5. (u - 1) + 1 \in T
  BY <1>3, <1>4
<1>6. QED  BY <1>2, <1>5

(* Only the zero multiple of B lies strictly between -B and B.             *)
LEMMA ZeroMultiple ==
  ASSUME NEW B \in Nat \ {0}, NEW k \in Int, B * k < B, B * k > -B
  PROVE  k = 0
<1>1. CASE k >= 1
  <2>1. B * k >= B * 1
    BY <1>1
  <2>2. QED  BY <2>1
<1>2. CASE k <= -1
  <2>1. B * k <= B * (-1)
    BY <1>2
  <2>2. QED  BY <2>1
<1>3. QED  BY <1>1, <1>2

(* Quotient and remainder.                                                 *)
LEMMA DivMod ==
  ASSUME NEW B \in Nat \ {0}, NEW r \in Nat
  PROVE  /\ r \div B \in Nat /\ r % B \in 0..(B - 1)
         /\ B * (r \div B) + (r % B) = r
<1>1. r % B \in 0..(B - 1)
  OBVIOUS
<1>2. r \div B \in Int
  OBVIOUS
<1>3. B * (r \div B) + (r % B) = r
  OBVIOUS
<1>4. r \div B >= 0
  BY <1>1, <1>2, <1>3
<1>5. QED  BY <1>1, <1>2, <1>3, <1>4

(* They are the only ones.                                                 *)
LEMMA DivModUnique ==
  ASSUME NEW B \in Nat \ {0}, NEW r \in Nat, NEW q \in Int,
         NEW u \in 0..(B - 1), B * q + u = r
  PROVE  r \div B = q /\ r % B = u
<1> DEFINE p == r \div B
           s == r % B
<1>1. p \in Nat /\ s \in 0..(B - 1) /\ B * p + s = r
  BY DivMod, Zenon
<1> HIDE DEF p, s
<1>2. B * (q - p) = B * q - B * p
  BY <1>1
<1>3. B * (q - p) = s - u
  BY <1>1, <1>2
<1>4. q - p \in Int /\ B * (q - p) < B /\ B * (q - p) > -B
  BY <1>1, <1>3
<1>5. q - p = 0
  BY <1>4, ZeroMultiple
<1>6. q = p /\ s = u
  BY <1>1, <1>5
<1>7. QED  BY <1>6 DEF p, s

(* One block less.                                                         *)
LEMMA DivModStep ==
  ASSUME NEW B \in Nat \ {0}, NEW r \in Nat, r >= B
  PROVE  r \div B = 1 + ((r - B) \div B) /\ r % B = (r - B) % B
<1> DEFINE p == (r - B) \div B
           s == (r - B) % B
<1>1. p \in Nat /\ s \in 0..(B - 1) /\ B * p + s = r - B
  <2>1. r - B \in Nat
    OBVIOUS
  <2>2. QED  BY <2>1, DivMod, Zenon
<1> HIDE DEF p, s
<1>2. B * (1 + p) = B + B * p
  BY <1>1
<1>3. 1 + p \in Int /\ B * (1 + p) + s = r
  BY <1>1, <1>2
<1>4. r \div B = 1 + p /\ r % B = s
  BY <1>1, <1>3, DivModUnique
<1>5. QED  BY <1>4 DEF p, s

(* Less than a block.                                                      *)
LEMMA DivModSmall ==
  ASSUME NEW B \in Nat \ {0}, NEW r \in Nat, r < B
  PROVE  r \div B = 0 /\ r % B = r
<1>1. B * 0 + r = r /\ r \in 0..(B - 1)
  OBVIOUS
<1>2. QED  BY <1>1, DivModUnique

-----------------------------------------------------------------------------
(* What a block yields, sequence by sequence.                              *)

Grows(g, history, list, n) ==
  g = [i \in 0..n |-> IF i = 0 THEN history ELSE Grown(g[i - 1], list[i])]

LEMMA SomethingGrows ==
  ASSUME NEW history, NEW list
  PROVE  \A n \in Nat : \E g : Grows(g, history, list, n)
<1> DEFINE T == {n \in Nat : \E g : Grows(g, history, list, n)}
<1>1. 0 \in T
  <2> DEFINE g == [i \in 0..0 |-> history]
  <2>1. Grows(g, history, list, 0)
    BY DEF Grows
  <2>2. QED  BY <2>1
<1>2. ASSUME NEW n \in Nat, n \in T PROVE n + 1 \in T
  <2>1. PICK f : Grows(f, history, list, n)
    BY <1>2
  <2> DEFINE x == Grown(f[n], list[n + 1])
             g == [i \in 0..(n + 1) |-> IF i = n + 1 THEN x ELSE f[i]]
  <2>2. g[n] = f[n]
    OBVIOUS
  <2>3. ASSUME NEW i \in 0..(n + 1)
        PROVE  g[i] = IF i = 0 THEN history ELSE Grown(g[i - 1], list[i])
    <3>1. CASE i = n + 1
      <4>1. i - 1 = n /\ i # 0
        BY <3>1
      <4>2. g[i] = x
        BY <3>1
      <4>3. QED  BY <2>2, <3>1, <4>1, <4>2
    <3>2. CASE i = 0
      BY <2>1, <3>2 DEF Grows
    <3>3. CASE i # 0 /\ i # n + 1
      <4>1. i \in 0..n /\ i - 1 \in 0..n
        BY <3>3
      <4>2. g[i] = f[i] /\ g[i - 1] = f[i - 1]
        BY <4>1
      <4>3. f[i] = Grown(f[i - 1], list[i])
        BY <2>1, <3>3, <4>1 DEF Grows
      <4>4. QED  BY <3>3, <4>2, <4>3
    <3>4. QED  BY <3>1, <3>2, <3>3
  <2>4. Grows(g, history, list, n + 1)
    <3>1. g = [i \in 0..(n + 1) |-> g[i]]
      OBVIOUS
    <3> HIDE DEF g
    <3>2. QED  BY <2>3, <3>1, Zenon DEF Grows
  <2>5. QED  BY <2>4
<1> HIDE DEF T
<1>3. Nat \subseteq T
  BY <1>1, <1>2, Induction
<1>4. QED  BY <1>3 DEF T

(* The recursion is a rule that Yields obeys.                              *)
LEMMA YieldsGrows ==
  ASSUME NEW history, NEW list, Len(list) \in Nat
  PROVE  Grows(Yields(history, list), history, list, Len(list))
<1>1. \E g : Grows(g, history, list, Len(list))
  BY SomethingGrows
<1>2. QED  BY <1>1, Zenon DEF Grows, Yields

LEMMA YieldsRule ==
  ASSUME NEW history, NEW list, Len(list) \in Nat
  PROVE  /\ Yields(history, list)[0] = history
         /\ \A i \in 1..Len(list) :
              Yields(history, list)[i] = Grown(Yields(history, list)[i - 1], list[i])
<1> DEFINE y == Yields(history, list)
<1>1. y = [i \in 0..Len(list) |-> IF i = 0 THEN history ELSE Grown(y[i - 1], list[i])]
  BY YieldsGrows DEF Grows
<1> HIDE DEF y
<1>2. y[0] = history
  BY <1>1
<1>3. ASSUME NEW i \in 1..Len(list) PROVE y[i] = Grown(y[i - 1], list[i])
  BY <1>1
<1>4. QED  BY <1>2, <1>3 DEF y

(* What is yielded by the first sequences depends on them alone.           *)
LEMMA YieldsByStart ==
  ASSUME NEW history, NEW s, NEW t, Len(s) \in Nat, Len(t) \in Nat,
         NEW n \in Nat, n <= Len(s), n <= Len(t), \A i \in 1..n : s[i] = t[i]
  PROVE  Yields(history, s)[n] = Yields(history, t)[n]
<1> DEFINE x == Yields(history, s)
           y == Yields(history, t)
<1>1. /\ x[0] = history /\ y[0] = history
      /\ \A i \in 1..Len(s) : x[i] = Grown(x[i - 1], s[i])
      /\ \A i \in 1..Len(t) : y[i] = Grown(y[i - 1], t[i])
  BY YieldsRule
<1> HIDE DEF x, y
<1> DEFINE T == {i \in Nat : i <= n => x[i] = y[i]}
<1>2. 0 \in T
  BY <1>1
<1>3. ASSUME NEW i \in Nat, i \in T PROVE i + 1 \in T
  <2>1. CASE i + 1 <= n
    <3>1. x[i] = y[i] /\ i + 1 \in 1..n /\ (i + 1) - 1 = i
      BY <1>3, <2>1
    <3>2. x[i + 1] = Grown(x[i], s[i + 1]) /\ y[i + 1] = Grown(y[i], t[i + 1])
      BY <1>1, <3>1
    <3>3. QED  BY <3>1, <3>2
  <2>2. QED  BY <2>1
<1> HIDE DEF T
<1>4. Nat \subseteq T
  BY <1>2, <1>3, Induction, Zenon
<1>5. n \in T
  BY <1>4
<1>6. QED  BY <1>5 DEF T, x, y

LEMMA YieldsAppended ==
  ASSUME NEW history, NEW S, NEW list \in Seq(S), NEW s \in S
  PROVE  /\ \A i \in 0..Len(list) :
              Yields(history, Append(list, s))[i] = Yields(history, list)[i]
         /\ Yields(history, Append(list, s))[Len(list) + 1]
              = Grown(Yields(history, list)[Len(list)], s)
<1> DEFINE t == Append(list, s)
<1>1. /\ Len(list) \in Nat /\ Len(t) = Len(list) + 1 /\ t[Len(list) + 1] = s
      /\ \A i \in 1..Len(list) : t[i] = list[i]
  OBVIOUS
<1> HIDE DEF t
<1>2. ASSUME NEW i \in 0..Len(list) PROVE Yields(history, t)[i] = Yields(history, list)[i]
  <2>1. i \in Nat /\ i <= Len(t) /\ i <= Len(list) /\ Len(t) \in Nat
    BY <1>1
  <2>2. \A k \in 1..i : t[k] = list[k]
    BY <1>1
  <2>3. QED  BY <1>1, <2>1, <2>2, YieldsByStart
<1>3. Yields(history, t)[Len(t)] = Grown(Yields(history, t)[Len(t) - 1], t[Len(t)])
  <2>1. Len(t) \in Nat /\ Len(t) \in 1..Len(t)
    BY <1>1
  <2>2. QED  BY <2>1, YieldsRule
<1>4. Len(t) - 1 = Len(list) /\ Len(list) \in 0..Len(list)
  BY <1>1
<1>5. Yields(history, t)[Len(list) + 1] = Grown(Yields(history, list)[Len(list)], s)
  BY <1>1, <1>2, <1>3, <1>4
<1>6. QED  BY <1>2, <1>5 DEF t

-----------------------------------------------------------------------------
(* A match in a text: bytes that are equal to those a distance before them *)
(* are the bytes before it, over and over.                                 *)

Repeats(text, p, d, n) == \A i \in 1..n : text[p + i] = text[p + i - d]
Cycles(text, p, d, n) == \A i \in 1..n : text[p + i] = text[p - d + ((i - 1) % d) + 1]

LEMMA RepeatsCycle ==
  ASSUME NEW text, NEW p \in Nat, NEW d \in 1..p, NEW n \in Nat, Repeats(text, p, d, n)
  PROVE  Cycles(text, p, d, n)
<1> USE DEF Repeats, Cycles
<1> DEFINE Agrees(i) == text[p + i] = text[p - d + ((i - 1) % d) + 1]
           T == {u \in Nat : \A i \in 1..n : i <= u => Agrees(i)}
<1>1. 0 \in T
  OBVIOUS
<1>2. ASSUME NEW u \in Nat, u \in T PROVE u + 1 \in T
  <2> SUFFICES ASSUME u + 1 \in 1..n PROVE Agrees(u + 1)
    <3>1. \A i \in 1..n : i <= u + 1 => i <= u \/ i = u + 1
      OBVIOUS
    <3>2. \A i \in 1..n : i <= u => Agrees(i)
      BY <1>2
    <3> HIDE DEF Agrees
    <3>3. QED  BY <3>1, <3>2
  <2>1. text[p + (u + 1)] = text[p + (u + 1) - d]
    OBVIOUS
  <2>2. d \in Nat \ {0} /\ (u + 1) - 1 = u
    OBVIOUS
  <2>3. CASE u < d
    <3>1. u % d = u
      BY <2>2, <2>3, DivModSmall
    <3>2. p - d + u + 1 = p + (u + 1) - d
      OBVIOUS
    <3>3. QED  BY <2>1, <2>2, <3>1, <3>2, Zenon
  <2>4. CASE u >= d
    <3>1. u % d = (u - d) % d
      BY <2>2, <2>4, DivModStep, Zenon
    <3> DEFINE i == u + 1 - d
    <3>2. i \in 1..n /\ i <= u /\ i - 1 = u - d /\ p + (u + 1) - d = p + i
      BY <2>4
    <3>3. Agrees(i)
      BY <1>2, <3>2
    <3>4. text[p + i] = text[p - d + ((u - d) % d) + 1]
      BY <3>2, <3>3
    <3>5. QED  BY <2>1, <2>2, <3>1, <3>2, <3>4
  <2>5. QED  BY <2>3, <2>4
<1> HIDE DEF T
<1>3. Nat \subseteq T
  BY <1>1, <1>2, Induction
<1>4. n \in T
  BY <1>3
<1>5. QED  BY <1>4 DEF T

(* One after the other.                                                    *)
LEMMA Concatenated ==
  ASSUME NEW S, NEW s \in Seq(S), NEW t \in Seq(S)
  PROVE  /\ s \o t \in Seq(S) /\ Len(s \o t) = Len(s) + Len(t)
         /\ \A i \in 1..(Len(s) + Len(t)) :
              (s \o t)[i] = IF i <= Len(s) THEN s[i] ELSE t[i - Len(s)]
OBVIOUS

(* A part of a sequence.                                                   *)
LEMMA Slice ==
  ASSUME NEW S, NEW s \in Seq(S), NEW a \in Nat, NEW b \in Nat, a <= b, b <= Len(s)
  PROVE  /\ SubSeq(s, a + 1, b) \in Seq(S) /\ Len(SubSeq(s, a + 1, b)) = b - a
         /\ \A i \in 1..(b - a) : SubSeq(s, a + 1, b)[i] = s[a + i]
<1>1. SubSeq(s, a + 1, b) \in Seq(S) /\ Len(SubSeq(s, a + 1, b)) = b - a
  OBVIOUS
<1>2. ASSUME NEW i \in 1..(b - a) PROVE SubSeq(s, a + 1, b)[i] = s[a + i]
  <2>1. SubSeq(s, a + 1, b)[i] = s[(a + 1) + i - 1]
    OBVIOUS
  <2>2. (a + 1) + i - 1 = a + i
    OBVIOUS
  <2>3. QED  BY <2>1, <2>2
<1>3. QED  BY <1>1, <1>2

(* A text that begins with s.                                              *)
Begins(s, text) ==
  Len(s) <= Len(text) /\ \A i \in 1..Len(s) : s[i] = text[i]

Follows(s, t, text) == \A i \in 1..Len(t) : t[i] = text[Len(s) + i]

(* A sequence adds to the start of a text what comes next in it: its       *)
(* literals, and bytes that repeat.                                        *)
LEMMA GrownBegins ==
  ASSUME NEW S, NEW text \in Seq(S), NEW out \in Seq(S), NEW letters \in Seq(S),
         NEW s, s.lits = letters, NEW d, s.offset = d, NEW n \in Nat, s.length = n,
         Begins(out, text), d \in 1..(Len(out) + Len(letters)),
         NEW l, l = Len(out) + Len(letters) + n, l <= Len(text),
         Follows(out, letters, text), Repeats(text, Len(out) + Len(letters), d, n)
  PROVE  /\ Grown(out, s) \in Seq(S) /\ Len(Grown(out, s)) = l
         /\ Begins(Grown(out, s), text)
<1> USE DEF Follows, Repeats
<1> DEFINE o == out \o letters
           p == Len(out) + Len(letters)
           w == Matched(o, d, n)
<1>1. /\ o \in Seq(S) /\ Len(o) = p /\ p \in Nat /\ p <= Len(text)
      /\ \A i \in 1..p : o[i] = IF i <= Len(out) THEN out[i] ELSE letters[i - Len(out)]
  OBVIOUS
<1>2. ASSUME NEW i \in 1..p PROVE o[i] = text[i]
  <2>1. CASE i <= Len(out)
    BY <1>1, <2>1 DEF Begins
  <2>2. CASE i > Len(out)
    <3>1. i - Len(out) \in 1..Len(letters) /\ Len(out) + (i - Len(out)) = i
      BY <2>2
    <3>2. QED  BY <1>1, <2>2, <3>1
  <2>3. QED  BY <2>1, <2>2
<1> HIDE DEF o
<1>3. \A i \in 1..n : text[p + i] = text[p - d + ((i - 1) % d) + 1]
  <2>1. Repeats(text, p, d, n)
    BY Zenon DEF Repeats
  <2>2. p \in Nat /\ d \in 1..p
    BY <1>1
  <2> HIDE DEF p
  <2>3. Cycles(text, p, d, n)
    BY <2>1, <2>2, RepeatsCycle, Zenon
  <2>4. QED  BY <2>3 DEF Cycles
<1> HIDE DEF p
<1>4. ASSUME NEW i \in 1..n PROVE p - d + ((i - 1) % d) + 1 \in 1..p
  <2>1. d \in Nat \ {0} /\ i - 1 \in Nat /\ d <= p
    BY <1>1 DEF p
  <2>2. (i - 1) % d \in 0..(d - 1)
    BY <2>1, DivMod, Zenon
  <2>3. QED  BY <1>1, <2>1, <2>2
<1>5. w = [i \in 1..n |-> o[p - d + ((i - 1) % d) + 1]]
  <2>1. d # 0
    BY <1>1 DEF p
  <2>2. QED  BY <1>1, <2>1 DEF Matched
<1>6. ASSUME NEW i \in 1..n PROVE w[i] = text[p + i] /\ w[i] \in S
  <2>1. w[i] = o[p - d + ((i - 1) % d) + 1]
    BY <1>5
  <2>2. p + i \in 1..Len(text)
    BY <1>1 DEF p
  <2> HIDE DEF w
  <2>3. w[i] = text[p + i]
    BY <1>2, <1>3, <1>4, <2>1, Zenon
  <2>4. QED  BY <2>2, <2>3
<1>7. w \in Seq(S) /\ Len(w) = n
  <2>1. w = [i \in 1..n |-> w[i]]
    BY <1>5
  <2> HIDE DEF w
  <2>2. w \in [1..n -> S]
    BY <1>6, <2>1
  <2>3. n \in Nat /\ DOMAIN w = 1..n
    BY <2>2
  <2>4. w \in Seq(S)
    BY <2>2, <2>3, SeqDef
  <2>5. Len(w) = n
    BY <2>3, <2>4, LenProperties
  <2>6. QED  BY <2>4, <2>5
<1>8. Grown(out, s) = o \o w
  BY DEF Grown, o
<1> HIDE DEF w
<1>9. /\ o \o w \in Seq(S) /\ Len(o \o w) = p + n
      /\ \A i \in 1..(p + n) : (o \o w)[i] = IF i <= p THEN o[i] ELSE w[i - p]
  <2>1. o \in Seq(S) /\ w \in Seq(S) /\ Len(o) = p /\ Len(w) = n
    BY <1>1, <1>7
  <2>2. /\ o \o w \in Seq(S) /\ Len(o \o w) = Len(o) + Len(w)
        /\ \A i \in 1..(Len(o) + Len(w)) :
             (o \o w)[i] = IF i <= Len(o) THEN o[i] ELSE w[i - Len(o)]
    BY <2>1, Concatenated, ZenonT(60)
  <2>3. QED  BY <2>1, <2>2, Zenon
<1>10. ASSUME NEW i \in 1..(p + n) PROVE (o \o w)[i] = text[i]
  <2>1. CASE i <= p
    <3>1. i \in 1..p
      BY <1>1, <2>1
    <3>2. QED  BY <1>2, <1>9, <2>1, <3>1, Zenon
  <2>2. CASE i > p
    <3>1. i - p \in 1..n /\ p + (i - p) = i
      BY <1>1, <2>2
    <3>2. w[i - p] = text[p + (i - p)]
      BY <1>6, <3>1, Zenon
    <3>3. QED  BY <1>1, <1>9, <2>2, <3>1, <3>2, SMTT(60)
  <2>3. p \in Nat
    BY <1>1
  <2>4. i <= p \/ i > p
    BY <2>3
  <2>5. QED  BY <2>1, <2>2, <2>4, Zenon
<1>11. p + n <= Len(text)
  BY DEF p
<1>12. QED  BY <1>8, <1>9, <1>10, <1>11, Zenon DEF Begins, p

-----------------------------------------------------------------------------
(* How many bytes a block is.                                              *)

(* The length bytes of a run of n.                                         *)
LEMMA ExtensionSize ==
  ASSUME NEW n \in Nat
  PROVE  /\ Extension(n) \in Seq(Nat) /\ Len(Extension(n)) \in Nat
         /\ 255 * Len(Extension(n)) <= n + 240 /\ n + 240 < 255 * (Len(Extension(n)) + 1)
<1>1. CASE n < 15
  <2>1. Extension(n) = <<>>
    BY <1>1 DEF Extension
  <2>2. Len(Extension(n)) = 0 /\ Extension(n) \in Seq(Nat)
    BY <2>1
  <2> DEFINE l == Len(Extension(n))
  <2>3. l = 0
    BY <2>2
  <2> HIDE DEF l
  <2>4. l \in Nat /\ 255 * l <= n + 240 /\ n + 240 < 255 * (l + 1)
    BY <1>1, <2>3
  <2>5. QED  BY <2>2, <2>4 DEF l
<1>2. CASE n >= 15
  <2> DEFINE x == n - 15
             q == x \div 255
             r == x % 255
             full == [i \in 1..q |-> 255]
             rest == <<r>>
             l == Len(Extension(n))
  <2>1. x \in Nat /\ 255 \in Nat \ {0}
    BY <1>2
  <2>2. q \in Nat /\ r \in 0..(255 - 1) /\ 255 * q + r = x
    <3> HIDE DEF x
    <3>1. QED  BY <2>1, DivMod
  <2>3. Extension(n) = full \o rest
    BY <1>2 DEF Extension
  <2> HIDE DEF q, r
  <2>4. full \in Seq(Nat) /\ Len(full) = q /\ rest \in Seq(Nat) /\ Len(rest) = 1
    BY <2>2
  <2> HIDE DEF full, rest
  <2>5. full \o rest \in Seq(Nat) /\ Len(full \o rest) = Len(full) + Len(rest)
    BY <2>4, Concatenated, Zenon
  <2>6. l = q + 1
    BY <2>2, <2>3, <2>4, <2>5
  <2> HIDE DEF l
  <2>7. l \in Nat /\ 255 * l <= n + 240 /\ n + 240 < 255 * (l + 1)
    BY <1>2, <2>2, <2>6
  <2>8. QED  BY <2>3, <2>5, <2>7 DEF l
<1>3. QED  BY <1>1, <1>2

LEMMA LastBytesSize ==
  ASSUME NEW letters \in Seq(Nat)
  PROVE  /\ LastBytesOf(letters) \in Seq(Nat)
         /\ Len(LastBytesOf(letters)) = 1 + Len(Extension(Len(letters))) + Len(letters)
<1> DEFINE n == Len(letters)
           e == Extension(n)
           t == <<16 * Nibble(n)>>
<1>1. n \in Nat /\ e \in Seq(Nat) /\ Len(e) \in Nat
  BY ExtensionSize
<1>2. t \in Seq(Nat) /\ Len(t) = 1
  BY <1>1 DEF Nibble
<1>3. LastBytesOf(letters) = t \o e \o letters
  BY DEF LastBytesOf
<1> HIDE DEF n, e, t
<1>4. t \o e \in Seq(Nat) /\ Len(t \o e) = Len(t) + Len(e)
  BY <1>1, <1>2, Concatenated, Zenon
<1>5. (t \o e) \o letters \in Seq(Nat) /\ Len((t \o e) \o letters) = Len(t \o e) + Len(letters)
  BY <1>4, Concatenated
<1>6. QED  BY <1>1, <1>2, <1>3, <1>4, <1>5 DEF n, e

LEMMA SequenceSize ==
  ASSUME NEW s, s.lits \in Seq(Nat), s.offset \in Nat, NEW n \in Nat, s.length = n + MINMATCH
  PROVE  /\ SequenceBytes(s) \in Seq(Nat)
         /\ Len(SequenceBytes(s))
              = 3 + Len(Extension(Len(s.lits))) + Len(s.lits) + Len(Extension(n))
<1> DEFINE k == Len(s.lits)
           e == Extension(k)
           f == Extension(n)
           t == <<16 * Nibble(k) + Nibble(n)>>
           o == <<s.offset % 256, s.offset \div 256>>
           l == s.lits
<1>0. k \in Nat
  OBVIOUS
<1>1. e \in Seq(Nat) /\ Len(e) \in Nat /\ f \in Seq(Nat) /\ Len(f) \in Nat
  <2> HIDE DEF k
  <2>1. e \in Seq(Nat) /\ Len(e) \in Nat
    BY <1>0, ExtensionSize, ZenonT(60)
  <2>2. f \in Seq(Nat) /\ Len(f) \in Nat
    BY ExtensionSize
  <2>3. QED  BY <2>1, <2>2
<1>2. t \in Seq(Nat) /\ Len(t) = 1
  <2> DEFINE x == 16 * Nibble(k) + Nibble(n)
  <2>1. x \in Nat
    <3> HIDE DEF k
    <3>1. QED  BY <1>0 DEF Nibble
  <2> HIDE DEF x
  <2>2. <<x>> \in Seq(Nat) /\ Len(<<x>>) = 1
    BY <2>1
  <2>3. QED  BY <2>2 DEF x
<1>3. o \in Seq(Nat) /\ Len(o) = 2
  <2> DEFINE r == s.offset
  <2>1. 256 \in Nat \ {0} /\ r \in Nat
    OBVIOUS
  <2> HIDE DEF r, k, e, f, t
  <2>2. r % 256 \in 0..(256 - 1) /\ r \div 256 \in Nat
    BY <2>1, DivMod
  <2>3. QED  BY <2>2 DEF r
<1>4. SequenceBytes(s) = t \o e \o l \o o \o f
  <2>1. s.length - MINMATCH = n
    BY DEF MINMATCH
  <2>2. QED  BY <2>1, Zenon DEF SequenceBytes
<1> HIDE DEF e, f, t, o
<1>5. t \o e \in Seq(Nat) /\ Len(t \o e) = Len(t) + Len(e)
  BY <1>1, <1>2, Concatenated, Zenon
<1>6. (t \o e) \o l \in Seq(Nat) /\ Len((t \o e) \o l) = Len(t \o e) + Len(l)
  BY <1>5, Concatenated
<1>7. ((t \o e) \o l) \o o \in Seq(Nat) /\ Len(((t \o e) \o l) \o o) = Len((t \o e) \o l) + Len(o)
  BY <1>3, <1>6, Concatenated, Zenon
<1>8. /\ (((t \o e) \o l) \o o) \o f \in Seq(Nat)
      /\ Len((((t \o e) \o l) \o o) \o f) = Len(((t \o e) \o l) \o o) + Len(f)
  BY <1>1, <1>7, Concatenated
<1>9. Len(SequenceBytes(s)) = 3 + Len(e) + Len(l) + Len(f)
  <2> DEFINE a == Len(t \o e)
             b == Len((t \o e) \o l)
             c == Len(((t \o e) \o l) \o o)
             d == Len((((t \o e) \o l) \o o) \o f)
             E == Len(e)
             F == Len(f)
             L == Len(l)
  <2>1. a = 1 + E /\ b = a + L /\ c = b + 2 /\ d = c + F
    BY <1>2, <1>3, <1>5, <1>6, <1>7, <1>8
  <2>2. E \in Nat /\ F \in Nat /\ L \in Nat
    BY <1>1
  <2>3. Len(SequenceBytes(s)) = d
    BY <1>4
  <2> HIDE DEF a, b, c, d, E, F, L
  <2>4. d = 3 + E + L + F
    BY <2>1, <2>2
  <2>5. QED  BY <2>3, <2>4 DEF E, F, L
<1>10. QED  BY <1>4, <1>8, <1>9, Zenon DEF e, f

Flattens(g, ss, n) == g = [i \in 1..n |-> IF i = 1 THEN ss[i] ELSE g[i - 1] \o ss[i]]

LEMMA SomethingFlattens ==
  ASSUME NEW ss
  PROVE  \A n \in Nat : \E g : Flattens(g, ss, n)
<1> DEFINE T == {n \in Nat : \E g : Flattens(g, ss, n)}
<1>1. 0 \in T
  <2> DEFINE g == [i \in 1..0 |-> 0]
  <2>1. Flattens(g, ss, 0)
    BY DEF Flattens
  <2>2. QED  BY <2>1
<1>2. ASSUME NEW n \in Nat, n \in T PROVE n + 1 \in T
  <2>1. PICK f : Flattens(f, ss, n)
    BY <1>2
  <2> DEFINE x == IF n + 1 = 1 THEN ss[n + 1] ELSE f[n] \o ss[n + 1]
             g == [i \in 1..(n + 1) |-> IF i = n + 1 THEN x ELSE f[i]]
  <2>2. n # 0 => g[n] = f[n]
    OBVIOUS
  <2>3. ASSUME NEW i \in 1..(n + 1)
        PROVE  g[i] = IF i = 1 THEN ss[i] ELSE g[i - 1] \o ss[i]
    <3>1. CASE i = n + 1
      <4>1. i - 1 = n /\ g[i] = x
        BY <3>1
      <4>2. i # 1 => g[i - 1] = f[n]
        BY <2>2, <3>1, <4>1
      <4> HIDE DEF g
      <4>3. QED  BY <3>1, <4>1, <4>2
    <3>2. CASE i # n + 1
      <4>1. i \in 1..n /\ (i # 1 => i - 1 \in 1..n)
        BY <3>2
      <4>2. g[i] = f[i] /\ (i # 1 => g[i - 1] = f[i - 1])
        BY <4>1
      <4>3. f[i] = IF i = 1 THEN ss[i] ELSE f[i - 1] \o ss[i]
        BY <2>1, <4>1, Zenon DEF Flattens
      <4> HIDE DEF g
      <4>4. QED  BY <4>2, <4>3
    <3>3. QED  BY <3>1, <3>2
  <2>4. Flattens(g, ss, n + 1)
    <3>1. g = [i \in 1..(n + 1) |-> g[i]]
      OBVIOUS
    <3> HIDE DEF g
    <3>2. QED  BY <2>3, <3>1, Zenon DEF Flattens
  <2>5. QED  BY <2>4
<1> HIDE DEF T
<1>3. Nat \subseteq T
  BY <1>1, <1>2, Induction
<1>4. QED  BY <1>3 DEF T

LEMMA FlattenIs ==
  ASSUME NEW ss, Len(ss) \in Nat, Len(ss) # 0
  PROVE  \E f : /\ FlattenSeq(ss) = f[Len(ss)]
                /\ \A i \in 1..Len(ss) : f[i] = IF i = 1 THEN ss[i] ELSE f[i - 1] \o ss[i]
<1> DEFINE f == CHOOSE g : Flattens(g, ss, Len(ss))
<1>1. Flattens(f, ss, Len(ss))
  BY SomethingFlattens, Zenon
<1>2. FlattenSeq(ss) = f[Len(ss)]
  BY DEF FlattenSeq, Flattens
<1> HIDE DEF f
<1>3. ASSUME NEW i \in 1..Len(ss) PROVE f[i] = IF i = 1 THEN ss[i] ELSE f[i - 1] \o ss[i]
  BY <1>1, Zenon DEF Flattens
<1>4. QED  BY <1>2, <1>3

LEMMA FlattenTyped ==
  ASSUME NEW S, NEW ss \in Seq(Seq(S))
  PROVE  FlattenSeq(ss) \in Seq(S)
<1>1. CASE Len(ss) = 0
  <2>1. FlattenSeq(ss) = ss
    BY <1>1 DEF FlattenSeq
  <2>2. ss = <<>>
    BY <1>1
  <2>3. QED  BY <2>1, <2>2
<1>2. CASE Len(ss) # 0
  <2>1. Len(ss) \in Nat
    OBVIOUS
  <2>2. PICK f : /\ FlattenSeq(ss) = f[Len(ss)]
                 /\ \A i \in 1..Len(ss) : f[i] = IF i = 1 THEN ss[i] ELSE f[i - 1] \o ss[i]
    BY <1>2, <2>1, FlattenIs
  <2> DEFINE T == {n \in Nat : n \in 1..Len(ss) => f[n] \in Seq(S)}
  <2>3. 0 \in T
    OBVIOUS
  <2>4. ASSUME NEW n \in Nat, n \in T PROVE n + 1 \in T
    <3>1. ASSUME n + 1 \in 1..Len(ss) PROVE f[n + 1] \in Seq(S)
      <4> DEFINE i == n + 1
      <4>1. ss[i] \in Seq(S) /\ i \in 1..Len(ss) /\ i - 1 = n
        BY <3>1
      <4>2. n # 0 => f[n] \in Seq(S)
        BY <2>4, <3>1
      <4>3. n # 0 <=> i # 1
        OBVIOUS
      <4> HIDE DEF i, T
      <4>4. f[i] = IF i = 1 THEN ss[i] ELSE f[i - 1] \o ss[i]
        BY <2>2, <4>1
      <4>5. ASSUME i = 1 PROVE f[i] \in Seq(S)
        BY <4>1, <4>4, <4>5
      <4>6. ASSUME i # 1 PROVE f[i] \in Seq(S)
        <5>1. f[n] \o ss[i] \in Seq(S)
          BY <4>1, <4>2, <4>3, <4>6, Concatenated
        <5>2. f[i] = f[n] \o ss[i]
          BY <4>1, <4>4, <4>6, Zenon
        <5>3. QED  BY <5>1, <5>2
      <4>7. f[i] \in Seq(S)
        BY <4>5, <4>6
      <4>8. QED  BY <4>7 DEF i
    <3>2. n + 1 \in Nat
      OBVIOUS
    <3>3. QED  BY <3>1, <3>2
  <2> HIDE DEF T
  <2>5. Nat \subseteq T
    BY <2>3, <2>4, Induction, Zenon
  <2>6. Len(ss) \in T /\ Len(ss) \in 1..Len(ss)
    BY <1>2, <2>1, <2>5
  <2>7. QED  BY <2>2, <2>6 DEF T
<1>3. QED  BY <1>1, <1>2

LEMMA FlattenAppended ==
  ASSUME NEW S, NEW ss \in Seq(Seq(S)), NEW x \in Seq(S)
  PROVE  Len(FlattenSeq(Append(ss, x))) = Len(FlattenSeq(ss)) + Len(x)
<1> DEFINE tails == Append(ss, x)
           n == Len(ss)
<1>1. /\ n \in Nat /\ Len(tails) = n + 1 /\ tails[n + 1] = x /\ \A i \in 1..n : tails[i] = ss[i]
  OBVIOUS
<1> HIDE DEF tails
<1>2. PICK f : /\ FlattenSeq(tails) = f[n + 1]
               /\ \A i \in 1..(n + 1) : f[i] = IF i = 1 THEN tails[i] ELSE f[i - 1] \o tails[i]
  <2>1. Len(tails) \in Nat /\ Len(tails) # 0
    BY <1>1
  <2>2. \E f : /\ FlattenSeq(tails) = f[Len(tails)]
               /\ \A i \in 1..Len(tails) : f[i] = IF i = 1 THEN tails[i] ELSE f[i - 1] \o tails[i]
    BY <2>1, FlattenIs
  <2>3. QED  BY <1>1, <2>2
<1>3. CASE n = 0
  <2>1. FlattenSeq(tails) = x
    BY <1>1, <1>2, <1>3
  <2>2. FlattenSeq(ss) = ss
    BY <1>3 DEF FlattenSeq
  <2>3. Len(ss) = 0 /\ Len(x) \in Nat
    BY <1>3
  <2>4. QED  BY <2>1, <2>2, <2>3 DEF tails
<1>4. CASE n # 0
  <2>1. PICK g : /\ FlattenSeq(ss) = g[n]
                 /\ \A i \in 1..n : g[i] = IF i = 1 THEN ss[i] ELSE g[i - 1] \o ss[i]
    BY <1>1, <1>4, FlattenIs
  <2> DEFINE T == {i \in Nat : i \in 1..n => f[i] = g[i]}
  <2>2. 0 \in T
    OBVIOUS
  <2>3. ASSUME NEW i \in Nat, i \in T PROVE i + 1 \in T
    <3>1. CASE i + 1 \in 1..n
      <4>1. i + 1 \in 1..(n + 1) /\ tails[i + 1] = ss[i + 1] /\ (i + 1) - 1 = i
        BY <1>1, <3>1
      <4>2. CASE i = 0
        BY <1>2, <2>1, <3>1, <4>1, <4>2
      <4>3. CASE i # 0
        <5>1. i \in 1..n /\ f[i] = g[i] /\ i + 1 # 1
          BY <2>3, <3>1, <4>3
        <5>2. f[i + 1] = f[i] \o tails[i + 1] /\ g[i + 1] = g[i] \o ss[i + 1]
          BY <1>2, <2>1, <3>1, <4>1, <5>1, Zenon
        <5>3. f[i + 1] = g[i + 1]
          BY <4>1, <5>1, <5>2
        <5>4. QED  BY <5>3
      <4>4. QED  BY <4>2, <4>3
    <3>2. QED  BY <3>1
  <2> HIDE DEF T
  <2>4. Nat \subseteq T
    BY <2>2, <2>3, Induction, Zenon
  <2>5. f[n] = g[n]
    <3>1. n \in T /\ n \in 1..n
      BY <1>1, <1>4, <2>4
    <3>2. QED  BY <3>1 DEF T
  <2>6. f[n + 1] = f[n] \o tails[n + 1]
    <3>1. n + 1 \in 1..(n + 1) /\ n + 1 # 1 /\ (n + 1) - 1 = n
      BY <1>1, <1>4
    <3>2. QED  BY <1>2, <3>1, Zenon
  <2>7. FlattenSeq(tails) = FlattenSeq(ss) \o x
    BY <1>1, <1>2, <2>1, <2>5, <2>6
  <2>8. FlattenSeq(ss) \in Seq(S)
    BY FlattenTyped
  <2>9. Len(FlattenSeq(ss) \o x) = Len(FlattenSeq(ss)) + Len(x)
    BY <2>8, Concatenated
  <2>10. QED  BY <2>7, <2>9 DEF tails
<1>5. QED  BY <1>3, <1>4

(* What is laid out of a block's sequences; one more adds its bytes.       *)
Laid(list) == Len(FlattenSeq([i \in 1..Len(list) |-> SequenceBytes(list[i])]))
SequenceSet == [lits : Seq(Nat), offset : Nat, length : {n + MINMATCH : n \in Nat}]

LEMMA BytesOfEach ==
  ASSUME NEW list \in Seq(SequenceSet)
  PROVE  [i \in 1..Len(list) |-> SequenceBytes(list[i])] \in Seq(Seq(Nat))
<1>1. ASSUME NEW i \in 1..Len(list) PROVE SequenceBytes(list[i]) \in Seq(Nat)
  <2> DEFINE s == list[i]
  <2>1. s \in SequenceSet
    OBVIOUS
  <2>2. PICK n \in Nat : s.length = n + MINMATCH
    BY <2>1 DEF SequenceSet
  <2>3. s.lits \in Seq(Nat) /\ s.offset \in Nat
    BY <2>1, Zenon DEF SequenceSet
  <2> HIDE DEF s
  <2>4. SequenceBytes(s) \in Seq(Nat)
    BY <2>2, <2>3, SequenceSize, Zenon
  <2>5. QED  BY <2>4 DEF s
<1>2. Len(list) \in Nat
  OBVIOUS
<1>3. [i \in 1..Len(list) |-> SequenceBytes(list[i])] \in [1..Len(list) -> Seq(Nat)]
  BY <1>1
<1>4. QED  BY <1>2, <1>3

LEMMA LaidAppended ==
  ASSUME NEW list \in Seq(SequenceSet), NEW s \in SequenceSet
  PROVE  /\ Laid(list) \in Nat
         /\ Laid(Append(list, s)) = Laid(list) + Len(SequenceBytes(s))
<1> DEFINE ss == [i \in 1..Len(list) |-> SequenceBytes(list[i])]
           x == SequenceBytes(s)
           tails == [i \in 1..Len(Append(list, s)) |-> SequenceBytes(Append(list, s)[i])]
<1>1. ss \in Seq(Seq(Nat)) /\ tails \in Seq(Seq(Nat))
  <2>1. Append(list, s) \in Seq(SequenceSet)
    OBVIOUS
  <2>2. QED  BY <2>1, BytesOfEach, Zenon
<1>2. x \in Seq(Nat)
  <2>1. PICK n \in Nat : s.length = n + MINMATCH
    BY DEF SequenceSet
  <2>2. s.lits \in Seq(Nat) /\ s.offset \in Nat
    BY DEF SequenceSet
  <2>3. QED  BY <2>1, <2>2, SequenceSize, Zenon
<1>3. tails = Append(ss, x)
  <2>1. Len(list) \in Nat /\ Len(Append(list, s)) = Len(list) + 1 /\ Len(ss) = Len(list)
        /\ Append(list, s)[Len(list) + 1] = s /\ \A i \in 1..Len(list) : Append(list, s)[i] = list[i]
    OBVIOUS
  <2>2. ASSUME NEW i \in 1..(Len(list) + 1) PROVE tails[i] = Append(ss, x)[i]
    <3>1. CASE i <= Len(list)
      <4>1. i \in 1..Len(list) /\ tails[i] = SequenceBytes(list[i]) /\ ss[i] = SequenceBytes(list[i])
        BY <2>1, <3>1
      <4> HIDE DEF ss, tails
      <4>2. Append(ss, x)[i] = ss[i]
        BY <1>1, <1>2, <2>1, <4>1
      <4>3. QED  BY <4>1, <4>2
    <3>2. CASE i = Len(list) + 1
      <4>1. tails[i] = x
        BY <2>1, <3>2
      <4> HIDE DEF ss, tails, x
      <4>2. Append(ss, x)[i] = x
        BY <1>1, <1>2, <2>1, <3>2
      <4>3. QED  BY <4>1, <4>2
    <3>3. QED  BY <2>1, <3>1, <3>2
  <2>3. Len(tails) = Len(list) + 1
    BY <2>1
  <2> HIDE DEF ss, tails, x
  <2>4. Append(ss, x) \in Seq(Seq(Nat)) /\ Len(Append(ss, x)) = Len(list) + 1
    BY <1>1, <1>2, <2>1
  <2> DEFINE N == Len(list) + 1
             uu == Append(ss, x)
  <2> HIDE DEF uu
  <2>5. /\ tails \in Seq(Seq(Nat)) /\ uu \in Seq(Seq(Nat)) /\ Len(tails) = N /\ Len(uu) = N
        /\ \A i \in 1..N : tails[i] = uu[i]
    BY <1>1, <2>2, <2>3, <2>4 DEF uu
  <2> HIDE DEF N
  <2>6. tails = [i \in 1..N |-> tails[i]] /\ uu = [i \in 1..N |-> uu[i]]
    BY <2>5
  <2>7. tails = uu
    BY <2>5, <2>6
  <2>8. QED  BY <2>7 DEF uu
<1> HIDE DEF ss, tails, x
<1>4. Len(FlattenSeq(tails)) = Len(FlattenSeq(ss)) + Len(x)
  BY <1>1, <1>2, <1>3, FlattenAppended
<1>5. Len(FlattenSeq(ss)) \in Nat
  <2>1. FlattenSeq(ss) \in Seq(Nat)
    BY <1>1, FlattenTyped
  <2>2. QED  BY <2>1
<1>6. QED  BY <1>4, <1>5, Zenon DEF Laid, ss, tails, x

LEMMA NothingLaid == Laid(<<>>) = 0
<1> DEFINE ss == [i \in 1..Len(<<>>) |-> SequenceBytes(<<>>[i])]
<1>1. Len(ss) = 0
  OBVIOUS
<1> HIDE DEF ss
<1>2. FlattenSeq(ss) = ss
  BY <1>1 DEF FlattenSeq
<1>3. QED  BY <1>1, <1>2 DEF Laid, ss

LEMMA BlockSize ==
  ASSUME NEW list \in Seq(SequenceSet), NEW rest \in Seq(Nat)
  PROVE  Len(BlockBytes([seqs |-> list, last |-> rest]))
           = Laid(list) + 1 + Len(Extension(Len(rest))) + Len(rest)
<1> DEFINE ss == [i \in 1..Len(list) |-> SequenceBytes(list[i])]
           b == [seqs |-> list, last |-> rest]
<1>1. BlockBytes(b) = FlattenSeq(ss) \o LastBytesOf(rest)
  BY DEF BlockBytes
<1>2. ss \in Seq(Seq(Nat))
  BY BytesOfEach
<1>3. Laid(list) = Len(FlattenSeq(ss))
  BY DEF Laid
<1> HIDE DEF ss
<1>4. FlattenSeq(ss) \in Seq(Nat) /\ Len(FlattenSeq(ss)) \in Nat
  <2>1. FlattenSeq(ss) \in Seq(Nat)
    BY <1>2, FlattenTyped
  <2>2. QED  BY <2>1
<1>5. /\ LastBytesOf(rest) \in Seq(Nat)
      /\ Len(LastBytesOf(rest)) = 1 + Len(Extension(Len(rest))) + Len(rest)
  BY LastBytesSize
<1>6. Len(FlattenSeq(ss) \o LastBytesOf(rest)) = Len(FlattenSeq(ss)) + Len(LastBytesOf(rest))
  BY <1>4, <1>5, Concatenated, Zenon
<1>7. Len(rest) \in Nat /\ Len(Extension(Len(rest))) \in Nat
  BY ExtensionSize
<1>8. QED  BY <1>1, <1>3, <1>4, <1>5, <1>6, <1>7

(* The hash of any bytes is an entry of the table.                         *)
HashAssumption == \A b \in Seq(Nat) : Hash(b) \in 0..(HashSize - 1)

(* The history and the input are one text; index startIndex is where the   *)
(* input begins in it.                                                     *)
Known == HistoryOf(job)
Text == Known \o src
Alike(p, i, n) ==
  \A k \in 0..(n - 1) : src[p + k + 1] = Text[Len(Known) + i - startIndex + k + 1]

-----------------------------------------------------------------------------
(* A call.                                                                 *)

LEMMA Numbers ==
  /\ Window \in Nat \ {0} /\ Wrap \in Nat \ {0} /\ HashSize \in Nat \ {0} /\ Window < Wrap
BY SizesAssumption

LEMMA Small ==
  ASSUME NEW x \in Nat, x < Wrap
  PROVE  x % Wrap = x
BY Numbers, DivModSmall

LEMMA CallTyped ==
  ASSUME Called(job)
  PROVE  /\ src \in Seq(Nat) /\ iend \in Nat /\ olimit \in Nat
         /\ job.content \in Seq(Nat) /\ Len(job.content) \in Nat
         /\ startIndex \in Nat /\ startIndex + iend < Wrap /\ startIndex < Wrap
         /\ tt = "U16" => startIndex + iend < Window + MFLIMIT - 1
         /\ job.st.dictSize \in Nat /\ job.st.dictSize <= startIndex
         /\ HistoryLength(job) \in Nat /\ HistoryLength(job) <= startIndex
         /\ HistoryLength(job) <= Len(job.content)
         /\ job.directive = "ctx" => /\ job.st.dictSize = 0
                                     /\ job.ctx.currentOffset \in Nat
                                     /\ job.ctx.currentOffset <= startIndex
                                     /\ job.ctx.table \in Tables
                                     /\ \A h \in 0..(HashSize - 1) :
                                          job.ctx.table[h] < job.ctx.currentOffset
<1> USE DEF Called, StateTyped
<1>1. /\ src \in Seq(Nat) /\ iend \in Nat /\ olimit \in Nat
      /\ job.content \in Seq(Nat) /\ Len(job.content) \in Nat
  BY DEF src, iend, olimit
<1>2. /\ job.st.currentOffset \in Nat /\ job.st.dictSize \in Nat
      /\ job.st.dictSize <= job.st.currentOffset
  OBVIOUS
<1>3. /\ startIndex \in Nat /\ startIndex + iend < Wrap
      /\ tt = "U16" => startIndex + iend < Window + MFLIMIT - 1
      /\ startIndex < Wrap
  BY <1>1, <1>2, Numbers DEF startIndex, iend, src, tt
<1>4. ASSUME job.directive = "ctx"
      PROVE  /\ job.st.dictSize = 0 /\ job.ctx.currentOffset \in Nat
             /\ job.ctx.currentOffset <= startIndex /\ job.ctx.currentOffset >= 1
             /\ job.ctx.table \in Tables
             /\ job.ctx.dictSize \in Nat /\ job.ctx.dictSize <= startIndex
  BY <1>2, <1>4 DEF startIndex
<1>5. ASSUME job.directive = "ctx", NEW h \in 0..(HashSize - 1)
      PROVE  job.ctx.table[h] < job.ctx.currentOffset
  <2>1. h \in DOMAIN job.ctx.table
    BY <1>4, <1>5, Zenon DEF Tables
  <2>2. job.ctx.table[h] < Larger(1, job.ctx.currentOffset)
    BY <1>5, <2>1 DEF Seen
  <2>3. QED  BY <1>4, <1>5, <2>2 DEF Larger
<1>6. /\ HistoryLength(job) \in Nat /\ HistoryLength(job) <= startIndex
      /\ HistoryLength(job) <= Len(job.content)
  BY <1>2, <1>4 DEF HistoryLength, startIndex
<1>7. QED  BY <1>1, <1>2, <1>3, <1>4, <1>5, <1>6 DEF startIndex

LEMMA TextTyped ==
  ASSUME Called(job)
  PROVE  /\ Known \in Seq(Nat) /\ Len(Known) = HistoryLength(job)
         /\ \A i \in 1..Len(Known) : Known[i] = job.content[i]
         /\ Text \in Seq(Nat) /\ Len(Text) = Len(Known) + iend
         /\ \A i \in 1..Len(Known) : Text[i] = job.content[i]
         /\ \A i \in 1..iend : Text[Len(Known) + i] = src[i]
<1> DEFINE n == HistoryLength(job)
<1>1. job.content \in Seq(Nat) /\ n \in 0..Len(job.content) /\ src \in Seq(Nat) /\ iend \in Nat
  BY CallTyped
<1>2. Known = SubSeq(job.content, 1, n)
  BY DEF Known, HistoryOf
<1> HIDE DEF n
<1>3. Known \in Seq(Nat) /\ Len(Known) = n /\ \A i \in 1..n : Known[i] = job.content[i]
  BY <1>1, <1>2
<1>4. /\ Text \in Seq(Nat) /\ Len(Text) = Len(Known) + Len(src)
      /\ \A i \in 1..(Len(Known) + Len(src)) :
           Text[i] = IF i <= Len(Known) THEN Known[i] ELSE src[i - Len(Known)]
  BY <1>1, <1>3, Concatenated, Zenon DEF Text
<1>5. ASSUME NEW i \in 1..Len(Known) PROVE Text[i] = job.content[i]
  <2>1. i \in 1..(Len(Known) + Len(src)) /\ i <= Len(Known)
    BY <1>1, <1>3 DEF iend
  <2>2. QED  BY <1>3, <1>4, <2>1, Zenon
<1>6. ASSUME NEW i \in 1..iend PROVE Text[Len(Known) + i] = src[i]
  <2>1. /\ Len(Known) + i \in 1..(Len(Known) + Len(src)) /\ ~(Len(Known) + i <= Len(Known))
        /\ (Len(Known) + i) - Len(Known) = i
    BY <1>1, <1>3 DEF iend
  <2>2. QED  BY <1>4, <2>1, Zenon
<1>7. QED  BY <1>3, <1>4, <1>5, <1>6 DEF n, iend

-----------------------------------------------------------------------------
(* Indices, and the bytes they stand for.                                  *)

LEMMA Base ==
  ASSUME Called(job), HistoryWhole, NEW b \in BOOLEAN
  PROVE  /\ HistSize(b) \in Nat /\ HistSize(b) <= startIndex
         /\ HistSize(b) <= Len(Known)
         /\ DictBase(b) = startIndex - HistSize(b) /\ DictBase(b) \in Nat
         /\ HistSize(b) > 0 => HistSize(b) = Len(Known) /\ Len(job.content) = Len(Known)
         /\ ~b /\ job.directive = "ctx" => HistSize(b) = 0
<1> DEFINE size == HistSize(b)
<1>1. /\ startIndex \in Nat /\ startIndex < Wrap /\ HistoryLength(job) \in Nat
      /\ HistoryLength(job) <= startIndex /\ Len(Known) = HistoryLength(job)
      /\ job.directive = "ctx" => job.st.dictSize = 0
  BY CallTyped, TextTyped
<1>2. size \in {0, HistoryLength(job)} /\ (~b /\ job.directive = "ctx" => size = 0)
  BY <1>1 DEF HistSize, HistoryLength
<1> HIDE DEF size
<1>3. startIndex - size \in Nat /\ startIndex - size < Wrap
  BY <1>1, <1>2, Numbers
<1>4. DictBase(b) = startIndex - size
  BY <1>3, Small DEF DictBase, Minus, size
<1>5. Len(Known) \in {0, Len(job.content)}
  BY DEF HistoryWhole, Known
<1>6. QED  BY <1>1, <1>2, <1>3, <1>4, <1>5 DEF size

LEMMA ByteInText ==
  ASSUME Called(job), HistoryWhole, NEW b \in BOOLEAN, NEW i \in Nat,
         i >= DictBase(b), i < startIndex + iend
  PROVE  /\ ByteAt(i, b) = Text[Len(Known) + i - startIndex + 1]
         /\ Len(Known) + i - startIndex >= 0
<1>1. /\ startIndex \in Nat /\ startIndex < Wrap /\ iend \in Nat
      /\ HistSize(b) \in Nat /\ HistSize(b) <= startIndex /\ HistSize(b) <= Len(Known)
      /\ DictBase(b) = startIndex - HistSize(b)
      /\ HistSize(b) > 0 => HistSize(b) = Len(Known)
      /\ Len(Known) \in Nat
  BY Base, CallTyped, TextTyped, Zenon
<1>2. /\ \A k \in 1..Len(Known) : Text[k] = job.content[k]
      /\ \A k \in 1..iend : Text[Len(Known) + k] = src[k]
  BY TextTyped, Zenon
<1>3. CASE i >= startIndex
  <2>1. /\ i - startIndex + 1 \in 1..iend
        /\ Len(Known) + (i - startIndex + 1) = Len(Known) + i - startIndex + 1
    BY <1>1, <1>3
  <2>2. ByteAt(i, b) = src[i - startIndex + 1]
    BY <1>3 DEF ByteAt, Within
  <2>3. QED  BY <1>1, <1>2, <1>3, <2>1, <2>2
<1>4. CASE i < startIndex
  <2> DEFINE x == i - DictBase(b)
  <2>1. x \in Nat /\ x < Wrap /\ HistSize(b) > 0
    BY <1>1, <1>4, Numbers
  <2>2. Minus(i, DictBase(b)) = x
    BY <2>1, Small DEF Minus
  <2>3. ByteAt(i, b) = job.content[x + 1]
    BY <1>1, <1>4, <2>2 DEF ByteAt, Within
  <2>4. x + 1 = Len(Known) + i - startIndex + 1 /\ x + 1 \in 1..Len(Known)
    BY <1>1, <1>4, <2>1
  <2> HIDE DEF x
  <2>5. QED  BY <1>1, <1>2, <1>4, <2>3, <2>4
<1>5. QED  BY <1>1, <1>3, <1>4

(* Four equal bytes are four equal bytes of the text, and lie on one side  *)
(* of where the input begins or, next to it, across.                       *)
LEMMA FourInText ==
  ASSUME Called(job), HistoryWhole, NEW b \in BOOLEAN, NEW i \in Nat, NEW p \in Nat,
         i >= DictBase(b), SameFour(i, p, b)
  PROVE  Alike(p, i, MINMATCH) /\ (i < startIndex => i + MINMATCH <= startIndex)
<1>1. /\ startIndex \in Nat /\ startIndex < Wrap /\ iend \in Nat
      /\ HistSize(b) \in Nat /\ HistSize(b) <= startIndex /\ HistSize(b) <= Len(Known)
      /\ DictBase(b) = startIndex - HistSize(b)
      /\ HistSize(b) > 0 => HistSize(b) = Len(Known) /\ Len(job.content) = Len(Known)
      /\ Len(Known) \in Nat
  BY Base, CallTyped, TextTyped, Zenon
<1>2. /\ \A k \in 1..Len(Known) : Text[k] = job.content[k]
      /\ \A k \in 1..iend : Text[Len(Known) + k] = src[k]
  BY TextTyped
<1>3. CASE i >= startIndex
  <2>1. i - startIndex + 4 <= iend
    BY <1>3 DEF SameFour, Readable4, Within
  <2>2. ASSUME NEW k \in 0..3
        PROVE  src[p + k + 1] = Text[Len(Known) + i - startIndex + k + 1]
    <3>1. src[p + k + 1] = src[i - startIndex + k + 1]
      BY <1>3 DEF SameFour, Within
    <3>2. /\ i - startIndex + k + 1 \in 1..iend
          /\ Len(Known) + (i - startIndex + k + 1) = Len(Known) + i - startIndex + k + 1
      BY <1>1, <1>3, <2>1
    <3>3. QED  BY <1>2, <3>1, <3>2
  <2>3. QED  BY <1>1, <1>3, <2>2 DEF Alike, MINMATCH
<1>4. CASE i < startIndex
  <2> DEFINE x == i - DictBase(b)
  <2>1. x \in Nat /\ x < Wrap /\ HistSize(b) > 0
    BY <1>1, <1>4, Numbers
  <2>2. Minus(i, DictBase(b)) = x
    BY <2>1, Small DEF Minus
  <2>3. ~Within(i)
    BY <1>1, <1>4 DEF Within
  <2>4. x + 4 <= Len(Known)
    BY <1>1, <2>1, <2>2, <2>3, Zenon DEF SameFour, Readable4
  <2>5. ASSUME NEW k \in 0..3
        PROVE  src[p + k + 1] = Text[Len(Known) + i - startIndex + k + 1]
    <3>1. src[p + k + 1] = job.content[x + k + 1]
      BY <2>2, <2>3 DEF SameFour
    <3> DEFINE z == Len(Known)
               y == startIndex
    <3>2. x \in Nat /\ z \in Nat /\ y \in Nat /\ x = z + i - y /\ x + 4 <= z
      BY <1>1, <2>1, <2>4
    <3> HIDE DEF x, z, y
    <3>3. x + k + 1 \in 1..z /\ x + k + 1 = z + i - y + k + 1
      BY <3>2
    <3>4. QED  BY <1>2, <3>1, <3>3 DEF z, y
  <2>6. i + 4 <= startIndex
    BY <1>1, <2>1, <2>4
  <2>7. QED  BY <2>5, <2>6 DEF Alike, MINMATCH
<1>5. QED  BY <1>1, <1>3, <1>4

(* Common, where there is input up to the limit: the first byte that       *)
(* differs, or the limit.                                                  *)
LEMMA CommonIs ==
  ASSUME NEW p \in Nat, NEW i \in Nat, NEW b \in BOOLEAN, NEW n \in Nat, Called(job),
         i + n <= startIndex + iend
  PROVE  /\ Common(p, i, b, p + n) \in 0..n
         /\ \A k \in 0..(Common(p, i, b, p + n) - 1) : src[p + k + 1] = ByteAt(i + k, b)
         /\ Common(p, i, b, p + n) < n
              => src[p + Common(p, i, b, p + n) + 1] # ByteAt(i + Common(p, i, b, p + n), b)
<1> DEFINE apart == {k \in 0..(n - 1) : src[p + k + 1] # ByteAt(i + k, b)}
           r == Common(p, i, b, p + n)
           N == Larger(0, IF Within(i) THEN Smaller(p + n - p, iend - (i - startIndex)) ELSE p + n - p)
<1>0. N = n
  <2>1. startIndex \in Nat /\ iend \in Nat
    BY CallTyped
  <2>2. QED  BY <2>1 DEF Larger, Smaller, Within
<1>1. r = IF apart = {} THEN n ELSE CHOOSE k \in apart : \A j \in apart : k <= j
  <2>1. r = LET there == {k \in 0..(N - 1) : src[p + k + 1] # ByteAt(i + k, b)}
            IN  IF there = {} THEN N ELSE CHOOSE k \in there : \A j \in there : k <= j
    BY DEF Common
  <2> HIDE DEF N
  <2>2. QED  BY <1>0, <2>1
<1>2. CASE apart = {}
  <2>1. r = n /\ \A k \in 0..(n - 1) : src[p + k + 1] = ByteAt(i + k, b)
    BY <1>1, <1>2, Zenon
  <2> HIDE DEF r
  <2>2. r \in 0..n /\ \A k \in 0..(r - 1) : src[p + k + 1] = ByteAt(i + k, b)
    BY <2>1
  <2>3. QED  BY <2>1, <2>2 DEF r
<1>3. CASE apart # {}
  <2>1. apart \in SUBSET Nat
    OBVIOUS
  <2> HIDE DEF apart
  <2>2. \E k \in apart : \A j \in apart : k <= j
    BY <1>3, <2>1, LeastNumber
  <2>3. r = CHOOSE k \in apart : \A j \in apart : k <= j
    BY <1>1, <1>3
  <2> HIDE DEF r
  <2>4. r \in apart /\ \A j \in apart : r <= j
    BY <2>2, <2>3
  <2>5. r \in 0..(n - 1) /\ src[p + r + 1] # ByteAt(i + r, b)
    BY <2>4 DEF apart
  <2>6. ASSUME NEW k \in 0..(r - 1) PROVE src[p + k + 1] = ByteAt(i + k, b)
    <3>1. k \in 0..(n - 1) /\ ~(r <= k)
      BY <2>5
    <3>2. k \notin apart
      BY <2>4, <3>1
    <3>3. QED  BY <3>1, <3>2 DEF apart
  <2>7. QED  BY <2>5, <2>6 DEF r
<1>4. QED  BY <1>2, <1>3

LEMMA CommonAlike ==
  ASSUME Called(job), HistoryWhole, NEW b \in BOOLEAN, NEW p \in Nat, NEW i \in Nat,
         NEW n \in Nat, i >= DictBase(b), i + n <= startIndex + iend
  PROVE  /\ Common(p, i, b, p + n) \in 0..n
         /\ Alike(p, i, Common(p, i, b, p + n))
         /\ \A k \in 0..n : Alike(p, i, k) => k <= Common(p, i, b, p + n)
<1> DEFINE r == Common(p, i, b, p + n)
<1>1. startIndex \in Nat /\ iend \in Nat /\ Len(Known) \in Nat
  BY CallTyped, TextTyped
<1>2. /\ r \in 0..n
      /\ \A k \in 0..(r - 1) : src[p + k + 1] = ByteAt(i + k, b)
      /\ r < n => src[p + r + 1] # ByteAt(i + r, b)
  BY CommonIs
<1> HIDE DEF r
<1>3. ASSUME NEW k \in 0..(n - 1)
      PROVE  ByteAt(i + k, b) = Text[Len(Known) + i - startIndex + k + 1]
  <2>1. i + k \in Nat /\ i + k >= DictBase(b) /\ i + k < startIndex + iend
    <3>1. DictBase(b) \in Nat
      BY Base
    <3>2. QED  BY <1>1, <3>1
  <2>2. ByteAt(i + k, b) = Text[Len(Known) + (i + k) - startIndex + 1]
    BY <2>1, ByteInText
  <2>3. Len(Known) + (i + k) - startIndex + 1 = Len(Known) + i - startIndex + k + 1
    BY <1>1
  <2>4. QED  BY <2>2, <2>3
<1>4. Alike(p, i, r)
  <2>1. \A k \in 0..(r - 1) : k \in 0..(n - 1)
    BY <1>2
  <2>2. QED  BY <1>2, <1>3, <2>1, Zenon DEF Alike
<1>5. ASSUME NEW k \in 0..n, Alike(p, i, k), ~(k <= r) PROVE FALSE
  <2>1. r \in 0..(k - 1) /\ r \in 0..(n - 1) /\ r < n
    BY <1>2, <1>5
  <2>2. src[p + r + 1] = Text[Len(Known) + i - startIndex + r + 1]
    BY <1>5, <2>1, Zenon DEF Alike
  <2>3. QED  BY <1>2, <1>3, <2>1, <2>2
<1>6. QED  BY <1>2, <1>4, <1>5 DEF r

-----------------------------------------------------------------------------
(* A match f at p: it starts some distance back, in the history or in the  *)
(* input, and four bytes of it are equal.                                  *)
Hand(f, p) ==
  /\ f \in [idx : Nat, inDict : BOOLEAN, ext : Nat]
  /\ p \in Nat /\ p + MFLIMIT <= iend
  /\ startIndex + p - f.idx \in 1..(Window - 1) /\ f.idx >= DictBase(f.inDict)
  /\ Alike(p, f.idx, MINMATCH)
  /\ f.inDict => maybeExtMem /\ f.idx + MINMATCH <= startIndex
  /\ maybeExtMem => f.ext = startIndex + p - f.idx /\ (~f.inDict => f.idx >= startIndex)
InHand == Hand(m, ip)

LEMMA AlikeJoined ==
  ASSUME Called(job), NEW p \in Nat, NEW i \in Nat, NEW a \in Nat, NEW b \in Nat
  PROVE  Alike(p, i, a + b) <=> Alike(p, i, a) /\ Alike(p + a, i + a, b)
<1> DEFINE Same(k) == src[p + k + 1] = Text[Len(Known) + i - startIndex + k + 1]
<1>1. startIndex \in Nat /\ Len(Known) \in Nat
  BY CallTyped, TextTyped
<1>2. /\ Alike(p, i, a + b) <=> \A k \in 0..(a + b - 1) : Same(k)
      /\ Alike(p, i, a) <=> \A k \in 0..(a - 1) : Same(k)
  BY DEF Alike
<1>3. Alike(p + a, i + a, b) <=> \A k \in 0..(b - 1) : Same(a + k)
  <2> DEFINE There(k) == src[(p + a) + k + 1] = Text[Len(Known) + (i + a) - startIndex + k + 1]
  <2>1. ASSUME NEW k \in 0..(b - 1) PROVE There(k) <=> Same(a + k)
    <3>1. /\ (p + a) + k + 1 = p + (a + k) + 1
          /\ Len(Known) + (i + a) - startIndex + k + 1 = Len(Known) + i - startIndex + (a + k) + 1
      BY <1>1
    <3>2. QED  BY <3>1
  <2>2. Alike(p + a, i + a, b) <=> \A k \in 0..(b - 1) : There(k)
    BY DEF Alike
  <2> HIDE DEF There, Same
  <2>3. QED  BY <2>1, <2>2
<1> HIDE DEF Same
<1>4. ASSUME \A k \in 0..(a - 1) : Same(k), \A k \in 0..(b - 1) : Same(a + k), NEW k \in 0..(a + b - 1)
      PROVE  Same(k)
  <2>1. CASE k < a
    BY <1>4, <2>1
  <2>2. CASE k >= a
    <3>1. k - a \in 0..(b - 1) /\ a + (k - a) = k
      BY <2>2
    <3>2. Same(a + (k - a))
      BY <1>4, <3>1
    <3>3. QED  BY <3>1, <3>2
  <2>3. QED  BY <2>1, <2>2
<1>5. ASSUME \A k \in 0..(a + b - 1) : Same(k)
      PROVE  (\A k \in 0..(a - 1) : Same(k)) /\ (\A k \in 0..(b - 1) : Same(a + k))
  BY <1>5
<1>6. QED  BY <1>2, <1>3, <1>4, <1>5

(* How far the match goes on: as far as the limit allows, and no less.     *)
LEMMA MatchCodeAlike ==
  ASSUME Called(job), HistoryWhole, InHand
  PROVE  /\ MatchCode \in Nat /\ ip + MINMATCH + MatchCode <= matchlimit
         /\ Alike(ip, m.idx, MINMATCH + MatchCode)
         /\ \A k \in Nat : ip + MINMATCH + k <= matchlimit /\ Alike(ip, m.idx, MINMATCH + k)
              => k <= MatchCode
<1>1. /\ startIndex \in Nat /\ iend \in Nat /\ startIndex < Wrap
      /\ m.idx \in Nat /\ ip \in Nat /\ ip + 12 <= iend /\ m.inDict \in BOOLEAN
      /\ startIndex + ip - m.idx >= 1
      /\ Alike(ip, m.idx, 4)
      /\ m.idx >= DictBase(m.inDict) /\ DictBase(m.inDict) \in Nat
      /\ matchlimit = iend - 5 /\ matchlimit \in Nat
      /\ m.inDict => m.idx + 4 <= startIndex
  <2>1. /\ m.idx \in Nat /\ ip \in Nat /\ m.inDict \in BOOLEAN /\ ip + 12 <= iend
        /\ Alike(ip, m.idx, 4) /\ m.idx >= DictBase(m.inDict)
        /\ m.inDict => m.idx + 4 <= startIndex
    BY DEF InHand, Hand, MFLIMIT, MINMATCH
  <2>2. startIndex \in Nat /\ iend \in Nat /\ startIndex < Wrap
    BY CallTyped
  <2>3. DictBase(m.inDict) \in Nat
    BY <2>1, Base
  <2>4. startIndex + ip - m.idx >= 1
    BY <2>1, <2>2, Numbers DEF InHand, Hand
  <2>5. QED  BY <2>1, <2>2, <2>3, <2>4 DEF matchlimit, LASTLITERALS
<1>2. \A k \in Nat : Alike(ip, m.idx, 4 + k) <=> Alike(ip + 4, m.idx + 4, k)
  BY <1>1, AlikeJoined, Zenon
<1>3. CASE ~m.inDict
  <2>0. m.inDict = FALSE
    BY <1>1, <1>3
  <2> DEFINE n == matchlimit - (ip + 4)
             r == Common(ip + 4, m.idx + 4, m.inDict, matchlimit)
  <2>1. /\ n \in Nat /\ ip + 4 \in Nat /\ m.idx + 4 \in Nat /\ m.idx + 4 >= DictBase(m.inDict)
        /\ (m.idx + 4) + n <= startIndex + iend /\ (ip + 4) + n = matchlimit
    BY <1>1
  <2>2. /\ Common(ip + 4, m.idx + 4, m.inDict, (ip + 4) + n) \in 0..n
        /\ Alike(ip + 4, m.idx + 4, Common(ip + 4, m.idx + 4, m.inDict, (ip + 4) + n))
        /\ \A k \in 0..n : Alike(ip + 4, m.idx + 4, k)
                             => k <= Common(ip + 4, m.idx + 4, m.inDict, (ip + 4) + n)
    <3> HIDE DEF n
    <3>1. QED  BY <1>1, <2>1, CommonAlike, Zenon
  <2>3. /\ r \in 0..n /\ Alike(ip + 4, m.idx + 4, r)
        /\ \A k \in 0..n : Alike(ip + 4, m.idx + 4, k) => k <= r
    BY <2>1, <2>2
  <2>4. MatchCode = r
    <3>1. MatchCode = Common(ip + 4, m.idx + 4, FALSE, matchlimit)
      BY <1>3 DEF MatchCode, MINMATCH
    <3>2. QED  BY <2>0, <3>1, Zenon
  <2> HIDE DEF r
  <2>5. r \in Nat /\ Alike(ip, m.idx, 4 + r) /\ ip + 4 + r <= matchlimit
    BY <1>1, <1>2, <2>3
  <2>6. ASSUME NEW k \in Nat, ip + 4 + k <= matchlimit, Alike(ip, m.idx, 4 + k) PROVE k <= r
    <3>1. Alike(ip + 4, m.idx + 4, k) /\ k \in 0..n
      BY <1>1, <1>2, <2>6
    <3>2. QED  BY <2>3, <3>1
  <2>7. QED  BY <2>4, <2>5, <2>6 DEF MINMATCH
<1>4. CASE m.inDict
  <2>0. m.inDict = TRUE
    BY <1>1, <1>4
  <2> DEFINE limit == Smaller(ip + Minus(startIndex, m.idx), matchlimit)
             n == limit - (ip + 4)
             r == Common(ip + 4, m.idx + 4, m.inDict, limit)
             N == matchlimit - limit
             R == Common(limit, startIndex, m.inDict, matchlimit)
  <2>1. Minus(startIndex, m.idx) = startIndex - m.idx
    <3>1. startIndex - m.idx \in Nat /\ startIndex - m.idx < Wrap
      BY <1>1, <1>4, Numbers
    <3>2. QED  BY <3>1, Small DEF Minus
  <2>2. /\ limit \in Nat /\ n \in Nat /\ N \in Nat /\ limit <= matchlimit
        /\ limit = ip + (startIndex - m.idx) \/ (limit = matchlimit /\ limit < ip + (startIndex - m.idx))
        /\ limit <= ip + (startIndex - m.idx)
    BY <1>1, <1>4, <2>1 DEF Smaller
  <2>3. MatchCode = r + IF ip + 4 + r = limit THEN R ELSE 0
    <3> DEFINE x == Common(ip + 4, m.idx + 4, TRUE, limit)
    <3>1. x = r /\ Common(limit, startIndex, TRUE, matchlimit) = R
      BY <2>0, Zenon
    <3>2. MatchCode = x + IF ip + 4 + x = limit THEN Common(limit, startIndex, TRUE, matchlimit) ELSE 0
      BY <1>4 DEF MatchCode, MINMATCH
    <3> HIDE DEF x, r, R, limit
    <3>3. QED  BY <3>1, <3>2, Zenon
  <2> HIDE DEF limit
  <2>4. /\ ip + 4 \in Nat /\ m.idx + 4 \in Nat /\ m.idx + 4 >= DictBase(m.inDict)
        /\ (m.idx + 4) + n <= startIndex + iend /\ (ip + 4) + n = limit
        /\ startIndex >= DictBase(m.inDict) /\ startIndex + N <= startIndex + iend
        /\ limit + N = matchlimit
    <3>1. m.idx \in Nat /\ ip \in Nat /\ m.idx + 4 <= startIndex /\ m.idx >= DictBase(m.inDict)
          /\ DictBase(m.inDict) \in Nat /\ startIndex \in Nat /\ iend \in Nat
          /\ matchlimit = iend - 5
      BY <1>1, <1>4, Zenon
    <3>2. (m.idx + 4) + n <= startIndex + iend
      BY <2>2, <3>1
    <3>3. QED  BY <2>2, <3>1, <3>2
  <2>5. /\ Common(ip + 4, m.idx + 4, m.inDict, (ip + 4) + n) \in 0..n
        /\ Alike(ip + 4, m.idx + 4, Common(ip + 4, m.idx + 4, m.inDict, (ip + 4) + n))
        /\ \A k \in 0..n : Alike(ip + 4, m.idx + 4, k)
                             => k <= Common(ip + 4, m.idx + 4, m.inDict, (ip + 4) + n)
    <3> HIDE DEF n
    <3>1. QED  BY <1>1, <2>2, <2>4, CommonAlike, Zenon
  <2>6. /\ Common(limit, startIndex, m.inDict, limit + N) \in 0..N
        /\ Alike(limit, startIndex, Common(limit, startIndex, m.inDict, limit + N))
        /\ \A k \in 0..N : Alike(limit, startIndex, k)
                             => k <= Common(limit, startIndex, m.inDict, limit + N)
    <3> HIDE DEF N
    <3>1. QED  BY <1>1, <2>2, <2>4, CommonAlike, Zenon
  <2>7. /\ r \in 0..n /\ Alike(ip + 4, m.idx + 4, r)
        /\ \A k \in 0..n : Alike(ip + 4, m.idx + 4, k) => k <= r
    BY <2>4, <2>5
  <2>8. /\ R \in 0..N /\ Alike(limit, startIndex, R)
        /\ \A k \in 0..N : Alike(limit, startIndex, k) => k <= R
    BY <2>4, <2>6
  <2> HIDE DEF r, R
  <2>9. CASE ip + 4 + r # limit
    <3>1. MatchCode = r /\ r \in Nat /\ Alike(ip, m.idx, 4 + r) /\ ip + 4 + r <= matchlimit
      BY <1>1, <1>2, <2>2, <2>3, <2>7, <2>9
    <3>2. ASSUME NEW k \in Nat, Alike(ip, m.idx, 4 + k), ~(k <= r) PROVE FALSE
      <4>1. /\ r + 1 \in Nat /\ k - (r + 1) \in Nat /\ (r + 1) + (k - (r + 1)) = k
            /\ r + 1 \in 0..n
        BY <1>1, <2>2, <2>7, <2>9, <3>2
      <4>2. Alike(ip + 4, m.idx + 4, k)
        BY <1>2, <3>2
      <4>3. Alike(ip + 4, m.idx + 4, (r + 1) + (k - (r + 1))) => Alike(ip + 4, m.idx + 4, r + 1)
        BY <2>4, <4>1, AlikeJoined, Zenon
      <4>4. r + 1 <= r
        BY <2>7, <4>1, <4>2, <4>3
      <4>5. QED  BY <2>7, <4>4
    <3>3. QED  BY <3>1, <3>2 DEF MINMATCH
  <2>10. CASE ip + 4 + r = limit
    <3>1. r \in Nat /\ R \in Nat /\ MatchCode = r + R /\ r = n
      BY <1>1, <2>2, <2>3, <2>7, <2>8, <2>10
    <3>2. \A k \in 0..N : Alike((ip + 4) + r, (m.idx + 4) + r, k) <=> Alike(limit, startIndex, k)
      <4>1. CASE limit = ip + (startIndex - m.idx)
        <5>1. (ip + 4) + r = limit /\ (m.idx + 4) + r = startIndex
          BY <1>1, <2>10, <3>1, <4>1
        <5>2. QED  BY <5>1
      <4>2. CASE limit = matchlimit
        <5>1. N = 0
          BY <1>1, <4>2
        <5>2. \A x, y : Alike(x, y, 0)
          BY DEF Alike
        <5>3. QED  BY <5>1, <5>2
      <4>3. QED  BY <2>2, <4>1, <4>2
    <3>3. Alike(ip + 4, m.idx + 4, r + R)
      BY <2>4, <2>7, <2>8, <3>1, <3>2, AlikeJoined, Zenon
    <3>4. Alike(ip, m.idx, 4 + (r + R)) /\ ip + 4 + (r + R) <= matchlimit
      BY <1>1, <1>2, <2>2, <2>8, <2>10, <3>1, <3>3
    <3>5. ASSUME NEW k \in Nat, ip + 4 + k <= matchlimit, Alike(ip, m.idx, 4 + k), ~(k <= r + R)
          PROVE FALSE
      <4>1. k - r \in 0..N /\ r + (k - r) = k /\ k - r \in Nat /\ ~(k - r <= R)
        BY <1>1, <2>2, <2>8, <2>10, <3>1, <3>5
      <4>2. Alike(ip + 4, m.idx + 4, k)
        BY <1>2, <3>5
      <4>3. Alike(ip + 4, m.idx + 4, r + (k - r)) => Alike((ip + 4) + r, (m.idx + 4) + r, k - r)
        BY <2>4, <3>1, <4>1, AlikeJoined, Zenon
      <4>4. Alike(limit, startIndex, k - r)
        BY <3>2, <4>1, <4>2, <4>3
      <4>5. QED  BY <2>8, <4>1, <4>4
    <3>6. QED  BY <3>1, <3>4, <3>5 DEF MINMATCH
  <2>11. QED  BY <2>9, <2>10
<1>5. QED  BY <1>1, <1>3, <1>4

LEMMA Index ==
  ASSUME Called(job), NEW p \in Nat, p <= iend
  PROVE  IndexOf(p) = startIndex + p
<1>1. startIndex \in Nat /\ iend \in Nat /\ startIndex + iend < Wrap
  BY CallTyped
<1>2. p + startIndex \in Nat /\ p + startIndex < Wrap
  BY <1>1, Numbers
<1>3. QED  BY <1>1, <1>2, Small DEF IndexOf

-----------------------------------------------------------------------------
(* An accepted candidate is a match.                                       *)
LEMMA AcceptedInHand ==
  ASSUME Called(job), HistoryWhole, NEW e \in Nat, NEW h \in 0..(HashSize - 1), NEW p \in Nat,
         p + MFLIMIT <= iend, e < startIndex + p,
         Accepted(Candidate(e, h), p, IndexOf(p))
  PROVE  Hand(MatchOf(Candidate(e, h), IndexOf(p)), p)
<1> DEFINE c == Candidate(e, h)
           f == MatchOf(c, IndexOf(p))
           b == maybeExtMem /\ e < startIndex
<1>1. /\ startIndex \in Nat /\ iend \in Nat /\ startIndex + iend < Wrap /\ startIndex < Wrap
      /\ tt = "U16" => startIndex + iend < Window + 11
      /\ IndexOf(p) = startIndex + p
  <2>1. p <= iend
    BY CallTyped DEF MFLIMIT
  <2>2. QED  BY <2>1, CallTyped, Index DEF MFLIMIT
<1>2. c.inDict \in BOOLEAN /\ (c.inDict <=> b)
  <2>1. c.inDict = b
    BY DEF Candidate
  <2>2. b \in BOOLEAN
    OBVIOUS
  <2> HIDE DEF b, c
  <2>3. QED  BY <2>1, <2>2
<1>3. c.idx \in Nat /\ c.idx < startIndex + p /\ (c.inDict => c.idx < startIndex) /\ (~c.inDict => c.idx = e)
  <2>1. CASE job.directive = "ctx" /\ b
    <3> DEFINE t == job.ctx.table[h]
               o == job.ctx.currentOffset
    <3>1. t \in Nat /\ o \in Nat /\ t < o /\ o <= startIndex
      BY <2>1, CallTyped, Zenon DEF Tables
    <3>2. c.idx = (t + Minus(startIndex, o)) % Wrap
      BY <2>1 DEF Candidate
    <3> HIDE DEF t, o, c
    <3>3. startIndex - o \in Nat /\ startIndex - o < Wrap
      BY <1>1, <3>1, Numbers
    <3>4. Minus(startIndex, o) = startIndex - o
      BY <3>3, Small DEF Minus
    <3>5. t + (startIndex - o) \in Nat /\ t + (startIndex - o) < Wrap /\ t + (startIndex - o) < startIndex
      BY <1>1, <3>1, Numbers
    <3>6. c.idx = t + (startIndex - o)
      BY <3>2, <3>4, <3>5, Small
    <3>7. c.idx \in Nat /\ c.idx < startIndex /\ c.idx < startIndex + p
      BY <1>1, <3>5, <3>6
    <3>8. c.inDict
      BY <1>2, <2>1
    <3>9. QED  BY <3>7, <3>8
  <2>2. CASE ~(job.directive = "ctx" /\ b)
    <3>1. c.idx = e
      BY <2>2 DEF Candidate
    <3> HIDE DEF c
    <3>2. QED  BY <1>1, <1>2, <3>1
  <2>3. QED  BY <2>1, <2>2
<1>4. /\ f = [idx |-> c.idx, inDict |-> c.inDict, ext |-> IF maybeExtMem THEN Minus(IndexOf(p), c.idx) ELSE 0]
      /\ c.idx >= DictBase(c.inDict) /\ NearEnough(c.idx, IndexOf(p)) /\ SameFour(c.idx, p, c.inDict)
  BY DEF MatchOf, Accepted, NotTooOld
<1> HIDE DEF c
<1>5. Minus(IndexOf(p), c.idx) = startIndex + p - c.idx
  <2> DEFINE x == IndexOf(p) - c.idx
  <2>1. x \in Nat /\ x < Wrap /\ x = startIndex + p - c.idx
    BY <1>1, <1>3, Numbers DEF MFLIMIT
  <2>2. Minus(IndexOf(p), c.idx) = x % Wrap
    BY DEF Minus
  <2> HIDE DEF x
  <2>3. QED  BY <2>1, <2>2, Small
<1>6. /\ f.idx = c.idx /\ f.inDict = c.inDict
      /\ f.ext = IF maybeExtMem THEN startIndex + p - c.idx ELSE 0
      /\ f \in [idx : Nat, inDict : BOOLEAN, ext : Nat]
  <2>1. (IF maybeExtMem THEN startIndex + p - c.idx ELSE 0) \in Nat
    BY <1>1, <1>3
  <2>2. QED  BY <1>2, <1>3, <1>4, <1>5, <2>1
<1> HIDE DEF f
<1>7. Alike(p, c.idx, MINMATCH) /\ (c.idx < startIndex => c.idx + MINMATCH <= startIndex)
  BY <1>2, <1>3, <1>4, FourInText
<1>8. startIndex + p - c.idx \in 1..(Window - 1)
  <2>1. CASE tt = "U16"
    BY <1>1, <1>3, <2>1, Numbers DEF MFLIMIT
  <2>2. CASE tt # "U16"
    BY <1>1, <1>3, <1>4, <2>2, Numbers DEF NearEnough
  <2>3. QED  BY <2>1, <2>2
<1>9. c.inDict => maybeExtMem /\ c.idx + MINMATCH <= startIndex
  BY <1>2, <1>3, <1>7
<1>10. maybeExtMem /\ ~c.inDict => c.idx >= startIndex
  BY <1>1, <1>2, <1>3
<1>11. Hand(f, p)
  <2>1. Alike(p, f.idx, MINMATCH) /\ f.idx >= DictBase(f.inDict)
    BY <1>4, <1>6, <1>7, Zenon
  <2>2. startIndex + p - f.idx \in 1..(Window - 1)
    BY <1>6, <1>8
  <2>3. f.inDict => maybeExtMem /\ f.idx + MINMATCH <= startIndex
    BY <1>6, <1>9
  <2>4. maybeExtMem => f.ext = startIndex + p - f.idx /\ (~f.inDict => f.idx >= startIndex)
    BY <1>6, <1>10
  <2>5. QED  BY <1>6, <2>1, <2>2, <2>3, <2>4 DEF Hand
<1>12. QED  BY <1>11 DEF f, c

-----------------------------------------------------------------------------
(* Walking a match back keeps it a match, and adds to it the bytes walked  *)
(* over.                                                                   *)
Stays(k) ==
  /\ k > 0 => IndexOf(ip - k) > IndexOf(anchor)
  /\ m.idx - k > LowLimit
  /\ src[ip - k] = ByteAt(m.idx - k - 1, m.inDict)

LEMMA CaughtUpIs ==
  ASSUME Called(job), ip \in Nat, ip + MFLIMIT <= iend, anchor \in Nat, anchor < ip
  PROVE  /\ CaughtUp \in 0..(ip - anchor) /\ \A k \in 0..(CaughtUp - 1) : Stays(k)
<1> DEFINE Holds(n) == (\A k \in 0..(n - 1) : Stays(k)) /\ ~Stays(n)
           stops == {n \in Nat : ~Stays(n)}
<1>1. CaughtUp = CHOOSE n \in 0..ip : Holds(n)
  BY DEF CaughtUp, Stays
<1>2. ip \in Nat /\ ip - anchor \in Nat /\ ip - anchor > 0 /\ ip - (ip - anchor) = anchor
  OBVIOUS
<1>3. IndexOf(anchor) \in Int
  <2>1. iend \in Nat /\ startIndex \in Nat /\ ip + 12 <= iend
    BY CallTyped DEF MFLIMIT
  <2>2. anchor <= iend
    BY <1>2, <2>1
  <2>3. IndexOf(anchor) = startIndex + anchor
    BY <2>2, Index
  <2>4. QED  BY <2>1, <2>3
<1>4. ip - anchor \in stops
  BY <1>2, <1>3 DEF Stays
<1>5. PICK n \in stops : \A k \in stops : n <= k
  <2>1. stops \in SUBSET Nat /\ stops # {}
    BY <1>4
  <2> HIDE DEF stops
  <2>2. QED  BY <2>1, LeastNumber
<1>6. n \in 0..(ip - anchor) /\ n \in 0..ip /\ Holds(n)
  <2>1. n \in Nat /\ n <= ip - anchor /\ ~Stays(n)
    BY <1>4, <1>5
  <2>2. ASSUME NEW k \in 0..(n - 1) PROVE Stays(k)
    <3>1. k \in Nat /\ ~(n <= k)
      BY <2>1
    <3>2. QED  BY <1>5, <3>1
  <2>3. QED  BY <1>2, <2>1, <2>2
<1> HIDE DEF Holds
<1>7. CaughtUp \in 0..ip /\ Holds(CaughtUp)
  BY <1>1, <1>6
<1>8. CaughtUp \in 0..(ip - anchor)
  <2>1. ASSUME CaughtUp > ip - anchor PROVE FALSE
    <3>1. n \in 0..(CaughtUp - 1)
      BY <1>2, <1>6, <1>7, <2>1
    <3>2. Stays(n) /\ ~Stays(n)
      BY <1>6, <1>7, <3>1 DEF Holds
    <3>3. QED  BY <3>2
  <2>2. QED  BY <1>2, <1>7, <2>1
<1>9. QED  BY <1>7, <1>8 DEF Holds

LEMMA WalkedBack ==
  ASSUME Called(job), HistoryWhole, InHand, anchor \in Nat, anchor < ip, NEW n, n = CaughtUp
  PROVE  /\ n \in 0..(ip - anchor) /\ m.idx - n \in Nat
         /\ Hand([m EXCEPT !.idx = @ - n], ip - n)
         /\ Alike(ip - n, m.idx - n, n + MINMATCH)
<1>1. n \in 0..(ip - anchor) /\ \A k \in 0..(n - 1) : Stays(k)
  <2>1. ip \in Nat /\ ip + MFLIMIT <= iend
    BY DEF InHand, Hand
  <2>2. QED  BY <2>1, CaughtUpIs
<1>2. /\ startIndex \in Nat /\ iend \in Nat /\ startIndex < Wrap
      /\ m.idx \in Nat /\ ip \in Nat /\ ip + 12 <= iend /\ m.inDict \in BOOLEAN
      /\ startIndex + ip - m.idx >= 1
      /\ Alike(ip, m.idx, 4)
      /\ m.idx >= DictBase(m.inDict) /\ DictBase(m.inDict) \in Nat
      /\ DictBase(m.inDict) <= startIndex
      /\ maybeExtMem /\ ~m.inDict => m.idx >= startIndex
      /\ Len(Known) \in Nat
  <2>1. /\ m.idx \in Nat /\ ip \in Nat /\ m.inDict \in BOOLEAN /\ ip + 12 <= iend
        /\ Alike(ip, m.idx, 4) /\ m.idx >= DictBase(m.inDict)
        /\ maybeExtMem /\ ~m.inDict => m.idx >= startIndex
    BY DEF InHand, Hand, MFLIMIT, MINMATCH
  <2>2. startIndex \in Nat /\ iend \in Nat /\ startIndex < Wrap
    BY CallTyped
  <2>3. DictBase(m.inDict) \in Nat /\ DictBase(m.inDict) <= startIndex /\ Len(Known) \in Nat
    <3>1. /\ HistSize(m.inDict) \in Nat /\ DictBase(m.inDict) = startIndex - HistSize(m.inDict)
          /\ DictBase(m.inDict) \in Nat
      BY <2>1, Base
    <3>2. QED  BY <2>2, <3>1, TextTyped
  <2>4. startIndex + ip - m.idx >= 1
    BY <2>1, <2>2, Numbers DEF InHand, Hand
  <2>5. QED  BY <2>1, <2>2, <2>3, <2>4
<1>3. /\ LowLimit \in Nat /\ LowLimit >= DictBase(m.inDict)
      /\ maybeExtMem /\ ~m.inDict => LowLimit = startIndex
  BY <1>2 DEF LowLimit, maybeExtMem
<1>4. n > 0 => m.idx - n >= LowLimit
  <2>1. n > 0 => m.idx - (n - 1) > LowLimit
    BY <1>1 DEF Stays
  <2>2. QED  BY <1>1, <1>2, <1>3, <2>1
<1>5. m.idx - n \in Nat /\ ip - n \in Nat /\ m.idx - n >= DictBase(m.inDict)
      /\ (maybeExtMem /\ ~m.inDict => m.idx - n >= startIndex)
  BY <1>1, <1>2, <1>3, <1>4
<1>50. /\ n \in Nat /\ ip \in Nat /\ ip - n \in Nat /\ m.idx \in Nat /\ m.idx - n \in Nat
       /\ startIndex \in Nat /\ iend \in Nat /\ ip + 12 <= iend /\ startIndex + ip - m.idx >= 1
       /\ DictBase(m.inDict) \in Nat /\ m.idx - n >= DictBase(m.inDict) /\ Len(Known) \in Nat
  BY <1>1, <1>2, <1>5
<1>6. Alike(ip - n, m.idx - n, n)
  <2>1. ASSUME NEW j \in 0..(n - 1)
        PROVE  src[ip - n + j + 1] = Text[Len(Known) + (m.idx - n) - startIndex + j + 1]
    <3> DEFINE k == n - 1 - j
               i == m.idx - k - 1
    <3>1. k \in 0..(n - 1) /\ ip - k = ip - n + j + 1 /\ i = m.idx - n + j
      BY <1>1, <1>2
    <3>2. i \in Nat /\ i >= DictBase(m.inDict) /\ i < startIndex + iend
      BY <1>50, <3>1, SMTT(60)
    <3>3. src[ip - k] = ByteAt(i, m.inDict)
      BY <1>1, <3>1 DEF Stays
    <3> HIDE DEF i, k
    <3>4. ByteAt(i, m.inDict) = Text[Len(Known) + i - startIndex + 1]
      BY <1>2, <3>2, ByteInText, Zenon
    <3>5. Len(Known) + i - startIndex + 1 = Len(Known) + (m.idx - n) - startIndex + j + 1
      <4> DEFINE x == m.idx
                 y == Len(Known)
                 z == startIndex
      <4>1. x \in Nat /\ y \in Nat /\ z \in Nat /\ n \in Nat /\ j \in Nat
        BY <1>50
      <4>2. i = x - n + j
        BY <3>1
      <4> HIDE DEF x, y, z
      <4>3. y + i - z + 1 = y + (x - n) - z + j + 1
        BY <4>1, <4>2
      <4>4. QED  BY <4>3 DEF x, y, z
    <3>6. QED  BY <3>1, <3>3, <3>4, <3>5
  <2>2. QED  BY <2>1 DEF Alike
<1>7. Alike(ip - n, m.idx - n, n + 4)
  <2>1. n \in Nat /\ (ip - n) + n = ip /\ (m.idx - n) + n = m.idx /\ 4 \in Nat
    BY <1>50
  <2> DEFINE p == ip - n
             i == m.idx - n
  <2>2. p \in Nat /\ i \in Nat /\ Alike(p, i, n) /\ Alike(p + n, i + n, 4)
    BY <1>2, <1>50, <1>6, <2>1
  <2> HIDE DEF p, i
  <2>3. Alike(p, i, n + 4) <=> Alike(p, i, n) /\ Alike(p + n, i + n, 4)
    BY <2>1, <2>2, AlikeJoined
  <2>4. QED  BY <2>2, <2>3 DEF p, i
<1>8. Alike(ip - n, m.idx - n, 4)
  <2>1. n \in Nat /\ n + 4 = 4 + n
    BY <1>1
  <2>2. Alike(ip - n, m.idx - n, 4 + n)
    BY <1>7, <2>1
  <2>3. QED  BY <1>5, <2>1, <2>2, AlikeJoined, Zenon
<1> DEFINE f == [m EXCEPT !.idx = @ - n]
<1>9. /\ f.idx = m.idx - n /\ f.inDict = m.inDict /\ f.ext = m.ext
      /\ f \in [idx : Nat, inDict : BOOLEAN, ext : Nat]
  BY <1>5 DEF InHand, Hand
<1> HIDE DEF f
<1>10. Hand(f, ip - n)
  <2>1. Alike(ip - n, f.idx, MINMATCH) /\ f.idx >= DictBase(f.inDict)
    BY <1>5, <1>8, <1>9, Zenon DEF MINMATCH
  <2>2. startIndex + (ip - n) - f.idx = startIndex + ip - m.idx
    BY <1>1, <1>2, <1>9
  <2>3. ip - n \in Nat /\ (ip - n) + MFLIMIT <= iend
    BY <1>1, <1>2 DEF MFLIMIT
  <2>4. f.inDict => maybeExtMem /\ f.idx + MINMATCH <= startIndex
    <3>1. m.inDict => maybeExtMem /\ m.idx + 4 <= startIndex
      BY DEF InHand, Hand, MINMATCH
    <3>2. QED  BY <1>1, <1>2, <1>9, <3>1 DEF MINMATCH
  <2>5. maybeExtMem => f.ext = startIndex + (ip - n) - f.idx /\ (~f.inDict => f.idx >= startIndex)
    <3>1. maybeExtMem => m.ext = startIndex + ip - m.idx
      BY DEF InHand, Hand
    <3>2. QED  BY <1>5, <1>9, <2>2, <3>1
  <2>6. startIndex + (ip - n) - f.idx \in 1..(Window - 1)
    BY <2>2 DEF InHand, Hand
  <2>7. QED  BY <1>9, <2>1, <2>3, <2>4, <2>5, <2>6 DEF Hand
<1>11. QED  BY <1>1, <1>5, <1>7, <1>10 DEF f, MINMATCH

-----------------------------------------------------------------------------
(* Sizes.                                                                  *)

(* Cut or not, what is written of the match is no more than there is.      *)
LEMMA WrittenOfMatch ==
  ASSUME Called(job), NEW n \in Nat, op \in Nat,
         job.fill => op + 2 + 1 + MFLIMIT - MINMATCH <= olimit,
         ~job.fill => ~NoRoomForLength(n)
  PROVE  /\ MatchCodeWritten(n) \in 0..n
         /\ ~NoRoomForLength(n) => MatchCodeWritten(n) = n
<1>1. CASE ~NoRoomForLength(n)
  BY <1>1 DEF MatchCodeWritten
<1>2. CASE NoRoomForLength(n)
  <2> DEFINE q == (n + 240) \div 255
             w == olimit - op - 8
  <2>1. olimit \in Nat /\ op + 11 <= olimit
    <3>1. job.fill
      BY <1>2
    <3>2. QED  BY <3>1, CallTyped DEF MFLIMIT, MINMATCH
  <2>2. q \in Nat /\ (n + 240) % 255 \in 0..254 /\ 255 * q + ((n + 240) % 255) = n + 240
    <3>1. n + 240 \in Nat /\ 255 \in Nat \ {0}
      OBVIOUS
    <3>2. QED  BY <3>1, DivMod
  <2>3. op + 2 + 6 + q > olimit
    BY <1>2 DEF NoRoomForLength, OffsetSize, LASTLITERALS
  <2>4. MatchCodeWritten(n) = 14 + w * 255
    BY <1>2, <2>1 DEF MatchCodeWritten, MatchRoom, OffsetSize, LASTLITERALS
  <2> HIDE DEF q
  <2>5. w \in Nat /\ q >= w + 1
    BY <2>1, <2>2, <2>3
  <2> HIDE DEF w
  <2>6. 14 + w * 255 \in 0..n
    BY <2>2, <2>5
  <2>7. QED  BY <1>2, <2>4, <2>6
<1>3. QED  BY <1>1, <1>2

(* And of the last literals.                                               *)
LEMMA WrittenOfLast ==
  ASSUME Called(job), op \in Nat, anchor \in 0..iend, ~LastFits, ~NoneFits
  PROVE  LastRunCut \in 0..LastRun
<1> DEFINE r == olimit - op - 1
           p == (r + 241) \div 256
           q == (LastRun + 240) \div 255
<1>1. olimit \in Nat /\ iend \in Nat
  BY CallTyped
<1>2. LastRun \in Nat /\ r \in Nat
  BY <1>1 DEF NoneFits, LastRun
<1>3. p \in Nat /\ (r + 241) % 256 \in 0..255 /\ 256 * p + ((r + 241) % 256) = r + 241
  <2> DEFINE x == r + 241
  <2>1. x \in Nat /\ 256 \in Nat \ {0}
    BY <1>2
  <2> HIDE DEF x
  <2>2. x \div 256 \in Nat /\ x % 256 \in 0..255 /\ 256 * (x \div 256) + (x % 256) = x
    BY <2>1, DivMod
  <2>3. QED  BY <2>2 DEF x
<1>4. q \in Nat /\ (LastRun + 240) % 255 \in 0..254 /\ 255 * q + ((LastRun + 240) % 255) = LastRun + 240
  <2> DEFINE x == LastRun + 240
  <2>1. x \in Nat /\ 255 \in Nat \ {0}
    BY <1>2
  <2> HIDE DEF x
  <2>2. x \div 255 \in Nat /\ x % 255 \in 0..254 /\ 255 * (x \div 255) + (x % 255) = x
    BY <2>1, DivMod
  <2>3. QED  BY <2>2 DEF x
<1>5. op + LastRun + 1 + q > olimit
  <2>1. ~(op + LastRun + 1 + ((LastRun + 255 - 15) \div 255) <= olimit)
    BY DEF LastFits, RUN_MASK
  <2>2. LastRun + 255 - 15 = LastRun + 240
    BY <1>2
  <2>3. ~(op + LastRun + 1 + q <= olimit)
    BY <2>1, <2>2
  <2> HIDE DEF q, r, p
  <2>4. QED  BY <1>1, <1>2, <1>4, <2>3
<1>6. LastRunCut = r - p
  <2>1. r + 256 - 15 = r + 241
    BY <1>2
  <2>2. QED  BY <2>1 DEF LastRunCut, RUN_MASK
<1>7. r < LastRun + q
  BY <1>1, <1>2, <1>4, <1>5
<1> HIDE DEF p, q, r
<1>8. p <= r
  BY <1>2, <1>3
<1>9. r - p <= LastRun
  <2>1. CASE p >= q
    BY <1>2, <1>3, <1>4, <1>7, <2>1
  <2>2. CASE p < q
    BY <1>2, <1>3, <1>4, <2>2
  <2>3. QED  BY <1>3, <1>4, <2>1, <2>2
<1>10. QED  BY <1>2, <1>3, <1>6, <1>8, <1>9

-----------------------------------------------------------------------------
(* The table.                                                              *)

LEMMA Hashed ==
  ASSUME Called(job), HashAssumption, NEW p \in Nat, p + HASH_UNIT <= iend
  PROVE  HashPosition(src, p, tt) \in 0..(HashSize - 1)
<1>1. src \in Seq(Nat) /\ iend = Len(src) /\ p + 8 <= Len(src)
  BY CallTyped DEF iend, HASH_UNIT
<1> DEFINE n == IF tt = "U16" THEN 4 ELSE 8
           k == IF tt = "U16" THEN 4 ELSE 5
           word == SubSeq(src, p + 1, p + n)
<1>2. n \in {4, 8} /\ k \in 1..n
  OBVIOUS
<1>3. HashPosition(src, p, tt) = Hash(SubSeq(word, 1, k))
  BY DEF HashPosition, HASH_UNIT
<1> HIDE DEF n, k
<1>4. word \in Seq(Nat) /\ Len(word) = n
  BY <1>1, <1>2
<1> HIDE DEF word
<1>5. SubSeq(word, 1, k) \in Seq(Nat)
  BY <1>2, <1>4
<1>6. QED  BY <1>3, <1>5, Zenon DEF HashAssumption

(* An index within a block goes into its table unshortened.                *)
LEMMA PutIs ==
  ASSUME Called(job), NEW table \in Tables, NEW h \in 0..(HashSize - 1), NEW p \in Nat,
         p + MFLIMIT <= iend
  PROVE  Put(table, tt, h, startIndex + p) = [table EXCEPT ![h] = startIndex + p]
<1>1. /\ startIndex \in Nat /\ iend \in Nat /\ startIndex + iend < Wrap
      /\ tt = "U16" => startIndex + iend < Window + 11
  BY CallTyped DEF MFLIMIT
<1> DEFINE x == startIndex + p
<1>2. x \in Nat /\ x < Wrap /\ (tt = "U16" => x < Window)
  BY <1>1, Numbers DEF MFLIMIT
<1> HIDE DEF x
<1>3. x % Width(tt) = x
  <2>1. CASE tt = "U16"
    <3>1. x % Window = x
      BY <1>2, <2>1, Numbers, DivModSmall
    <3>2. QED  BY <2>1, <3>1 DEF Width
  <2>2. CASE tt # "U16"
    <3>1. x % Wrap = x
      BY <1>2, Small
    <3>2. QED  BY <2>2, <3>1 DEF Width
  <2>3. QED  BY <2>1, <2>2
<1>4. Put(table, tt, h, x) = [table EXCEPT ![h] = x]
  BY <1>3, Zenon DEF Put
<1>5. QED  BY <1>4 DEF x

(* Finding a hash costs the table nothing: an entry is replaced.           *)
LEMMA PutTyped ==
  ASSUME Called(job), NEW table \in Tables, NEW h \in 0..(HashSize - 1), NEW p \in Nat,
         p + MFLIMIT <= iend
  PROVE  /\ Put(table, tt, h, startIndex + p) \in Tables
         /\ \A g \in 0..(HashSize - 1) :
              Put(table, tt, h, startIndex + p)[g] = IF g = h THEN startIndex + p ELSE table[g]
<1>1. startIndex + p \in Nat
  BY CallTyped
<1>2. Put(table, tt, h, startIndex + p) = [table EXCEPT ![h] = startIndex + p]
  BY PutIs
<1>3. QED  BY <1>1, <1>2, Zenon DEF Tables

-----------------------------------------------------------------------------
(* The invariant.  The table: an entry of this block stands for the place  *)
(* that hashes to it, and none for a place after the one looked at.        *)
Honest ==
  \A h \in 0..(HashSize - 1) :
    st.table[h] > startIndex => h = HashPosition(src, st.table[h] - startIndex, tt)
UpTo(i) == \A h \in 0..(HashSize - 1) : st.table[h] <= i
Tabled == "table" \in DOMAIN st /\ st.table \in Tables

(* What is written is the text up to the anchor, and every match of it     *)
(* lies within what was written before.                                    *)
Sofar == Yields(Known, seqs)[Len(seqs)]
Written ==
  /\ seqs \in Seq(SequenceSet) /\ anchor \in 0..iend
  /\ Sofar \in Seq(Nat) /\ Len(Sofar) = Len(Known) + anchor /\ Begins(Sofar, Text)
  /\ \A i \in 1..Len(seqs) :
       /\ seqs[i].offset \in 1..(Window - 1)
       /\ seqs[i].offset <= Len(Yields(Known, seqs)[i - 1] \o seqs[i].lits)

Opening == pc = "begin" => st = job.st /\ anchor = 0
Searching ==
  pc = "search" =>
    /\ fwd.ip \in Nat /\ fwd.step \in Nat \ {0} /\ fwd.nb \in Nat /\ fwd.nb >= 2 ^ SkipTrigger
    /\ anchor < fwd.ip /\ UpTo(startIndex + fwd.ip - 1)
Matched1 ==
  pc = "literals" => InHand /\ anchor < ip /\ filled = ip /\ UpTo(startIndex + ip)
(* A match walked back leaves positions in the table that it will cover.   *)
Covering ==
  \/ UpTo(startIndex + ip)
  \/ /\ filled \in Nat /\ ip <= filled /\ filled + MFLIMIT <= iend /\ UpTo(startIndex + filled)
     /\ Alike(ip, m.idx, filled + MINMATCH - ip)
Matching ==
  pc = "match" => InHand /\ anchor <= ip /\ lits = SubSeq(src, anchor + 1, ip) /\ Covering
Ending ==
  pc = "done" =>
    /\ last \in Seq(Nat) /\ anchor + Len(last) <= iend
    /\ last = SubSeq(src, anchor + 1, anchor + Len(last))
    /\ ~job.fill => anchor + Len(last) = iend

Sound ==
  /\ Tabled /\ (pc # "begin" => Honest) /\ Written /\ op \in Nat /\ token \in Nat
  /\ Opening /\ Searching /\ Matched1 /\ Matching /\ Ending
Inv == Called(job) /\ (HistoryWhole => Sound)

LEMMA SameCall ==
  ASSUME job' = job
  PROVE  /\ src' = src /\ iend' = iend /\ startIndex' = startIndex /\ tt' = tt
         /\ Known' = Known /\ Text' = Text
         /\ Called(job)' <=> Called(job)
         /\ HistoryWhole' <=> HistoryWhole
         /\ InHand' <=> Hand(m', ip')
         /\ Alike(ip, m.idx, filled + MINMATCH - ip)' <=> Alike(ip', m'.idx, filled' + MINMATCH - ip')
<1>1. src' = src /\ iend' = iend /\ startIndex' = startIndex /\ tt' = tt
  BY DEF src, iend, startIndex, tt
<1>2. Known' = Known
  BY DEF Known, HistoryOf, HistoryLength
<1>3. Text' = Text
  BY <1>1, <1>2 DEF Text
<1>4. Called(job)' <=> Called(job)
  BY DEF Called, StateTyped, Seen, HistoryLength
<1>5. HistoryWhole' <=> HistoryWhole
  BY DEF HistoryWhole, HistoryOf, HistoryLength
<1>6. Alike(ip, m.idx, filled + MINMATCH - ip)' <=> Alike(ip', m'.idx, filled' + MINMATCH - ip')
  BY <1>1, <1>2, <1>3 DEF Alike
<1>7. InHand' <=> Hand(m', ip')
  <2>1. Alike(ip, m.idx, MINMATCH)' <=> Alike(ip', m'.idx, MINMATCH)
    BY <1>1, <1>2, <1>3 DEF Alike
  <2>2. DictBase(m.inDict)' = DictBase(m'.inDict)
    BY <1>1 DEF DictBase, HistSize, Minus, startIndex
  <2>3. maybeExtMem' <=> maybeExtMem
    BY DEF maybeExtMem
  <2>4. QED  BY <1>1, <2>1, <2>2, <2>3, Zenon DEF InHand, Hand
<1>8. QED  BY <1>1, <1>2, <1>3, <1>4, <1>5, <1>6, <1>7

LEMMA WrittenKept ==
  ASSUME Written, job' = job, seqs' = seqs, anchor' = anchor
  PROVE  Written'
BY SameCall, Zenon DEF Written, Sofar

LEMMA TableKept ==
  ASSUME job' = job, st' = st
  PROVE  /\ Tabled' <=> Tabled
         /\ Honest' <=> Honest
BY SameCall, Zenon DEF Tabled, Honest

-----------------------------------------------------------------------------
(* A call begins with nothing written, and a table of what went before.    *)
LEMMA Begun ==
  ASSUME Called(job), Ready(job)
  PROVE  Inv
<1>1. /\ st = job.st /\ pc = "begin" /\ anchor = 0 /\ op = 0 /\ token = 0 /\ seqs = <<>>
  BY DEF Ready
<1>2. Tabled
  BY <1>1 DEF Called, StateTyped, Tabled
<1>3. Written
  <2>1. Known \in Seq(Nat) /\ Len(Known) \in Nat /\ Text \in Seq(Nat)
        /\ Len(Text) = Len(Known) + iend /\ iend \in Nat
        /\ \A i \in 1..Len(Known) : Text[i] = Known[i]
    BY TextTyped, CallTyped, Zenon
  <2>2. Len(seqs) = 0 /\ seqs \in Seq(SequenceSet)
    BY <1>1
  <2>3. Sofar = Known
    <3>1. Yields(Known, seqs)[0] = Known
      BY <2>2, YieldsRule
    <3>2. QED  BY <2>2, <3>1 DEF Sofar
  <2>4. Begins(Known, Text)
    BY <2>1 DEF Begins
  <2>5. \A i \in 1..Len(seqs) : FALSE
    BY <2>2
  <2>6. anchor \in 0..iend /\ Len(Known) = Len(Known) + anchor
    BY <1>1, <2>1
  <2>7. QED  BY <2>1, <2>2, <2>3, <2>4, <2>5, <2>6 DEF Written
<1>4. op \in Nat /\ token \in Nat /\ Opening /\ Searching /\ Matched1 /\ Matching /\ Ending
  BY <1>1 DEF Opening, Searching, Matched1, Matching, Ending
<1>5. QED  BY <1>1, <1>2, <1>3, <1>4 DEF Inv, Sound

-----------------------------------------------------------------------------
(* The steps.                                                              *)

LEMMA OfBefore ==
  ASSUME Called(job), Tabled, Opening, pc = "begin"
  PROVE  UpTo(startIndex) /\ Honest
<1>1. startIndex \in Nat /\ st = job.st /\ startIndex = st.currentOffset
  BY CallTyped DEF Opening, startIndex
<1>2. ASSUME NEW h \in 0..(HashSize - 1) PROVE st.table[h] \in Nat /\ st.table[h] <= startIndex
  <2>1. st.table[h] \in Nat /\ h \in DOMAIN st.table
    BY Zenon DEF Tabled, Tables
  <2>2. st.table[h] < Larger(1, startIndex)
    BY <1>1, <2>1 DEF Called, StateTyped, Seen
  <2>3. QED  BY <1>1, <2>1, <2>2 DEF Larger
<1>3. QED  BY <1>1, <1>2 DEF UpTo, Honest

LEMMA StopKeeps ==
  ASSUME Inv, NEW how \in {"last", "failed"}, Stop(how)
  PROVE  Inv'
<1>1. /\ pc' = how /\ UNCHANGED <<job, st, ip, anchor, op, fwd, m, filled, token, lits, seqs, last>>
  BY DEF Stop
<1>2. Called(job)' /\ (HistoryWhole' => HistoryWhole)
  BY <1>1, SameCall DEF Inv
<1> SUFFICES ASSUME HistoryWhole PROVE Sound'
  BY <1>2 DEF Inv
<1>3. Sound
  BY DEF Inv
<1>4. Tabled' /\ Written'
  BY <1>1, <1>3, TableKept, WrittenKept DEF Sound
<1>5. Honest'
  BY <1>1, <1>3, OfBefore, TableKept DEF Inv, Sound
<1>6. op' \in Nat /\ token' \in Nat
  BY <1>1, <1>3 DEF Sound
<1>7. Opening' /\ Searching' /\ Matched1' /\ Matching' /\ Ending'
  BY <1>1 DEF Opening, Searching, Matched1, Matching, Ending
<1>8. QED  BY <1>4, <1>5, <1>6, <1>7 DEF Sound

LEMMA EmptyKeeps ==
  ASSUME Inv, Empty
  PROVE  Inv'
<1>1. CASE Stop("failed")
  BY <1>1, StopKeeps
<1>2. CASE /\ pc' = "done" /\ op' = 1 /\ last' = <<>>
           /\ UNCHANGED <<job, st, ip, anchor, fwd, m, filled, token, lits, seqs>>
  <2>1. Called(job)' /\ (HistoryWhole' => HistoryWhole)
    BY <1>2, SameCall DEF Inv
  <2> SUFFICES ASSUME HistoryWhole PROVE Sound'
    BY <2>1 DEF Inv
  <2>2. Sound /\ pc = "begin" /\ iend = 0 /\ anchor = 0
    BY DEF Inv, Empty, Sound, Opening
  <2>3. Tabled' /\ Written' /\ Honest'
    BY <1>2, <2>2, OfBefore, TableKept, WrittenKept DEF Sound, Inv
  <2>4. op' \in Nat /\ token' \in Nat
    BY <1>2, <2>2 DEF Sound
  <2>5. Opening' /\ Searching' /\ Matched1' /\ Matching'
    BY <1>2 DEF Opening, Searching, Matched1, Matching
  <2>6. Ending'
    <3>1. anchor' = 0 /\ iend' = 0
      BY <1>2, <2>2, SameCall
    <3>2. last' \in Seq(Nat) /\ Len(last') = 0
      BY <1>2
    <3>3. last' = SubSeq(src', 1, 0)
      BY <1>2
    <3>4. QED  BY <3>1, <3>2, <3>3 DEF Ending
  <2>7. QED  BY <2>3, <2>4, <2>5, <2>6 DEF Sound
<1>3. QED  BY <1>1, <1>2 DEF Empty

LEMMA BeginKeeps ==
  ASSUME Inv, Begin, HashAssumption
  PROVE  Inv'
<1> DEFINE s == Advanced(st)
           h == HashPosition(src, 0, tt)
           t == Put(s.table, tt, h, startIndex)
<1>1. /\ UNCHANGED <<job, anchor, op, m, filled, token, lits, seqs, last>>
      /\ pc = "begin" /\ iend > 0
      /\ \/ iend < MinLength /\ st' = s /\ pc' = "last"
         \/ /\ ~(iend < MinLength) /\ st' = [s EXCEPT !.table = t] /\ pc' = "search"
            /\ fwd' = [ip |-> 1, step |-> 1, nb |-> job.acc * 2 ^ SkipTrigger]
  BY DEF Begin
<1>2. Called(job) /\ Called(job)' /\ (HistoryWhole' => HistoryWhole)
  BY <1>1, SameCall DEF Inv
<1> SUFFICES ASSUME HistoryWhole PROVE Sound'
  BY <1>2 DEF Inv
<1>3. Sound
  BY DEF Inv
<1>4. UpTo(startIndex) /\ Honest /\ anchor = 0 /\ startIndex \in Nat
  BY <1>1, <1>2, <1>3, OfBefore, CallTyped DEF Sound, Opening
<1>5. "table" \in DOMAIN s /\ s.table = st.table /\ st.table \in Tables
  BY <1>3 DEF Advanced, Sound, Tabled
<1>6. Written' /\ op' \in Nat /\ token' \in Nat /\ Opening' /\ Matched1' /\ Matching' /\ Ending'
  <2>1. Written'
    BY <1>1, <1>3, WrittenKept DEF Sound
  <2>2. QED  BY <1>1, <1>3, <2>1 DEF Sound, Opening, Matched1, Matching, Ending
<1> HIDE DEF s
<1>7. CASE iend < MinLength /\ st' = s /\ pc' = "last"
  <2>1. Tabled' /\ st'.table = st.table
    BY <1>5, <1>7 DEF Tabled
  <2>2. Honest'
    BY <1>1, <1>4, <2>1, SameCall DEF Honest
  <2>3. Searching'
    BY <1>7 DEF Searching
  <2>4. QED  BY <1>6, <2>1, <2>2, <2>3 DEF Sound
<1>8. CASE /\ ~(iend < MinLength) /\ st' = [s EXCEPT !.table = t] /\ pc' = "search"
           /\ fwd' = [ip |-> 1, step |-> 1, nb |-> job.acc * 2 ^ SkipTrigger]
  <2>1. 13 <= iend /\ iend \in Nat
    BY <1>2, <1>8, CallTyped DEF MinLength, MFLIMIT
  <2>2. h \in 0..(HashSize - 1)
    BY <1>2, <2>1, Hashed DEF HASH_UNIT
  <2> HIDE DEF h
  <2>3. t \in Tables /\ \A g \in 0..(HashSize - 1) : t[g] = IF g = h THEN startIndex ELSE st.table[g]
    <3>1. startIndex + 0 = startIndex /\ 0 + MFLIMIT <= iend /\ 0 \in Nat
      BY <1>4, <2>1 DEF MFLIMIT
    <3>2. /\ Put(st.table, tt, h, startIndex + 0) \in Tables
          /\ \A g \in 0..(HashSize - 1) :
               Put(st.table, tt, h, startIndex + 0)[g] = IF g = h THEN startIndex + 0 ELSE st.table[g]
      BY <1>2, <1>5, <2>2, <3>1, PutTyped
    <3>3. QED  BY <1>5, <3>1, <3>2
  <2> HIDE DEF t
  <2>4. Tabled' /\ st'.table = t
    BY <1>5, <1>8, <2>3 DEF Tabled
  <2>5. ASSUME NEW g \in 0..(HashSize - 1) PROVE t[g] <= startIndex
    BY <1>4, <2>3, <2>5 DEF UpTo
  <2>6. Honest' /\ UpTo(startIndex)'
    <3>1. \A g \in 0..(HashSize - 1) : t[g] \in Nat
      BY <2>3 DEF Tables
    <3>2. QED  BY <1>1, <1>4, <2>4, <2>5, <3>1, SameCall DEF Honest, UpTo
  <2>7. Searching'
    <3> DEFINE B == 2 ^ SkipTrigger
    <3>1. B \in Nat \ {0} /\ job.acc \in Nat \ {0}
      BY <1>2, ProbeAssumption DEF Called
    <3>2. fwd'.ip = 1 /\ fwd'.step = 1 /\ fwd'.nb = job.acc * B
      BY <1>8
    <3> HIDE DEF B
    <3>3. job.acc * B \in Nat /\ job.acc * B >= B
      BY <3>1
    <3>4. anchor' < fwd'.ip /\ startIndex' + fwd'.ip - 1 = startIndex'
      BY <1>1, <1>4, <3>2, SameCall
    <3>5. UpTo(startIndex + fwd.ip - 1)'
      BY <2>6, <3>4 DEF UpTo
    <3>6. QED  BY <3>2, <3>3, <3>4, <3>5 DEF Searching, B
  <2>8. QED  BY <1>6, <2>4, <2>6, <2>7 DEF Sound
<1>9. QED  BY <1>1, <1>7, <1>8

(* Looking at a place: its entry is replaced, and what it held, if         *)
(* accepted, is a match.                                                   *)
LEMMA SearchKeeps ==
  ASSUME Inv, Search, HashAssumption
  PROVE  Inv'
<1> DEFINE p == fwd.ip
           h == HashPosition(src, p, tt)
           c == Candidate(st.table[h], h)
           t == Put(st.table, tt, h, IndexOf(p))
           f == MatchOf(c, IndexOf(p))
<1>1. /\ UNCHANGED <<job, anchor, op, token, lits, seqs, last>>
      /\ pc = "search" /\ p + fwd.step <= mflimitPlusOne
      /\ ip' = p /\ st' = [st EXCEPT !.table = t] /\ filled' = p
      /\ fwd' = [ip |-> p + fwd.step, step |-> fwd.nb \div 2 ^ SkipTrigger, nb |-> fwd.nb + 1]
      /\ \/ Accepted(c, p, IndexOf(p)) /\ pc' = "literals" /\ m' = f
         \/ pc' = pc
  BY DEF Search
<1>2. Called(job) /\ Called(job)' /\ (HistoryWhole' => HistoryWhole)
  BY <1>1, SameCall DEF Inv
<1> SUFFICES ASSUME HistoryWhole PROVE Sound'
  BY <1>2 DEF Inv
<1>3. Sound
  BY DEF Inv
<1>4. /\ p \in Nat /\ fwd.step \in Nat \ {0} /\ fwd.nb \in Nat /\ fwd.nb >= 2 ^ SkipTrigger
      /\ anchor < p /\ UpTo(startIndex + p - 1) /\ Honest
      /\ "table" \in DOMAIN st /\ st.table \in Tables
  BY <1>1, <1>3 DEF Sound, Searching, Tabled
<1>5. p + MFLIMIT <= iend /\ p + HASH_UNIT <= iend /\ iend \in Nat /\ startIndex \in Nat
  <2>1. iend \in Nat /\ startIndex \in Nat
    BY <1>2, CallTyped
  <2>2. QED  BY <1>1, <1>4, <2>1 DEF mflimitPlusOne, MFLIMIT, HASH_UNIT
<1>6. h \in 0..(HashSize - 1)
  BY <1>2, <1>4, <1>5, Hashed
<1>7. IndexOf(p) = startIndex + p
  <2>1. p <= iend
    BY <1>4, <1>5 DEF HASH_UNIT
  <2>2. QED  BY <1>2, <1>4, <2>1, Index
<1>8. t \in Tables /\ \A g \in 0..(HashSize - 1) : t[g] = IF g = h THEN startIndex + p ELSE st.table[g]
  BY <1>2, <1>4, <1>5, <1>6, <1>7, PutTyped
<1>9. st.table[h] \in Nat /\ st.table[h] < startIndex + p
  <2> HIDE DEF h
  <2>1. st.table[h] \in Nat /\ st.table[h] <= startIndex + p - 1
    BY <1>4, <1>6, Zenon DEF Tables, UpTo
  <2>2. QED  BY <1>4, <1>5, <2>1
<1>10. Accepted(c, p, IndexOf(p)) => Hand(f, p)
  <2> HIDE DEF h
  <2>1. QED  BY <1>2, <1>4, <1>5, <1>6, <1>9, AcceptedInHand
<1> HIDE DEF t, c, f
<1>11. Tabled' /\ st'.table = t
  BY <1>1, <1>4, <1>8 DEF Tabled
<1>12. UpTo(startIndex + ip)'
  <2>1. ASSUME NEW g \in 0..(HashSize - 1) PROVE t[g] <= startIndex + p
    <3>1. st.table[g] \in Nat /\ st.table[g] <= startIndex + p - 1
      BY <1>4, Zenon DEF UpTo, Tables
    <3> HIDE DEF h
    <3>2. QED  BY <1>4, <1>5, <1>8, <3>1
  <2>2. QED  BY <1>1, <1>11, <2>1, SameCall DEF UpTo
<1>13. Honest'
  <2>1. ASSUME NEW g \in 0..(HashSize - 1), t[g] > startIndex
        PROVE  g = HashPosition(src, t[g] - startIndex, tt)
    <3>1. CASE g = h
      <4>1. t[g] - startIndex = p
        BY <1>4, <1>5, <1>8, <3>1
      <4>2. QED  BY <3>1, <4>1
    <3>2. CASE g # h
      <4>1. t[g] = st.table[g]
        BY <1>8, <3>2
      <4>2. QED  BY <1>4, <2>1, <4>1 DEF Honest
    <3>3. QED  BY <3>1, <3>2
  <2>2. QED  BY <1>1, <1>11, <2>1, SameCall DEF Honest
<1>14. Written' /\ op' \in Nat /\ token' \in Nat /\ Opening' /\ Matching' /\ Ending'
  <2>1. Written'
    BY <1>1, <1>3, WrittenKept DEF Sound
  <2>2. QED  BY <1>1, <1>3, <2>1 DEF Sound, Opening, Matching, Ending
<1>15. Matched1'
  <2>1. CASE Accepted(c, p, IndexOf(p)) /\ pc' = "literals" /\ m' = f
    <3>1. InHand'
      BY <1>1, <1>10, <2>1, SameCall
    <3>2. QED  BY <1>1, <1>4, <1>12, <3>1 DEF Matched1
  <2>2. CASE pc' = pc
    BY <1>1, <2>2 DEF Matched1
  <2>3. QED  BY <1>1, <2>1, <2>2
<1>16. Searching'
  <2>1. fwd'.ip = p + fwd.step /\ fwd'.step = fwd.nb \div 2 ^ SkipTrigger /\ fwd'.nb = fwd.nb + 1
    BY <1>1
  <2>2. fwd.nb \div 2 ^ SkipTrigger \in Nat \ {0} /\ fwd.nb + 1 \in Nat /\ fwd.nb + 1 >= 2 ^ SkipTrigger
    <3> DEFINE B == 2 ^ SkipTrigger
               n == fwd.nb
    <3>1. B \in Nat \ {0} /\ n \in Nat /\ n >= B
      BY <1>4, ProbeAssumption
    <3> HIDE DEF B, n
    <3>2. n \div B = 1 + ((n - B) \div B) /\ (n - B) \div B \in Nat
      <4>1. n - B \in Nat
        BY <3>1
      <4>2. QED  BY <3>1, <4>1, DivModStep, DivMod, Zenon
    <3>3. n \div B \in Nat \ {0} /\ n + 1 \in Nat /\ n + 1 >= B
      BY <3>1, <3>2
    <3>4. QED  BY <3>3 DEF B, n
  <2>3. p + fwd.step \in Nat /\ anchor < p + fwd.step
    <3>1. anchor \in Nat
      BY <1>3 DEF Sound, Written
    <3>2. QED  BY <1>4, <3>1
  <2>4. UpTo(startIndex + fwd.ip - 1)'
    <3>1. ASSUME NEW g \in 0..(HashSize - 1) PROVE st'.table[g] <= startIndex' + fwd'.ip - 1
      <4>1. st'.table[g] \in Nat /\ st'.table[g] <= startIndex + p
        BY <1>1, <1>8, <1>11, <1>12, SameCall DEF UpTo, Tables
      <4>2. startIndex' = startIndex
        BY <1>1, SameCall
      <4>3. QED  BY <1>4, <1>5, <2>1, <4>1, <4>2
    <3>2. QED  BY <3>1 DEF UpTo
  <2>5. QED  BY <1>1, <2>1, <2>2, <2>3, <2>4 DEF Searching
<1>17. QED  BY <1>11, <1>13, <1>14, <1>15, <1>16 DEF Sound

LEMMA SearchEndsKeeps ==
  ASSUME Inv, SearchEnds
  PROVE  Inv'
BY StopKeeps DEF SearchEnds

LEMMA EncodeLiteralsKeeps ==
  ASSUME Inv, EncodeLiterals
  PROVE  Inv'
<1> DEFINE back == CaughtUp
           n == ip - back - anchor
<1>1. CASE ~RoomForLiterals(n)
  <2>1. \E how \in {"last", "failed"} : Stop(how)
    BY <1>1 DEF EncodeLiterals
  <2>2. QED  BY <2>1, StopKeeps
<1>2. CASE RoomForLiterals(n)
  <2>1. /\ pc = "literals" /\ pc' = "match"
        /\ ip' = ip - back /\ m' = [m EXCEPT !.idx = @ - back]
        /\ token' = op /\ lits' = SubSeq(src, anchor + 1, ip - back)
        /\ op' = op + 1 + Len(Extension(n)) + n
        /\ UNCHANGED <<job, st, anchor, fwd, filled, seqs, last>>
    BY <1>2 DEF EncodeLiterals
  <2>2. Called(job) /\ Called(job)' /\ (HistoryWhole' => HistoryWhole)
    BY <2>1, SameCall DEF Inv
  <2> SUFFICES ASSUME HistoryWhole PROVE Sound'
    BY <2>2 DEF Inv
  <2>3. Sound
    BY DEF Inv
  <2>4. InHand /\ anchor \in Nat /\ anchor < ip /\ filled = ip /\ UpTo(startIndex + ip)
        /\ ip \in Nat /\ ip + MFLIMIT <= iend /\ m.idx \in Nat
    BY <2>1, <2>3 DEF Sound, Matched1, Written, InHand, Hand
  <2>5. /\ back \in 0..(ip - anchor) /\ Hand([m EXCEPT !.idx = @ - back], ip - back)
        /\ Alike(ip - back, m.idx - back, back + MINMATCH)
    BY <2>2, <2>4, WalkedBack
  <2> HIDE DEF back
  <2>6. Tabled' /\ Honest' /\ Written'
    BY <2>1, <2>3, TableKept, WrittenKept DEF Sound
  <2>7. n \in Nat /\ ip - back \in Nat /\ anchor <= ip - back
    BY <2>4, <2>5
  <2>8. op' \in Nat /\ token' \in Nat
    <3>1. op \in Nat
      BY <2>3 DEF Sound
    <3>2. Len(Extension(n)) \in Nat
      BY <2>7, ExtensionSize
    <3> HIDE DEF n
    <3>3. QED  BY <2>1, <2>7, <3>1, <3>2
  <2>9. InHand'
    BY <2>1, <2>5, SameCall
  <2>10. Covering'
    <3>1. filled' = ip /\ ip' = ip - back /\ startIndex' = startIndex /\ iend' = iend
      BY <2>1, <2>4, SameCall
    <3>2. UpTo(startIndex + filled)'
      BY <2>1, <2>4, <3>1 DEF UpTo
    <3>3. m'.idx = m.idx - back /\ filled' + MINMATCH - ip' = back + MINMATCH
      <4>1. m'.idx = m.idx - back
        BY <2>1, <2>4 DEF InHand, Hand
      <4>2. QED  BY <2>4, <2>5, <3>1, <4>1 DEF MINMATCH
    <3>4. Alike(ip, m.idx, filled + MINMATCH - ip)'
      BY <2>1, <2>5, <3>1, <3>3, SameCall, Zenon
    <3>5. filled' \in Nat /\ ip' <= filled' /\ filled' + MFLIMIT <= iend'
      BY <2>4, <2>5, <3>1
    <3>6. QED  BY <3>2, <3>4, <3>5 DEF Covering
  <2>11. Matching'
    <3>1. lits' = SubSeq(src', anchor' + 1, ip') /\ anchor' <= ip'
      BY <2>1, <2>7, SameCall, Zenon
    <3>2. QED  BY <2>9, <2>10, <3>1 DEF Matching
  <2>12. Opening' /\ Searching' /\ Matched1' /\ Ending'
    BY <2>1 DEF Opening, Searching, Matched1, Ending
  <2>13. QED  BY <2>6, <2>8, <2>11, <2>12 DEF Sound
<1>3. QED  BY <1>1, <1>2

LEMMA NoRoomForMatchKeeps ==
  ASSUME Inv, NoRoomForMatch
  PROVE  Inv'
<1>1. /\ pc = "match" /\ pc' \in {"last", "failed"} /\ op' \in {op, token}
      /\ UNCHANGED <<job, st, ip, anchor, fwd, m, filled, token, lits, seqs, last>>
  BY DEF NoRoomForMatch
<1>2. Called(job)' /\ (HistoryWhole' => HistoryWhole)
  BY <1>1, SameCall DEF Inv
<1> SUFFICES ASSUME HistoryWhole PROVE Sound'
  BY <1>2 DEF Inv
<1>3. Sound
  BY DEF Inv
<1>4. Tabled' /\ Honest' /\ Written'
  BY <1>1, <1>3, TableKept, WrittenKept DEF Sound
<1>5. op' \in Nat /\ token' \in Nat
  BY <1>1, <1>3 DEF Sound
<1>6. Opening' /\ Searching' /\ Matched1' /\ Matching' /\ Ending'
  BY <1>1 DEF Opening, Searching, Matched1, Matching, Ending
<1>7. QED  BY <1>4, <1>5, <1>6 DEF Sound

(* The 16 bits of the offset are all of the distance.                      *)
LEMMA OffsetIs ==
  ASSUME Called(job), HistoryWhole, InHand
  PROVE  /\ Offset = startIndex + ip - m.idx /\ Offset \in 1..(Window - 1)
         /\ Offset <= Len(Known) + ip
<1> DEFINE d == startIndex + ip - m.idx
<1>1. /\ m.idx \in Nat /\ m.inDict \in BOOLEAN /\ ip \in Nat /\ ip + 12 <= iend
      /\ d \in 1..(Window - 1) /\ (maybeExtMem => m.ext = d)
      /\ m.idx >= DictBase(m.inDict)
  BY DEF InHand, Hand, MFLIMIT
<1>2. /\ startIndex \in Nat /\ iend \in Nat /\ startIndex + iend < Wrap /\ Len(Known) \in Nat
  BY CallTyped, TextTyped
<1>3. d \in Nat /\ d < Window /\ d < Wrap /\ ip <= iend
  BY <1>1, <1>2, Numbers
<1>4. Minus(IndexOf(ip), m.idx) = d
  <2>1. IndexOf(ip) = startIndex + ip
    BY <1>1, <1>3, Index
  <2>2. Minus(IndexOf(ip), m.idx) = (IndexOf(ip) - m.idx) % Wrap
    BY DEF Minus
  <2>3. IndexOf(ip) - m.idx = d
    BY <1>1, <1>2, <2>1
  <2> HIDE DEF d
  <2>4. QED  BY <1>3, <2>2, <2>3, Small
<1>5. d <= Len(Known) + ip
  <2>1. /\ HistSize(m.inDict) \in Nat /\ HistSize(m.inDict) <= Len(Known)
        /\ DictBase(m.inDict) = startIndex - HistSize(m.inDict)
    BY <1>1, Base
  <2>2. QED  BY <1>1, <1>2, <2>1
<1> HIDE DEF d
<1>6. d % Window = d
  BY <1>3, Numbers, DivModSmall
<1>7. Offset = d
  BY <1>1, <1>4, <1>6 DEF Offset
<1>8. QED  BY <1>1, <1>5, <1>7 DEF d

(* The match in hand, or some of it, and the literals before it: what they *)
(* add to a text that begins like this one makes it a longer one.          *)
LEMMA Lengths ==
  ASSUME Called(job), HistoryWhole, InHand, NEW a \in Nat, a <= ip
  PROVE  /\ iend \in Nat /\ startIndex \in Nat /\ Len(Known) \in Nat /\ m.idx \in Nat
         /\ ip \in Nat /\ ip + 12 <= iend
         /\ MatchCode \in Nat /\ ip + 4 + MatchCode <= iend - 5
         /\ Offset = startIndex + ip - m.idx /\ Offset \in 1..(Window - 1)
         /\ Offset <= Len(Known) + ip /\ Offset \in Nat
         /\ SubSeq(src, a + 1, ip) \in Seq(Nat) /\ Len(SubSeq(src, a + 1, ip)) = ip - a
         /\ \A i \in 1..(ip - a) : SubSeq(src, a + 1, ip)[i] = src[a + i]
<1>1. iend \in Nat /\ startIndex \in Nat /\ Len(Known) \in Nat
  BY CallTyped, TextTyped
<1>2. m.idx \in Nat /\ ip \in Nat /\ ip + 12 <= iend
  BY DEF InHand, Hand, MFLIMIT
<1>3. MatchCode \in Nat /\ ip + 4 + MatchCode <= iend - 5
  BY MatchCodeAlike DEF MINMATCH, matchlimit, LASTLITERALS
<1>4. Offset = startIndex + ip - m.idx /\ Offset \in 1..(Window - 1) /\ Offset <= Len(Known) + ip
  BY OffsetIs
<1>5. Offset \in Nat
  BY <1>4, Numbers
<1>6. ip <= Len(src) /\ src \in Seq(Nat)
  BY <1>1, <1>2, CallTyped DEF iend
<1>7. /\ SubSeq(src, a + 1, ip) \in Seq(Nat) /\ Len(SubSeq(src, a + 1, ip)) = ip - a
      /\ \A i \in 1..(ip - a) : SubSeq(src, a + 1, ip)[i] = src[a + i]
  BY <1>2, <1>6, Slice
<1>8. QED  BY <1>1, <1>2, <1>3, <1>4, <1>5, <1>7

LEMMA MatchRepeats ==
  ASSUME Called(job), HistoryWhole, InHand, NEW w \in Nat, w <= 4 + MatchCode
  PROVE  \A i \in 1..w : Text[Len(Known) + ip + i] = Text[Len(Known) + ip + i - Offset]
<1> DEFINE d == Offset
           z == Len(Known)
<1>1. /\ iend \in Nat /\ startIndex \in Nat /\ z \in Nat /\ m.idx \in Nat
      /\ ip \in Nat /\ MatchCode \in Nat /\ ip + 4 + MatchCode <= iend - 5
      /\ d = startIndex + ip - m.idx /\ d \in Nat
  <2>1. 0 \in Nat /\ 0 <= ip
    BY DEF InHand, Hand
  <2>2. QED  BY <2>1, Lengths
<1>2. \A i \in 1..iend : Text[z + i] = src[i]
  BY TextTyped
<1>3. \A k \in 0..(4 + MatchCode - 1) : src[ip + k + 1] = Text[z + m.idx - startIndex + k + 1]
  BY MatchCodeAlike DEF Alike, MINMATCH
<1> HIDE DEF d, z
<1>4. ASSUME NEW i \in 1..w PROVE Text[z + ip + i] = Text[z + ip + i - d]
  <2> DEFINE k == i - 1
  <2>1. /\ k \in 0..(4 + MatchCode - 1) /\ ip + k + 1 = ip + i /\ ip + i \in 1..iend
        /\ z + (ip + i) = z + ip + i
        /\ z + m.idx - startIndex + k + 1 = z + ip + i - d
    BY <1>1
  <2> HIDE DEF k
  <2>2. src[ip + k + 1] = Text[z + m.idx - startIndex + k + 1]
    BY <1>3, <2>1
  <2>3. Text[z + (ip + i)] = src[ip + i]
    BY <1>2, <2>1
  <2>4. QED  BY <2>1, <2>2, <2>3
<1>5. QED  BY <1>4 DEF d, z

LEMMA TextGrows ==
  ASSUME Called(job), HistoryWhole, InHand,
         NEW out \in Seq(Nat), Begins(out, Text), NEW a \in Nat, a <= ip, Len(out) = Len(Known) + a,
         NEW w \in Nat, w <= 4 + MatchCode,
         NEW s, s.lits = SubSeq(src, a + 1, ip), s.offset = Offset, s.length = w
  PROVE  /\ Grown(out, s) \in Seq(Nat) /\ Len(Grown(out, s)) = Len(Known) + ip + w
         /\ Begins(Grown(out, s), Text)
         /\ Len(out \o s.lits) = Len(Known) + ip
<1> DEFINE lit == SubSeq(src, a + 1, ip)
           d == Offset
           z == Len(Known)
           l == Len(lit)
           x == Len(out)
<1>1. Text \in Seq(Nat) /\ Len(Text) = z + iend /\ \A i \in 1..iend : Text[z + i] = src[i]
  BY TextTyped
<1>2. /\ lit \in Seq(Nat) /\ l = ip - a /\ \A i \in 1..(ip - a) : lit[i] = src[a + i]
      /\ iend \in Nat /\ z \in Nat /\ ip \in Nat /\ ip + 12 <= iend
      /\ MatchCode \in Nat /\ ip + 4 + MatchCode <= iend - 5
      /\ d \in 1..(Window - 1) /\ d <= z + ip /\ d \in Nat
  BY Lengths, Zenon
<1>3. \A i \in 1..w : Text[z + ip + i] = Text[z + ip + i - d]
  BY MatchRepeats
<1>4. x \in Nat /\ x = z + a /\ l \in Nat /\ d >= 1
  BY <1>2, Numbers
<1> HIDE DEF lit, d, z, l, x
<1>5. x + l = z + ip /\ x + l + w <= z + iend /\ d \in 1..(x + l)
  BY <1>2, <1>4
<1>6. ASSUME NEW i \in 1..l PROVE lit[i] = Text[x + i]
  <2>1. a + i \in 1..iend /\ z + (a + i) = x + i /\ i \in 1..(ip - a)
    BY <1>2, <1>4
  <2>2. lit[i] = src[a + i] /\ Text[z + (a + i)] = src[a + i]
    BY <1>1, <1>2, <2>1
  <2>3. QED  BY <2>1, <2>2
<1>7. ASSUME NEW i \in 1..w PROVE Text[x + l + i] = Text[x + l + i - d]
  BY <1>3, <1>5
<1>8. s.lits = lit /\ s.offset = d /\ s.length = w /\ Len(lit) = l /\ Len(out) = x
  BY DEF lit, d, l, x
<1>9. /\ Grown(out, s) \in Seq(Nat) /\ Len(Grown(out, s)) = Len(out) + Len(lit) + w
      /\ Begins(Grown(out, s), Text)
  <2> DEFINE n == Len(out) + Len(lit) + w
  <2>1. /\ d \in 1..(Len(out) + Len(lit)) /\ n <= Len(Text) /\ n = Len(out) + Len(lit) + w
        /\ Follows(out, lit, Text) /\ Repeats(Text, Len(out) + Len(lit), d, w)
    BY <1>1, <1>5, <1>6, <1>7, <1>8, Zenon DEF Follows, Repeats
  <2>2. Text \in Seq(Nat) /\ lit \in Seq(Nat)
    BY <1>1, <1>2
  <2>3. s.lits = lit /\ s.offset = d /\ s.length = w
    BY <1>8, Zenon
  <2> HIDE DEF n
  <2>4. Grown(out, s) \in Seq(Nat)
    BY <2>1, <2>2, <2>3, GrownBegins, ZenonT(60)
  <2>5. Len(Grown(out, s)) = n
    BY <2>1, <2>2, <2>3, GrownBegins, Zenon
  <2>6. Begins(Grown(out, s), Text)
    BY <2>1, <2>2, <2>3, GrownBegins, Zenon
  <2>7. QED  BY <2>1, <2>4, <2>5, <2>6
<1>10. Len(out \o lit) = x + l
  <2>1. lit \in Seq(Nat)
    BY <1>2
  <2>2. Len(out \o lit) = Len(out) + Len(lit)
    BY <2>1, Concatenated, Zenon
  <2>3. QED  BY <1>8, <2>2
<1>11. QED  BY <1>5, <1>8, <1>9, <1>10, Zenon DEF z

(* A sequence written goes on in the text.                                 *)
LEMMA WrittenGrows ==
  ASSUME Called(job), HistoryWhole, InHand, Written, anchor <= ip, lits = SubSeq(src, anchor + 1, ip),
         NEW n \in Nat, n <= MatchCode, job' = job, anchor' = ip + MINMATCH + n,
         seqs' = Append(seqs, [lits |-> lits, offset |-> Offset, length |-> n + MINMATCH])
  PROVE  Written'
<1> DEFINE s == [lits |-> lits, offset |-> Offset, length |-> n + MINMATCH]
           w == n + MINMATCH
           out == Sofar
<1>1. /\ seqs \in Seq(SequenceSet) /\ anchor \in Nat
      /\ out \in Seq(Nat) /\ Len(out) = Len(Known) + anchor /\ Begins(out, Text)
  BY CallTyped DEF Written
<1>2. /\ lits \in Seq(Nat) /\ Offset \in Nat /\ Offset \in 1..(Window - 1) /\ Offset <= Len(Known) + ip
      /\ ip \in Nat /\ iend \in Nat /\ MatchCode \in Nat /\ ip + 4 + MatchCode <= iend - 5
      /\ Len(Known) \in Nat
  BY <1>1, Lengths
<1>3. w \in Nat /\ w <= 4 + MatchCode /\ anchor' = ip + w /\ anchor' \in 0..iend
  BY <1>2 DEF MINMATCH
<1>4. s \in SequenceSet /\ s.lits = lits /\ s.offset = Offset /\ s.length = w
  BY <1>2, <1>3, Zenon DEF SequenceSet
<1>5. /\ Grown(out, s) \in Seq(Nat) /\ Len(Grown(out, s)) = Len(Known) + ip + w
      /\ Begins(Grown(out, s), Text) /\ Len(out \o s.lits) = Len(Known) + ip
  <2> HIDE DEF s, w, out
  <2>1. s.lits = SubSeq(src, anchor + 1, ip) /\ s.offset = Offset /\ s.length = w
    BY <1>4
  <2>2. /\ out \in Seq(Nat) /\ Len(out) = Len(Known) + anchor /\ Begins(out, Text)
        /\ anchor \in Nat /\ w \in Nat /\ w <= 4 + MatchCode
    BY <1>1, <1>3
  <2>3. Grown(out, s) \in Seq(Nat) /\ Begins(Grown(out, s), Text)
    BY <2>1, <2>2, TextGrows, Zenon
  <2>4. Len(Grown(out, s)) = Len(Known) + ip + w
    BY <2>1, <2>2, TextGrows, ZenonT(60)
  <2>5. Len(out \o s.lits) = Len(Known) + ip
    BY <2>1, <2>2, TextGrows, ZenonT(60)
  <2>6. QED  BY <2>3, <2>4, <2>5, Zenon
<1>6. seqs' = Append(seqs, s)
  OBVIOUS
<1> HIDE DEF s, w, out
<1>7. /\ \A i \in 0..Len(seqs) : Yields(Known, seqs')[i] = Yields(Known, seqs)[i]
      /\ Yields(Known, seqs')[Len(seqs) + 1] = Grown(out, s)
  BY <1>1, <1>4, <1>6, YieldsAppended DEF Sofar, out
<1>8. /\ seqs' \in Seq(SequenceSet) /\ Len(seqs') = Len(seqs) + 1 /\ Len(seqs) \in Nat
      /\ seqs'[Len(seqs) + 1] = s /\ \A i \in 1..Len(seqs) : seqs'[i] = seqs[i]
  BY <1>1, <1>4, <1>6
<1>9. Sofar' = Grown(out, s)
  BY <1>7, <1>8, SameCall DEF Sofar
<1>10. Len(Sofar') = Len(Known) + anchor'
  <2>1. Len(Known) + ip + w = Len(Known) + (ip + w)
    BY <1>2, <1>3
  <2>2. QED  BY <1>3, <1>5, <1>9, <2>1
<1>11. ASSUME NEW i \in 1..Len(seqs')
       PROVE  /\ seqs'[i].offset \in 1..(Window - 1)
              /\ seqs'[i].offset <= Len(Yields(Known, seqs')[i - 1] \o seqs'[i].lits)
  <2>1. CASE i <= Len(seqs)
    <3>1. i \in 1..Len(seqs) /\ i - 1 \in 0..Len(seqs)
      BY <1>8, <2>1
    <3>2. /\ seqs[i].offset \in 1..(Window - 1)
          /\ seqs[i].offset <= Len(Yields(Known, seqs)[i - 1] \o seqs[i].lits)
      BY <3>1, Zenon DEF Written
    <3>3. seqs'[i] = seqs[i] /\ Yields(Known, seqs')[i - 1] = Yields(Known, seqs)[i - 1]
      BY <1>7, <1>8, <3>1
    <3>4. QED  BY <3>2, <3>3, Zenon
  <2>2. CASE i = Len(seqs) + 1
    <3>1. i - 1 = Len(seqs) /\ seqs'[i] = s /\ Len(seqs) \in 0..Len(seqs)
      BY <1>8, <2>2
    <3>2. Yields(Known, seqs')[i - 1] = out
      BY <1>7, <3>1, Zenon DEF Sofar, out
    <3>3. s.offset \in 1..(Window - 1) /\ s.offset <= Len(out \o s.lits)
      BY <1>2, <1>4, <1>5
    <3>4. QED  BY <3>1, <3>2, <3>3, Zenon
  <2>3. i <= Len(seqs) \/ i = Len(seqs) + 1
    BY <1>8
  <2>4. QED  BY <2>1, <2>2, <2>3, Zenon
<1>12. Known' = Known /\ Text' = Text /\ iend' = iend
  BY SameCall
<1>13. Sofar' \in Seq(Nat) /\ Begins(Sofar', Text)
  BY <1>5, <1>9
<1>14. QED  BY <1>3, <1>8, <1>10, <1>11, <1>12, <1>13, Zenon DEF Written

(* After a match the table holds nothing beyond its end: what it held was  *)
(* covered by the match or, where that was cut, is dropped.                *)
Cut(n) ==
  IF NoRoomForLength(MatchCode) THEN Forgotten(st.table, MatchEnd(n)) ELSE st.table

LEMMA CutIs ==
  ASSUME Called(job), HistoryWhole, InHand, Tabled, Honest, Covering, HashAssumption,
         NEW n \in Nat, n <= MatchCode, ~NoRoomForLength(MatchCode) => n = MatchCode
  PROVE  /\ Cut(n) \in Tables
         /\ \A g \in 0..(HashSize - 1) :
              /\ Cut(n)[g] < startIndex + MatchEnd(n)
              /\ Cut(n)[g] > startIndex => g = HashPosition(src, Cut(n)[g] - startIndex, tt)
<1> DEFINE end == MatchEnd(n)
           t == st.table
<1>1. /\ iend \in Nat /\ startIndex \in Nat /\ ip \in Nat /\ m.idx \in Nat
      /\ MatchCode \in Nat /\ ip + 4 + MatchCode <= iend - 5
      /\ end = ip + 4 + n /\ end \in Nat
  <2>1. iend \in Nat /\ startIndex \in Nat
    BY CallTyped
  <2>2. ip \in Nat /\ m.idx \in Nat
    BY DEF InHand, Hand
  <2>3. MatchCode \in Nat /\ ip + 4 + MatchCode <= iend - 5
    BY MatchCodeAlike DEF MINMATCH, matchlimit, LASTLITERALS
  <2>4. end = ip + 4 + n
    BY DEF MatchEnd, MINMATCH
  <2>5. QED  BY <2>1, <2>2, <2>3, <2>4
<1>2. t \in Tables /\ \A g \in 0..(HashSize - 1) : t[g] \in Nat
  BY Zenon DEF Tabled, Tables
<1>3. \A g \in 0..(HashSize - 1) : t[g] > startIndex => g = HashPosition(src, t[g] - startIndex, tt)
  BY DEF Honest
<1>4. \/ \A g \in 0..(HashSize - 1) : t[g] <= startIndex + ip
      \/ /\ filled \in Nat /\ ip <= filled /\ filled + 12 <= iend
         /\ \A g \in 0..(HashSize - 1) : t[g] <= startIndex + filled
         /\ Alike(ip, m.idx, filled + 4 - ip)
  BY DEF Covering, UpTo, MFLIMIT, MINMATCH
<1> HIDE DEF end, t
<1>5. CASE \A g \in 0..(HashSize - 1) : t[g] <= startIndex + ip
  <2>1. \A g \in 0..(HashSize - 1) : t[g] < startIndex + end
    BY <1>1, <1>2, <1>5
  <2>2. CASE ~NoRoomForLength(MatchCode)
    <3>1. Cut(n) = t
      BY <2>2 DEF Cut, t
    <3>2. QED  BY <1>2, <1>3, <2>1, <3>1 DEF end
  <2>3. CASE NoRoomForLength(MatchCode)
    <3> DEFINE drop == {HashPosition(src, p, tt) : p \in {q \in end..filled : q + 8 <= iend}}
    <3>1. Cut(n) = [g \in DOMAIN t |-> IF g \in drop THEN 0 ELSE t[g]]
      BY <2>3 DEF Cut, Forgotten, end, t
    <3> HIDE DEF drop
    <3>2. \A g \in 0..(HashSize - 1) : Cut(n)[g] = IF g \in drop THEN 0 ELSE t[g]
      BY <1>2, <3>1 DEF Tables
    <3>3. Cut(n) \in Tables
      BY <1>2, <3>1 DEF Tables
    <3>4. ASSUME NEW g \in 0..(HashSize - 1)
          PROVE  /\ Cut(n)[g] < startIndex + end
                 /\ Cut(n)[g] > startIndex => g = HashPosition(src, Cut(n)[g] - startIndex, tt)
      <4>1. CASE g \in drop
        BY <1>1, <3>2, <4>1
      <4>2. CASE g \notin drop
        BY <1>3, <2>1, <3>2, <4>2
      <4>3. QED  BY <4>1, <4>2
    <3>5. QED  BY <3>3, <3>4 DEF end
  <2>4. QED  BY <2>2, <2>3
<1>6. CASE /\ filled \in Nat /\ ip <= filled /\ filled + 12 <= iend
           /\ \A g \in 0..(HashSize - 1) : t[g] <= startIndex + filled
           /\ Alike(ip, m.idx, filled + 4 - ip)
  <2>1. CASE ~NoRoomForLength(MatchCode)
    <3> DEFINE k == filled - ip
    <3>1. k \in Nat /\ ip + 4 + k <= matchlimit /\ filled + 4 - ip = 4 + k
      BY <1>1, <1>6 DEF matchlimit, LASTLITERALS
    <3>2. Alike(ip, m.idx, MINMATCH + k)
      BY <1>6, <3>1 DEF MINMATCH
    <3> HIDE DEF k
    <3>3. k <= MatchCode
      BY <3>1, <3>2, MatchCodeAlike DEF MINMATCH
    <3>4. n = MatchCode
      BY <2>1
    <3>5. filled < end
      BY <1>1, <1>6, <3>3, <3>4 DEF k
    <3>6. \A g \in 0..(HashSize - 1) : t[g] < startIndex + end
      BY <1>1, <1>2, <1>6, <3>5
    <3>7. Cut(n) = t
      BY <2>1 DEF Cut, t
    <3>8. QED  BY <1>2, <1>3, <3>6, <3>7 DEF end
  <2>2. CASE NoRoomForLength(MatchCode)
    <3> DEFINE drop == {HashPosition(src, p, tt) : p \in {q \in end..filled : q + 8 <= iend}}
    <3>1. Cut(n) = [g \in DOMAIN t |-> IF g \in drop THEN 0 ELSE t[g]]
      BY <2>2 DEF Cut, Forgotten, end, t
    <3>2. ASSUME NEW g \in 0..(HashSize - 1), t[g] >= startIndex + end
          PROVE  g \in drop
      <4> DEFINE q == t[g] - startIndex
      <4>1. q \in end..filled /\ q + 8 <= iend
        BY <1>1, <1>2, <1>6, <3>2
      <4>2. g = HashPosition(src, q, tt)
        BY <1>1, <1>2, <1>3, <3>2
      <4> HIDE DEF q
      <4>3. QED  BY <4>1, <4>2
    <3> HIDE DEF drop
    <3>3. \A g \in 0..(HashSize - 1) : Cut(n)[g] = IF g \in drop THEN 0 ELSE t[g]
      BY <1>2, <3>1 DEF Tables
    <3>4. Cut(n) \in Tables
      BY <1>2, <3>1 DEF Tables
    <3>5. ASSUME NEW g \in 0..(HashSize - 1)
          PROVE  /\ Cut(n)[g] < startIndex + end
                 /\ Cut(n)[g] > startIndex => g = HashPosition(src, Cut(n)[g] - startIndex, tt)
      <4>1. CASE g \in drop
        BY <1>1, <3>3, <4>1
      <4>2. CASE g \notin drop
        <5>1. t[g] \in Nat /\ ~(t[g] >= startIndex + end)
          BY <1>2, <3>2, <4>2
        <5>2. Cut(n)[g] = t[g] /\ t[g] < startIndex + end
          BY <1>1, <3>3, <4>2, <5>1
        <5>3. QED  BY <1>3, <5>2
      <4>3. QED  BY <4>1, <4>2
    <3>6. QED  BY <3>4, <3>5 DEF end
  <2>3. QED  BY <2>1, <2>2
<1>7. QED  BY <1>4, <1>5, <1>6

LEMMA EncodeMatchKeeps ==
  ASSUME Inv, EncodeMatch, HashAssumption
  PROVE  Inv'
<1> DEFINE n   == MatchCodeWritten(MatchCode)
           end == MatchEnd(n)
           o   == op + OffsetSize + Len(Extension(n))
           cut == Cut(n)
           h   == HashPosition(src, end, tt)
           held == FillTable(cut, end)
           c   == Candidate(held[h], h)
           f   == MatchOf(c, IndexOf(end))
           t   == Put(held, tt, h, IndexOf(end))
<1>1. /\ UNCHANGED <<job, filled, last>> /\ pc = "match"
      /\ job.fill => op + 2 + 1 + MFLIMIT - MINMATCH <= olimit
      /\ ~job.fill => ~NoRoomForLength(MatchCode)
      /\ seqs' = Append(seqs, [lits |-> lits, offset |-> Offset, length |-> n + MINMATCH])
      /\ anchor' = end
      /\ \/ /\ end >= mflimitPlusOne /\ pc' = "last" /\ op' = o
            /\ st' = [st EXCEPT !.table = cut] /\ UNCHANGED token
         \/ /\ ~(end >= mflimitPlusOne) /\ st' = [st EXCEPT !.table = t]
            /\ \/ /\ Accepted(c, end, IndexOf(end)) /\ pc' = pc
                  /\ token' = o /\ op' = o + 1 /\ ip' = end /\ lits' = <<>> /\ m' = f
               \/ /\ pc' = "search" /\ op' = o /\ UNCHANGED token
                  /\ fwd' = [ip |-> end + 1, step |-> 1, nb |-> job.acc * 2 ^ SkipTrigger]
  BY Zenon DEF EncodeMatch, Cut
<1>2. Called(job) /\ Called(job)' /\ (HistoryWhole' => HistoryWhole)
  BY <1>1, SameCall DEF Inv
<1> SUFFICES ASSUME HistoryWhole PROVE Sound'
  BY <1>2 DEF Inv
<1>3. /\ Sound /\ InHand /\ anchor <= ip /\ lits = SubSeq(src, anchor + 1, ip) /\ Covering
      /\ Tabled /\ Honest /\ Written /\ op \in Nat /\ token \in Nat
  BY <1>1 DEF Inv, Sound, Matching
<1>4. /\ iend \in Nat /\ startIndex \in Nat /\ ip \in Nat /\ MatchCode \in Nat
      /\ ip + 4 + MatchCode <= iend - 5
  <2>1. MatchCode \in Nat /\ ip + 4 + MatchCode <= iend - 5
    BY <1>2, <1>3, MatchCodeAlike DEF MINMATCH, matchlimit, LASTLITERALS
  <2>2. ip \in Nat
    BY <1>3 DEF InHand, Hand
  <2>3. QED  BY <1>2, <2>1, <2>2, CallTyped
<1>5. n \in 0..MatchCode /\ (~NoRoomForLength(MatchCode) => n = MatchCode)
  BY <1>1, <1>2, <1>3, <1>4, WrittenOfMatch, Zenon
<1> HIDE DEF n
<1>6. end = ip + 4 + n /\ end \in Nat /\ end >= 4 /\ end <= iend - 5 /\ n \in Nat /\ n <= MatchCode
  BY <1>4, <1>5 DEF MatchEnd, MINMATCH
<1>7. /\ cut \in Tables
      /\ \A g \in 0..(HashSize - 1) :
           /\ cut[g] < startIndex + end
           /\ cut[g] > startIndex => g = HashPosition(src, cut[g] - startIndex, tt)
  BY <1>2, <1>3, <1>5, <1>6, CutIs
<1> HIDE DEF cut
<1>8. Written'
  <2>1. anchor' = ip + MINMATCH + n
    BY <1>1 DEF MatchEnd
  <2>2. QED  BY <1>1, <1>2, <1>3, <1>6, <2>1, WrittenGrows, Zenon
<1>9. o \in Nat
  <2>1. Len(Extension(n)) \in Nat
    BY <1>6, ExtensionSize
  <2>2. QED  BY <1>3, <2>1 DEF OffsetSize
<1> HIDE DEF end, o
<1>10. CASE /\ end >= mflimitPlusOne /\ pc' = "last" /\ op' = o
            /\ st' = [st EXCEPT !.table = cut] /\ UNCHANGED token
  <2>1. Tabled' /\ st'.table = cut
    BY <1>3, <1>7, <1>10 DEF Tabled
  <2>2. Honest'
    BY <1>1, <1>7, <2>1, SameCall DEF Honest
  <2>3. Opening' /\ Searching' /\ Matched1' /\ Matching' /\ Ending'
    BY <1>10 DEF Opening, Searching, Matched1, Matching, Ending
  <2>4. QED  BY <1>3, <1>8, <1>9, <1>10, <2>1, <2>2, <2>3 DEF Sound
<1>11. ASSUME ~(end >= mflimitPlusOne)
       PROVE  /\ t \in Tables
              /\ \A g \in 0..(HashSize - 1) :
                   /\ t[g] \in Nat /\ t[g] <= startIndex + end
                   /\ t[g] > startIndex => g = HashPosition(src, t[g] - startIndex, tt)
              /\ Accepted(c, end, IndexOf(end)) => Hand(f, end)
  <2>1. end + MFLIMIT <= iend /\ end + HASH_UNIT <= iend /\ end <= iend
        /\ end - 2 \in Nat /\ (end - 2) + MFLIMIT <= iend /\ (end - 2) + HASH_UNIT <= iend
        /\ end - 2 <= iend
    BY <1>4, <1>6, <1>11 DEF mflimitPlusOne, MFLIMIT, HASH_UNIT
  <2>2. IndexOf(end) = startIndex + end /\ IndexOf(end - 2) = startIndex + (end - 2)
    BY <1>2, <1>6, <2>1, Index
  <2> DEFINE k == HashPosition(src, end - 2, tt)
  <2>3. h \in 0..(HashSize - 1) /\ k \in 0..(HashSize - 1)
    BY <1>2, <1>6, <2>1, Hashed
  <2>4. held = Put(cut, tt, k, startIndex + (end - 2))
    BY <2>2 DEF FillTable
  <2>5. /\ held \in Tables
        /\ \A g \in 0..(HashSize - 1) : held[g] = IF g = k THEN startIndex + (end - 2) ELSE cut[g]
    <3> HIDE DEF held, k
    <3>1. QED  BY <1>2, <1>7, <2>1, <2>3, <2>4, PutTyped
  <2> HIDE DEF held
  <2>6. /\ t \in Tables
        /\ \A g \in 0..(HashSize - 1) : t[g] = IF g = h THEN startIndex + end ELSE held[g]
    <3> HIDE DEF h
    <3>1. QED  BY <1>2, <1>6, <2>1, <2>2, <2>3, <2>5, PutTyped
  <2> HIDE DEF t
  <2>7. ASSUME NEW g \in 0..(HashSize - 1)
        PROVE  /\ held[g] \in Nat /\ held[g] < startIndex + end
               /\ held[g] > startIndex => g = HashPosition(src, held[g] - startIndex, tt)
    <3>1. held[g] \in Nat
      BY <2>5 DEF Tables
    <3>2. CASE g = k
      <4>1. held[g] = startIndex + (end - 2) /\ held[g] - startIndex = end - 2
        BY <1>4, <1>6, <2>5, <3>2
      <4>2. held[g] < startIndex + end
        BY <1>4, <1>6, <4>1
      <4>3. g = HashPosition(src, held[g] - startIndex, tt)
        BY <3>2, <4>1, Zenon
      <4>4. QED  BY <3>1, <4>2, <4>3
    <3>3. CASE g # k
      <4> HIDE DEF k
      <4>1. held[g] = cut[g]
        BY <2>5, <3>3
      <4>2. QED  BY <1>7, <3>1, <4>1
    <3>4. QED  BY <3>2, <3>3
  <2>8. ASSUME NEW g \in 0..(HashSize - 1)
        PROVE  /\ t[g] \in Nat /\ t[g] <= startIndex + end
               /\ t[g] > startIndex => g = HashPosition(src, t[g] - startIndex, tt)
    <3>1. t[g] \in Nat
      BY <2>6 DEF Tables
    <3>2. CASE g = h
      <4>1. t[g] = startIndex + end /\ t[g] - startIndex = end
        BY <1>4, <1>6, <2>6, <3>2
      <4>2. g = HashPosition(src, t[g] - startIndex, tt)
        BY <3>2, <4>1, Zenon
      <4>3. t[g] <= startIndex + end
        BY <1>4, <1>6, <4>1
      <4>4. QED  BY <3>1, <4>2, <4>3
    <3>3. CASE g # h
      <4> HIDE DEF h
      <4>1. t[g] = held[g]
        BY <2>6, <3>3
      <4>2. held[g] <= startIndex + end
        BY <1>4, <1>6, <2>7
      <4>3. QED  BY <2>7, <3>1, <4>1, <4>2
    <3>4. QED  BY <3>2, <3>3
  <2>9. Accepted(c, end, IndexOf(end)) => Hand(f, end)
    <3> HIDE DEF h
    <3>1. held[h] \in Nat /\ held[h] < startIndex + end
      BY <2>3, <2>7
    <3>2. QED  BY <1>2, <1>6, <2>1, <2>3, <3>1, AcceptedInHand
  <2>10. QED  BY <2>6, <2>8, <2>9
<1> HIDE DEF t, c, f
<1>12. ASSUME ~(end >= mflimitPlusOne), st' = [st EXCEPT !.table = t]
       PROVE  Tabled' /\ Honest' /\ UpTo(startIndex + anchor)'
  <2>1. Tabled' /\ st'.table = t
    BY <1>3, <1>11, <1>12 DEF Tabled
  <2>2. Honest'
    BY <1>1, <1>11, <1>12, <2>1, SameCall DEF Honest
  <2>3. \A g \in 0..(HashSize - 1) : st'.table[g] <= startIndex' + anchor'
    BY <1>1, <1>11, <1>12, <2>1, SameCall
  <2>4. QED  BY <1>1, <2>1, <2>2, <2>3 DEF UpTo
<1>13. CASE /\ ~(end >= mflimitPlusOne) /\ st' = [st EXCEPT !.table = t]
            /\ Accepted(c, end, IndexOf(end)) /\ pc' = pc
            /\ token' = o /\ op' = o + 1 /\ ip' = end /\ lits' = <<>> /\ m' = f
  <2>1. Tabled' /\ Honest' /\ UpTo(startIndex + anchor)'
    BY <1>12, <1>13
  <2>2. InHand'
    BY <1>1, <1>11, <1>13, SameCall
  <2>3. Covering'
    BY <1>1, <1>13, <2>1 DEF Covering
  <2>4. lits' = SubSeq(src', anchor' + 1, ip') /\ anchor' <= ip'
    <3>1. SubSeq(src', end + 1, end) = <<>>
      BY <1>6
    <3>2. QED  BY <1>1, <1>6, <1>13, <3>1
  <2>5. Matching'
    BY <2>2, <2>3, <2>4 DEF Matching
  <2>6. Opening' /\ Searching' /\ Matched1' /\ Ending'
    BY <1>1, <1>13 DEF Opening, Searching, Matched1, Ending
  <2>7. op' \in Nat /\ token' \in Nat
    BY <1>9, <1>13
  <2>8. QED  BY <1>8, <2>1, <2>5, <2>6, <2>7 DEF Sound
<1>14. CASE /\ ~(end >= mflimitPlusOne) /\ st' = [st EXCEPT !.table = t]
            /\ pc' = "search" /\ op' = o /\ UNCHANGED token
            /\ fwd' = [ip |-> end + 1, step |-> 1, nb |-> job.acc * 2 ^ SkipTrigger]
  <2>1. Tabled' /\ Honest' /\ UpTo(startIndex + anchor)'
    BY <1>12, <1>14
  <2>2. Searching'
    <3> DEFINE B == 2 ^ SkipTrigger
    <3>1. B \in Nat \ {0} /\ job.acc \in Nat \ {0}
      BY <1>2, ProbeAssumption DEF Called
    <3>2. fwd'.ip = end + 1 /\ fwd'.step = 1 /\ fwd'.nb = job.acc * B
      BY <1>14
    <3> HIDE DEF B
    <3>3. job.acc * B \in Nat /\ job.acc * B >= B
      BY <3>1
    <3>4. anchor' < fwd'.ip /\ startIndex' + fwd'.ip - 1 = startIndex' + anchor' /\ fwd'.ip \in Nat
      BY <1>1, <1>4, <1>6, <3>2, SameCall, SMTT(60)
    <3>5. UpTo(startIndex + fwd.ip - 1)'
      BY <2>1, <3>4 DEF UpTo
    <3>6. QED  BY <3>2, <3>3, <3>4, <3>5 DEF Searching, B
  <2>3. Opening' /\ Matched1' /\ Matching' /\ Ending'
    BY <1>14 DEF Opening, Matched1, Matching, Ending
  <2>4. QED  BY <1>3, <1>8, <1>9, <1>14, <2>1, <2>2, <2>3 DEF Sound
<1>15. QED  BY <1>1, <1>10, <1>13, <1>14

LEMMA LastLiteralsKeeps ==
  ASSUME Inv, LastLiterals
  PROVE  Inv'
<1> DEFINE n == IF LastFits THEN LastRun ELSE LastRunCut
<1>1. CASE ~LastFits /\ (~job.fill \/ NoneFits)
  BY <1>1, StopKeeps DEF LastLiterals
<1>2. CASE ~(~LastFits /\ (~job.fill \/ NoneFits))
  <2>1. /\ pc' = "done" /\ last' = SubSeq(src, anchor + 1, anchor + n) /\ pc = "last"
        /\ op' = op + 1 + Len(Extension(n)) + n
        /\ UNCHANGED <<job, st, ip, anchor, fwd, m, filled, token, lits, seqs>>
    BY <1>2 DEF LastLiterals
  <2>2. Called(job) /\ Called(job)' /\ (HistoryWhole' => HistoryWhole)
    BY <2>1, SameCall DEF Inv
  <2> SUFFICES ASSUME HistoryWhole PROVE Sound'
    BY <2>2 DEF Inv
  <2>3. Sound /\ anchor \in 0..iend /\ op \in Nat /\ token \in Nat
    BY Zenon DEF Inv, Sound, Written
  <2>4. iend \in Nat /\ iend = Len(src) /\ src \in Seq(Nat)
    BY <2>2, CallTyped DEF iend
  <2>5. n \in 0..(iend - anchor) /\ (~job.fill => n = iend - anchor)
    <3>1. CASE LastFits
      BY <2>3, <2>4, <3>1 DEF LastRun
    <3>2. CASE ~LastFits
      <4>1. LastRunCut \in 0..LastRun
        BY <1>2, <2>2, <2>3, <3>2, WrittenOfLast
      <4>2. QED  BY <1>2, <3>2, <4>1 DEF LastRun
    <3>3. QED  BY <3>1, <3>2
  <2> HIDE DEF n
  <2>6. Tabled' /\ Honest' /\ Written'
    BY <2>1, <2>3, TableKept, WrittenKept DEF Sound
  <2>7. op' \in Nat /\ token' \in Nat
    <3>1. n \in Nat /\ Len(Extension(n)) \in Nat
      BY <2>5, ExtensionSize
    <3>2. QED  BY <2>1, <2>3, <3>1
  <2>8. Ending'
    <3>1. anchor \in Nat /\ anchor + n \in Nat /\ anchor <= anchor + n /\ anchor + n <= Len(src)
      BY <2>3, <2>4, <2>5
    <3>2. last' \in Seq(Nat) /\ Len(last') = (anchor + n) - anchor
      BY <2>1, <2>4, <3>1, Slice, SMTT(60)
    <3>3. Len(last') = n
      BY <2>5, <3>1, <3>2
    <3>4. /\ last' = SubSeq(src', anchor' + 1, anchor' + Len(last'))
          /\ anchor' + Len(last') <= iend'
          /\ ~job'.fill => anchor' + Len(last') = iend'
      BY <2>1, <2>3, <2>4, <2>5, <3>1, <3>3, SameCall
    <3>5. QED  BY <3>2, <3>4 DEF Ending
  <2>9. Opening' /\ Searching' /\ Matched1' /\ Matching'
    BY <2>1 DEF Opening, Searching, Matched1, Matching
  <2>10. QED  BY <2>6, <2>7, <2>8, <2>9 DEF Sound
<1>3. QED  BY <1>1, <1>2

LEMMA StepKeeps ==
  ASSUME Inv, [Next]_vars, HashAssumption
  PROVE  Inv'
<1>1. CASE Empty
  BY <1>1, EmptyKeeps
<1>2. CASE Begin
  BY <1>2, BeginKeeps
<1>3. CASE Search
  BY <1>3, SearchKeeps
<1>4. CASE SearchEnds
  BY <1>4, SearchEndsKeeps
<1>5. CASE EncodeLiterals
  BY <1>5, EncodeLiteralsKeeps
<1>6. CASE NoRoomForMatch
  BY <1>6, NoRoomForMatchKeeps
<1>7. CASE EncodeMatch
  BY <1>7, EncodeMatchKeeps
<1>8. CASE LastLiterals
  BY <1>8, LastLiteralsKeeps
<1>9. CASE UNCHANGED vars
  <2>1. /\ job' = job /\ st' = st /\ pc' = pc /\ ip' = ip /\ anchor' = anchor /\ op' = op
        /\ fwd' = fwd /\ m' = m /\ filled' = filled /\ token' = token /\ lits' = lits
        /\ seqs' = seqs /\ last' = last
    BY <1>9 DEF vars
  <2>2. Called(job)' /\ (HistoryWhole' => HistoryWhole)
    BY <2>1, SameCall DEF Inv
  <2> SUFFICES ASSUME HistoryWhole PROVE Sound'
    BY <2>2 DEF Inv
  <2>3. Sound
    BY DEF Inv
  <2>4. Tabled' /\ (pc' # "begin" => Honest') /\ Written'
    BY <2>1, <2>3, TableKept, WrittenKept DEF Sound
  <2>5. \A i : UpTo(i)' <=> UpTo(i)
    BY <2>1 DEF UpTo
  <2>6. startIndex' = startIndex /\ iend' = iend /\ src' = src
    BY <2>1, SameCall
  <2>7. InHand' <=> InHand
    BY <2>1, SameCall DEF InHand
  <2>8. Covering' <=> Covering
    BY <2>1, <2>5, <2>6, SameCall, Zenon DEF Covering, UpTo
  <2>9. Opening' /\ Searching'
    BY <2>1, <2>3, <2>6, Zenon DEF Sound, Opening, Searching, UpTo
  <2>10. Matched1' /\ Matching' /\ Ending'
    BY <2>1, <2>3, <2>6, <2>7, <2>8, Zenon DEF Sound, Matched1, Matching, Ending, UpTo
  <2>11. op' \in Nat /\ token' \in Nat
    BY <2>1, <2>3 DEF Sound
  <2>12. QED  BY <2>4, <2>9, <2>10, <2>11 DEF Sound
<1>10. QED
  BY <1>1, <1>2, <1>3, <1>4, <1>5, <1>6, <1>7, <1>8, <1>9 DEF Next, Step, Finished

-----------------------------------------------------------------------------
(* What is left at the end is the rest of the text.                        *)
LEMMA InvMeans ==
  ASSUME Inv
  PROVE  RoundTrip
<1> SUFFICES ASSUME pc = "done", HistoryWhole
             PROVE  /\ Reaches(HistoryOf(job), Block)
                    /\ Content(HistoryOf(job), Block) = SubSeq(src, 1, Consumed)
  BY DEF RoundTrip
<1>1. Called(job) /\ Sound
  BY DEF Inv
<1>2. /\ src \in Seq(Nat) /\ iend \in Nat /\ iend = Len(src)
      /\ Known \in Seq(Nat) /\ Len(Known) \in Nat /\ Text \in Seq(Nat)
      /\ Len(Text) = Len(Known) + iend
      /\ \A i \in 1..iend : Text[Len(Known) + i] = src[i]
  BY <1>1, CallTyped, TextTyped DEF iend
<1>3. /\ anchor \in 0..iend /\ Sofar \in Seq(Nat) /\ Len(Sofar) = Len(Known) + anchor
      /\ Begins(Sofar, Text) /\ Len(seqs) \in Nat
  BY <1>1 DEF Sound, Written
<1>4. /\ last \in Seq(Nat) /\ anchor + Len(last) <= iend
      /\ last = SubSeq(src, anchor + 1, anchor + Len(last))
      /\ ~job.fill => anchor + Len(last) = iend
  BY <1>1 DEF Sound, Ending
<1>5. Reaches(HistoryOf(job), Block)
  <2>1. Block.seqs = seqs
    BY DEF Block
  <2>2. ASSUME NEW i \in 1..Len(seqs)
        PROVE  seqs[i].offset <= Len(Yields(Known, seqs)[i - 1] \o seqs[i].lits)
    BY <1>1 DEF Sound, Written
  <2>3. QED  BY <2>1, <2>2, Zenon DEF Reaches, Before, Known
<1> DEFINE a == anchor
           l == Len(last)
           z == Len(Known)
           all == Sofar \o last
<1>6. /\ a \in Nat /\ l \in Nat /\ z \in Nat /\ a + l <= iend
      /\ Consumed = a + l
  <2>1. a \in Nat /\ z \in Nat /\ a + l <= iend
    BY <1>2, <1>3, <1>4
  <2>2. l \in Nat
    BY <1>4
  <2>3. Consumed = a + l
    BY <1>4 DEF Consumed
  <2>4. QED  BY <2>1, <2>2, <2>3
<1>7. /\ all \in Seq(Nat) /\ Len(all) = (z + a) + l
      /\ \A i \in 1..((z + a) + l) : all[i] = IF i <= z + a THEN Sofar[i] ELSE last[i - (z + a)]
  <2>1. /\ all \in Seq(Nat) /\ Len(all) = Len(Sofar) + Len(last)
        /\ \A i \in 1..(Len(Sofar) + Len(last)) :
             all[i] = IF i <= Len(Sofar) THEN Sofar[i] ELSE last[i - Len(Sofar)]
    BY <1>3, <1>4, Concatenated, Zenon
  <2> HIDE DEF all
  <2>2. QED  BY <1>3, <2>1
<1>8. Content(HistoryOf(job), Block) = SubSeq(all, z + 1, Len(all))
  BY Zenon DEF Content, Expand, Block, Sofar, Known
<1>9. /\ \A i \in 1..(z + a) : Sofar[i] = Text[i]
      /\ \A i \in 1..l : last[i] = src[a + i]
  <2>1. \A i \in 1..Len(Sofar) : Sofar[i] = Text[i]
    BY <1>3 DEF Begins
  <2>2. a + l <= Len(src) /\ a <= a + l /\ (a + l) - a = l /\ a + l \in Nat
    BY <1>2, <1>6
  <2>3. \A i \in 1..((a + l) - a) : SubSeq(src, a + 1, a + l)[i] = src[a + i]
    BY <1>2, <1>6, <2>2, Slice
  <2>4. QED  BY <1>3, <1>4, <2>1, <2>2, <2>3, Zenon
<1> HIDE DEF a, l, z, all
<1>10. ASSUME NEW i \in 1..(a + l) PROVE all[z + i] = src[i]
  <2>1. z + i \in 1..((z + a) + l) /\ i \in 1..iend
    BY <1>2, <1>6
  <2>2. CASE i <= a
    <3>1. z + i \in 1..(z + a)
      BY <1>6, <2>2
    <3>2. all[z + i] = Sofar[z + i] /\ Sofar[z + i] = Text[z + i]
      BY <1>6, <1>7, <1>9, <2>1, <3>1
    <3>3. QED  BY <1>2, <2>1, <3>2 DEF z
  <2>3. CASE i > a
    <3>1. i - a \in 1..l /\ (z + i) - (z + a) = i - a /\ a + (i - a) = i /\ ~(z + i <= z + a)
      BY <1>6, <2>3
    <3>2. all[z + i] = last[i - a]
      BY <1>7, <2>1, <3>1
    <3>3. QED  BY <1>9, <3>1, <3>2
  <2>4. QED  BY <1>6, <2>2, <2>3
<1>11. SubSeq(all, z + 1, Len(all)) = SubSeq(src, 1, a + l)
  <2> DEFINE x == SubSeq(all, z + 1, Len(all))
             y == SubSeq(src, 1, a + l)
  <2>1. z <= Len(all) /\ Len(all) \in Nat /\ Len(all) - z = a + l /\ a + l \in Nat /\ a + l <= Len(src)
    BY <1>2, <1>6, <1>7
  <2>2. x \in Seq(Nat) /\ Len(x) = a + l /\ \A i \in 1..(a + l) : x[i] = all[z + i]
    <3>1. Len(all) <= Len(all)
      BY <2>1
    <3>2. /\ x \in Seq(Nat) /\ Len(x) = Len(all) - z
          /\ \A i \in 1..(Len(all) - z) : x[i] = all[z + i]
      BY <1>6, <1>7, <2>1, <3>1, Slice
    <3> HIDE DEF x
    <3>3. QED  BY <2>1, <3>2
  <2>3. y \in Seq(Nat) /\ Len(y) = a + l /\ \A i \in 1..(a + l) : y[i] = src[i]
    <3>1. y = SubSeq(src, 0 + 1, a + l) /\ 0 \in Nat /\ 0 <= a + l /\ (a + l) - 0 = a + l
      BY <2>1
    <3>2. \A i \in 1..(a + l) : 0 + i = i
      OBVIOUS
    <3> DEFINE w == SubSeq(src, 0 + 1, a + l)
    <3>3. w \in Seq(Nat) /\ Len(w) = (a + l) - 0 /\ \A i \in 1..((a + l) - 0) : w[i] = src[0 + i]
      <4>1. src \in Seq(Nat) /\ a + l \in Nat /\ a + l <= Len(src) /\ 0 \in Nat /\ 0 <= a + l
        BY <1>2, <2>1
      <4>2. w \in Seq(Nat)
        BY <4>1, Slice, Zenon
      <4>3. Len(w) = (a + l) - 0
        BY <4>1, Slice, Zenon
      <4>4. \A i \in 1..((a + l) - 0) : w[i] = src[0 + i]
        BY <4>1, Slice, Zenon
      <4>5. QED  BY <4>2, <4>3, <4>4
    <3>4. w = y
      BY <3>1
    <3> HIDE DEF w, y
    <3>5. QED  BY <3>1, <3>2, <3>3, <3>4
  <2> HIDE DEF x, y
  <2>4. \A i \in 1..(a + l) : x[i] = y[i]
    BY <1>10, <2>2, <2>3, Zenon
  <2>5. x = y
    BY <2>2, <2>3, <2>4
  <2>6. QED  BY <2>5, Zenon DEF x, y
<1>12. QED  BY <1>5, <1>6, <1>8, <1>11

(* A block that is written means what was compressed, for every content of *)
(* the table and of the history, every input and room, and every           *)
(* acceleration and way of calling compress_generic (src/block.rs          *)
(* 831-1282): it reaches back no further than the history it was given,    *)
(* and gives back what was consumed.                                       *)
THEOREM NothingMisread ==
  ASSUME JobsAssumption, HashAssumption
  PROVE  Spec => []RoundTrip
<1>1. Init => Inv
  <2> SUFFICES ASSUME NEW j \in Jobs, Ready(j) PROVE Inv
    BY DEF Init
  <2>1. job = j /\ Called(job) /\ Ready(job)
    BY DEF Ready, JobsAssumption
  <2>2. QED  BY <2>1, Begun
<1>2. Inv /\ [Next]_vars => Inv'
  BY StepKeeps
<1>3. Inv => RoundTrip
  BY InvMeans
<1>4. QED  BY <1>1, <1>2, <1>3, PTL DEF Spec

-----------------------------------------------------------------------------
(* How much is written.  What there is to write has its types whatever the *)
(* history is.                                                             *)
Hands == [idx : Nat, inDict : BOOLEAN, ext : Nat]

LEMMA Modulo ==
  ASSUME NEW x \in Int
  PROVE  x % Wrap \in Nat
<1> DEFINE w == Wrap
<1>1. w \in Nat \ {0}
  BY Numbers
<1> HIDE DEF w
<1>2. x % w \in 0..(w - 1)
  BY <1>1
<1>3. x % w \in Nat
  BY <1>1, <1>2
<1>4. QED  BY <1>3 DEF w

LEMMA CandidateTyped ==
  ASSUME Called(job), NEW e \in Nat, NEW h \in 0..(HashSize - 1), NEW p \in Nat
  PROVE  MatchOf(Candidate(e, h), IndexOf(p)) \in Hands
<1> DEFINE c == Candidate(e, h)
           f == MatchOf(c, IndexOf(p))
<1>1. startIndex \in Nat
  BY CallTyped
<1>2. c.inDict \in BOOLEAN /\ c.idx \in Nat
  <2>1. CASE job.directive = "ctx" /\ (maybeExtMem /\ e < startIndex)
    <3> DEFINE t == job.ctx.table[h]
               o == job.ctx.currentOffset
    <3>1. t \in Nat /\ o \in Nat
      BY <2>1, CallTyped, Zenon DEF Tables
    <3>2. c.inDict = (maybeExtMem /\ e < startIndex) /\ c.idx = (t + Minus(startIndex, o)) % Wrap
      BY <2>1 DEF Candidate
    <3> HIDE DEF t, o, c
    <3>3. startIndex - o \in Int
      BY <1>1, <3>1
    <3>4. Minus(startIndex, o) \in Nat
      BY <3>3, Modulo DEF Minus
    <3>5. t + Minus(startIndex, o) \in Int
      BY <3>1, <3>4
    <3>6. c.idx \in Nat
      BY <3>2, <3>5, Modulo
    <3>7. QED  BY <3>2, <3>6
  <2>2. CASE ~(job.directive = "ctx" /\ (maybeExtMem /\ e < startIndex))
    <3>1. c.idx = e /\ c.inDict = (maybeExtMem /\ e < startIndex)
      BY <2>2 DEF Candidate
    <3> HIDE DEF c
    <3>2. QED  BY <3>1
  <2>3. QED  BY <2>1, <2>2
<1>3. f = [idx |-> c.idx, inDict |-> c.inDict, ext |-> IF maybeExtMem THEN Minus(IndexOf(p), c.idx) ELSE 0]
  BY DEF MatchOf
<1> HIDE DEF c
<1>4. Minus(IndexOf(p), c.idx) \in Nat
  <2>1. p + startIndex \in Int
    BY <1>1
  <2>2. IndexOf(p) \in Nat
    BY <2>1, Modulo DEF IndexOf
  <2>3. IndexOf(p) - c.idx \in Int
    BY <1>2, <2>2
  <2>4. QED  BY <2>3, Modulo DEF Minus
<1> HIDE DEF f
<1>5. f \in Hands
  BY <1>2, <1>3, <1>4 DEF Hands
<1>6. QED  BY <1>5 DEF f, c

(* A match walked back is within the input still, and in its region.       *)
LEMMA WalkedTyped ==
  ASSUME Called(job), m \in Hands, ip \in Nat, ip + MFLIMIT <= iend, anchor \in Nat, anchor < ip
  PROVE  CaughtUp \in 0..(ip - anchor) /\ [m EXCEPT !.idx = @ - CaughtUp] \in Hands
<1> DEFINE n == CaughtUp
<1>1. n \in 0..(ip - anchor) /\ \A k \in 0..(n - 1) : Stays(k)
  BY CaughtUpIs
<1>2. m.idx \in Nat /\ startIndex \in Nat
  BY CallTyped DEF Hands
<1>3. LowLimit \in Nat
  <2>1. HistSize(m.inDict) \in Nat
    BY CallTyped DEF HistSize, HistoryLength
  <2>2. startIndex - HistSize(m.inDict) \in Int
    BY <1>2, <2>1
  <2>3. DictBase(m.inDict) \in Nat
    BY <2>2, Modulo DEF DictBase, Minus
  <2>4. QED  BY <1>2, <2>3 DEF LowLimit
<1> HIDE DEF n
<1>4. m.idx - n \in Nat
  <2>1. CASE n = 0
    BY <1>2, <2>1
  <2>2. CASE n # 0
    <3>1. n - 1 \in 0..(n - 1) /\ n \in Nat
      BY <1>1, <2>2
    <3>2. m.idx - (n - 1) > LowLimit
      BY <1>1, <3>1 DEF Stays
    <3>3. QED  BY <1>2, <1>3, <3>1, <3>2
  <2>3. QED  BY <2>1, <2>2
<1>5. [m EXCEPT !.idx = @ - n] \in Hands
  BY <1>4 DEF Hands
<1>6. QED  BY <1>1, <1>5 DEF n

LEMMA CommonTyped ==
  ASSUME Called(job), NEW p \in Nat, NEW i \in Nat, NEW b, NEW limit \in Int
  PROVE  Common(p, i, b, limit) \in Nat /\ Common(p, i, b, limit) <= Larger(0, limit - p)
<1> DEFINE N == Larger(0, IF Within(i) THEN Smaller(limit - p, iend - (i - startIndex)) ELSE limit - p)
           apart == {k \in 0..(N - 1) : src[p + k + 1] # ByteAt(i + k, b)}
           r == Common(p, i, b, limit)
<1>1. N \in Nat /\ N <= Larger(0, limit - p)
  <2>1. startIndex \in Nat /\ iend \in Nat
    BY CallTyped
  <2>2. QED  BY <2>1 DEF Larger, Smaller
<1>2. r = IF apart = {} THEN N ELSE CHOOSE k \in apart : \A j \in apart : k <= j
  BY DEF Common
<1>3. Larger(0, limit - p) \in Nat
  BY DEF Larger
<1> HIDE DEF N, r
<1>4. CASE apart = {}
  <2>1. r = N
    BY <1>2, <1>4
  <2>2. QED  BY <1>1, <2>1 DEF r
<1>5. CASE apart # {}
  <2>1. apart \in SUBSET Nat
    BY <1>1
  <2>2. \A k \in apart : k \in 0..(N - 1)
    OBVIOUS
  <2> HIDE DEF apart
  <2>3. \E k \in apart : \A j \in apart : k <= j
    BY <1>5, <2>1, LeastNumber
  <2>4. r \in apart
    BY <1>2, <1>5, <2>3
  <2>5. r \in 0..(N - 1)
    BY <2>2, <2>4
  <2>6. r \in Nat /\ r <= Larger(0, limit - p)
    BY <1>1, <1>3, <2>5
  <2>7. QED  BY <2>6 DEF r
<1>6. QED  BY <1>4, <1>5

(* A match ends where the last literals may begin, or before.              *)
LEMMA MatchCodeFits ==
  ASSUME Called(job), m \in Hands, ip \in Nat, ip + MFLIMIT <= iend
  PROVE  MatchCode \in Nat /\ ip + 4 + MatchCode <= iend - 5
<1>1. /\ iend \in Nat /\ startIndex \in Nat /\ ip + 12 <= iend /\ m.idx \in Nat
      /\ matchlimit = iend - 5
  BY CallTyped DEF MFLIMIT, matchlimit, LASTLITERALS, Hands
<1>2. CASE ~m.inDict
  <2> DEFINE r == Common(ip + 4, m.idx + 4, FALSE, matchlimit)
  <2>1. MatchCode = r
    BY <1>2 DEF MatchCode, MINMATCH
  <2>2. ip + 4 \in Nat /\ m.idx + 4 \in Nat /\ matchlimit \in Int
    BY <1>1
  <2>3. r \in Nat
    BY <2>2, CommonTyped, Zenon
  <2>4. r <= Larger(0, matchlimit - (ip + 4))
    BY <2>2, CommonTyped, Zenon
  <2> HIDE DEF r
  <2>5. QED  BY <1>1, <2>1, <2>3, <2>4 DEF Larger
<1>3. CASE m.inDict
  <2> DEFINE limit == Smaller(ip + Minus(startIndex, m.idx), matchlimit)
             r == Common(ip + 4, m.idx + 4, TRUE, limit)
             R == Common(limit, startIndex, TRUE, matchlimit)
  <2>1. MatchCode = r + IF ip + 4 + r = limit THEN R ELSE 0
    BY <1>3 DEF MatchCode, MINMATCH
  <2>2. limit \in Nat /\ limit <= matchlimit
    <3>1. startIndex - m.idx \in Int
      BY <1>1
    <3>2. Minus(startIndex, m.idx) \in Nat
      BY <3>1, Modulo DEF Minus
    <3>3. QED  BY <1>1, <3>2 DEF Smaller
  <2> HIDE DEF limit
  <2>3. ip + 4 \in Nat /\ m.idx + 4 \in Nat /\ matchlimit \in Int /\ limit \in Int
    BY <1>1, <2>2
  <2>4. r \in Nat
    BY <2>3, CommonTyped, Zenon
  <2>5. r <= Larger(0, limit - (ip + 4))
    BY <2>3, CommonTyped, Zenon
  <2>6. R \in Nat
    BY <1>1, <2>2, <2>3, CommonTyped, Zenon
  <2>7. R <= Larger(0, matchlimit - limit)
    BY <1>1, <2>2, <2>3, CommonTyped, Zenon
  <2> HIDE DEF r, R
  <2>8. CASE ip + 4 + r = limit
    BY <1>1, <2>1, <2>2, <2>4, <2>6, <2>7, <2>8 DEF Larger
  <2>9. CASE ip + 4 + r # limit
    BY <1>1, <2>1, <2>2, <2>4, <2>5, <2>9 DEF Larger
  <2>10. QED  BY <2>8, <2>9
<1>4. QED  BY <1>2, <1>3

LEMMA OffsetTyped ==
  ASSUME Called(job), m \in Hands, ip \in Nat
  PROVE  Offset \in Nat
<1> DEFINE x == IF maybeExtMem THEN m.ext ELSE Minus(IndexOf(ip), m.idx)
<1>1. x \in Nat
  <2>1. startIndex \in Nat /\ m.idx \in Nat /\ m.ext \in Nat
    BY CallTyped DEF Hands
  <2>2. ip + startIndex \in Int
    BY <2>1
  <2>3. IndexOf(ip) \in Nat
    BY <2>2, Modulo DEF IndexOf
  <2>4. IndexOf(ip) - m.idx \in Int
    BY <2>1, <2>3
  <2>5. Minus(IndexOf(ip), m.idx) \in Nat
    BY <2>4, Modulo DEF Minus
  <2>6. QED  BY <2>1, <2>5
<1>2. Offset = x % Window
  BY DEF Offset
<1> HIDE DEF x
<1>3. x % Window \in 0..(Window - 1)
  BY <1>1, Numbers, DivMod
<1>4. QED  BY <1>2, <1>3, Numbers

(* The length bytes of n, as the code counts them.                         *)
LEMMA ExtensionIs ==
  ASSUME NEW n \in Nat
  PROVE  Len(Extension(n)) = (n + 240) \div 255
<1> DEFINE e == Len(Extension(n))
           x == n + 240
<1>1. e \in Nat /\ 255 * e <= x /\ x < 255 * (e + 1) /\ x \in Nat
  BY ExtensionSize
<1> HIDE DEF e, x
<1>2. x - 255 * e \in 0..(255 - 1) /\ 255 * e + (x - 255 * e) = x
  BY <1>1
<1>3. 255 \in Nat \ {0} /\ e \in Int
  BY <1>1
<1>4. x \div 255 = e
  BY <1>1, <1>2, <1>3, DivModUnique
<1>5. QED  BY <1>4 DEF e, x

LEMMA BoundIs ==
  ASSUME NEW n \in Nat
  PROVE  \E q \in Nat : CompressBound(n) = n + q + 16 /\ 255 * q <= n /\ n < 255 * q + 255
<1> DEFINE q == n \div 255
           r == n % 255
<1>1. 255 \in Nat \ {0}
  OBVIOUS
<1>2. q \in Nat /\ r \in 0..(255 - 1) /\ 255 * q + r = n
  BY <1>1, DivMod
<1>3. CompressBound(n) = n + q + 16
  BY DEF CompressBound
<1> HIDE DEF q, r
<1>4. 255 * q <= n /\ n < 255 * q + 255
  BY <1>2
<1>5. QED  BY <1>2, <1>3, <1>4

-----------------------------------------------------------------------------
(* The invariant of the sizes.  Sequences are paid for by what they are    *)
(* made from, at 256 bytes for 255; where the room is looked at, the last  *)
(* literals have their place in it; and the last match keeps the distance  *)
(* from the end that the format asks.                                      *)
LastLength == seqs[Len(seqs)].length
Closed ==
  /\ anchor + LASTLITERALS <= iend /\ anchor + MFLIMIT <= iend + LastLength
  /\ LastLength \in Nat /\ LastLength >= MINMATCH
  /\ job.limited => Laid(seqs) + 6 <= olimit
  /\ job.fill => LastLength >= MFLIMIT \/ Laid(seqs) + 9 <= olimit
Paid ==
  /\ seqs \in Seq(SequenceSet) /\ anchor \in 0..iend
  /\ 255 * Laid(seqs) <= 256 * anchor
  /\ seqs # <<>> => Closed
Untouched == pc = "begin" => st = job.st /\ seqs = <<>> /\ anchor = 0
Between == pc \in {"begin", "search", "literals", "last"} => op = Laid(seqs)
Probing ==
  pc = "search" =>
    /\ fwd.ip \in Nat /\ fwd.step \in Nat \ {0} /\ fwd.nb \in Nat /\ fwd.nb >= 2 ^ SkipTrigger
    /\ anchor < fwd.ip
Found == pc = "literals" => m \in Hands /\ ip \in Nat /\ ip + MFLIMIT <= iend /\ anchor < ip
Opened ==
  pc = "match" =>
    /\ m \in Hands /\ ip \in Nat /\ ip + MFLIMIT <= iend /\ anchor <= ip
    /\ lits \in Seq(Nat) /\ Len(lits) = ip - anchor /\ token = Laid(seqs)
    /\ op = Laid(seqs) + 1 + Len(Extension(ip - anchor)) + (ip - anchor)
    /\ job.limited => op + 5 <= olimit
Closing ==
  pc = "done" =>
    /\ last \in Seq(Nat) /\ op = Laid(seqs) + 1 + Len(Extension(Len(last))) + Len(last)
    /\ op <= olimit
    /\ seqs # <<>> => Len(last) >= LASTLITERALS /\ LastLength + Len(last) >= MFLIMIT
Sized ==
  /\ Tabled /\ Paid /\ Untouched /\ Between /\ Probing /\ Found /\ Opened /\ Closing
  /\ Succeeds
SizeInv == Called(job) /\ Sized

LEMMA SameRoom ==
  ASSUME job' = job
  PROVE  /\ src' = src /\ iend' = iend /\ olimit' = olimit
         /\ Called(job)' <=> Called(job)
BY SameCall DEF olimit

LEMMA PaidKept ==
  ASSUME Paid, job' = job, seqs' = seqs, anchor' = anchor
  PROVE  Paid'
BY SameRoom, Zenon DEF Paid, Closed, LastLength

LEMMA LaidTyped ==
  ASSUME NEW s \in Seq(SequenceSet)
  PROVE  Laid(s) \in Nat
<1> DEFINE x == [lits |-> <<>>, offset |-> 0, length |-> 0 + MINMATCH]
<1>1. x \in SequenceSet
  <2>1. 0 + MINMATCH \in {n + MINMATCH : n \in Nat}
    OBVIOUS
  <2>2. <<>> \in Seq(Nat)
    OBVIOUS
  <2>3. QED  BY <2>1, <2>2 DEF SequenceSet
<1> HIDE DEF x
<1>2. QED  BY <1>1, LaidAppended

(* The figures of a call: its room is that of compress_bound where it is   *)
(* not looked at.                                                          *)
LEMMA Figures ==
  ASSUME Called(job), Paid
  PROVE  /\ iend \in Nat /\ olimit \in Nat /\ anchor \in Nat /\ anchor <= iend
         /\ Laid(seqs) \in Nat /\ 255 * Laid(seqs) <= 256 * anchor
         /\ \E q \in Nat : /\ CompressBound(iend) = iend + q + 16
                           /\ 255 * q <= iend /\ iend < 255 * q + 255
                           /\ ~job.limited => iend + q + 16 <= olimit
         /\ job.fill => job.limited
<1>1. iend \in Nat /\ olimit \in Nat
  BY CallTyped
<1>2. anchor \in Nat /\ anchor <= iend
  BY <1>1 DEF Paid
<1>3. Laid(seqs) \in Nat /\ 255 * Laid(seqs) <= 256 * anchor
  BY LaidTyped DEF Paid
<1>4. /\ ~job.limited => olimit >= CompressBound(iend)
      /\ job.fill => job.limited
  BY DEF Called, olimit, iend, src
<1>5. PICK q \in Nat : CompressBound(iend) = iend + q + 16 /\ 255 * q <= iend /\ iend < 255 * q + 255
  BY <1>1, BoundIs, ZenonT(60)
<1>6. ~job.limited => iend + q + 16 <= olimit
  BY <1>1, <1>4, <1>5
<1>7. QED  BY <1>1, <1>2, <1>3, <1>4, <1>5, <1>6

(* What is laid is in the room, and leaves it the last literals.           *)
LEMMA LaidFits ==
  ASSUME Called(job), Paid
  PROVE  /\ Laid(seqs) <= olimit
         /\ job.limited /\ seqs # <<>> => Laid(seqs) + 6 <= olimit
         /\ seqs = <<>> => Laid(seqs) = 0
<1> DEFINE l == Laid(seqs)
<1>1. /\ iend \in Nat /\ olimit \in Nat /\ anchor \in Nat /\ anchor <= iend
      /\ l \in Nat /\ 255 * l <= 256 * anchor
  BY Figures
<1>2. PICK q \in Nat : /\ iend < 255 * q + 255
                       /\ ~job.limited => iend + q + 16 <= olimit
  BY Figures
<1>3. job.limited /\ seqs # <<>> => l + 6 <= olimit
  BY DEF Paid, Closed
<1>4. seqs = <<>> => l = 0
  BY NothingLaid
<1> HIDE DEF l
<1>5. l <= olimit
  <2>1. CASE job.limited
    BY <1>1, <1>3, <1>4, <2>1
  <2>2. CASE ~job.limited
    BY <1>1, <1>2, <2>2
  <2>3. QED  BY <2>1, <2>2
<1>6. QED  BY <1>3, <1>4, <1>5 DEF l

LEMMA BegunSized ==
  ASSUME Called(job), Ready(job)
  PROVE  SizeInv
<1>1. /\ st = job.st /\ pc = "begin" /\ anchor = 0 /\ op = 0 /\ seqs = <<>>
  BY DEF Ready
<1>2. Tabled
  BY <1>1 DEF Called, StateTyped, Tabled
<1>3. Laid(seqs) = 0
  BY <1>1, NothingLaid
<1>4. Paid
  <2>1. seqs \in Seq(SequenceSet) /\ iend \in Nat
    BY <1>1, CallTyped
  <2>2. QED  BY <1>1, <1>3, <2>1 DEF Paid
<1>5. Untouched /\ Between /\ Probing /\ Found /\ Opened /\ Closing /\ Succeeds
  BY <1>1, <1>3 DEF Untouched, Between, Probing, Found, Opened, Closing, Succeeds
<1>6. QED  BY <1>2, <1>4, <1>5 DEF SizeInv, Sized

LEMMA StopSized ==
  ASSUME SizeInv, NEW how \in {"last", "failed"}, Stop(how), how = "last" => op = Laid(seqs),
         how = "failed" => olimit < CompressBound(iend) /\ (job.fill => olimit = 0)
  PROVE  SizeInv'
<1>1. /\ pc' = how /\ UNCHANGED <<job, st, ip, anchor, op, fwd, m, filled, token, lits, seqs, last>>
  BY DEF Stop
<1>2. Called(job)' /\ Tabled' /\ Paid'
  BY <1>1, SameRoom, TableKept, PaidKept DEF SizeInv, Sized
<1>3. Untouched' /\ Probing' /\ Found' /\ Opened' /\ Closing'
  BY <1>1 DEF Untouched, Probing, Found, Opened, Closing
<1>4. Between' /\ Succeeds'
  BY <1>1, SameRoom DEF Between, Succeeds
<1>5. QED  BY <1>2, <1>3, <1>4 DEF SizeInv, Sized

LEMMA EmptySized ==
  ASSUME SizeInv, Empty
  PROVE  SizeInv'
<1>1. Called(job) /\ Paid /\ pc = "begin" /\ iend = 0 /\ seqs = <<>> /\ op = Laid(seqs) /\ Laid(seqs) = 0
  BY NothingLaid DEF Empty, SizeInv, Sized, Untouched, Between
<1>2. PICK q \in Nat : CompressBound(iend) = iend + q + 16 /\ (~job.limited => iend + q + 16 <= olimit)
  BY <1>1, Figures
<1>3. olimit \in Nat
  BY <1>1, Figures
<1>4. CASE job.limited /\ olimit = 0
  <2>1. Stop("failed")
    BY <1>4 DEF Empty
  <2>2. olimit < CompressBound(iend)
    BY <1>1, <1>2, <1>4
  <2>3. QED  BY <1>4, <2>1, <2>2, StopSized
<1>5. CASE ~(job.limited /\ olimit = 0)
  <2>1. /\ pc' = "done" /\ op' = 1 /\ last' = <<>>
        /\ UNCHANGED <<job, st, ip, anchor, fwd, m, filled, token, lits, seqs>>
    BY <1>5 DEF Empty
  <2>2. Called(job)' /\ Tabled' /\ Paid'
    BY <2>1, SameRoom, TableKept, PaidKept DEF SizeInv, Sized
  <2>3. Untouched' /\ Between' /\ Probing' /\ Found' /\ Opened' /\ Succeeds'
    BY <2>1 DEF Untouched, Between, Probing, Found, Opened, Succeeds
  <2>4. 1 <= olimit
    BY <1>1, <1>2, <1>3, <1>5
  <2>5. Closing'
    <3>1. last' \in Seq(Nat) /\ Len(last') = 0
      BY <2>1
    <3>2. Len(Extension(0)) = 0
      BY DEF Extension
    <3>3. seqs' = seqs /\ op' = 1 /\ olimit' = olimit
      BY <2>1, SameRoom
    <3>4. op' = Laid(seqs') + 1 + Len(Extension(Len(last'))) + Len(last')
      BY <1>1, <3>1, <3>2, <3>3
    <3>5. QED  BY <1>1, <2>4, <3>1, <3>3, <3>4 DEF Closing
  <2>6. QED  BY <2>2, <2>3, <2>5 DEF SizeInv, Sized
<1>6. QED  BY <1>4, <1>5

LEMMA BeginSized ==
  ASSUME SizeInv, Begin, HashAssumption
  PROVE  SizeInv'
<1> DEFINE s == Advanced(st)
           h == HashPosition(src, 0, tt)
           t == Put(s.table, tt, h, startIndex)
<1>1. /\ UNCHANGED <<job, anchor, op, m, filled, token, lits, seqs, last>>
      /\ pc = "begin" /\ iend > 0
      /\ \/ iend < MinLength /\ st' = s /\ pc' = "last"
         \/ /\ ~(iend < MinLength) /\ st' = [s EXCEPT !.table = t] /\ pc' = "search"
            /\ fwd' = [ip |-> 1, step |-> 1, nb |-> job.acc * 2 ^ SkipTrigger]
  BY DEF Begin
<1>2. /\ Called(job) /\ Called(job)' /\ anchor = 0 /\ op = Laid(seqs)
      /\ "table" \in DOMAIN st /\ st.table \in Tables /\ Paid'
  BY <1>1, SameRoom, PaidKept DEF SizeInv, Sized, Untouched, Between, Tabled
<1>3. "table" \in DOMAIN s /\ s.table = st.table
  BY <1>2 DEF Advanced
<1>4. Untouched' /\ Between' /\ Found' /\ Opened' /\ Closing' /\ Succeeds'
  BY <1>1, <1>2 DEF Untouched, Between, Found, Opened, Closing, Succeeds
<1> HIDE DEF s
<1>5. CASE iend < MinLength /\ st' = s /\ pc' = "last"
  <2>1. Tabled' /\ Probing'
    BY <1>2, <1>3, <1>5 DEF Tabled, Probing
  <2>2. QED  BY <1>2, <1>4, <2>1 DEF SizeInv, Sized
<1>6. CASE /\ ~(iend < MinLength) /\ st' = [s EXCEPT !.table = t] /\ pc' = "search"
           /\ fwd' = [ip |-> 1, step |-> 1, nb |-> job.acc * 2 ^ SkipTrigger]
  <2>1. 13 <= iend /\ iend \in Nat /\ startIndex \in Nat
    BY <1>2, <1>6, CallTyped DEF MinLength, MFLIMIT
  <2>2. h \in 0..(HashSize - 1)
    BY <1>2, <2>1, Hashed DEF HASH_UNIT
  <2> HIDE DEF h
  <2>3. t \in Tables
    <3>1. startIndex + 0 = startIndex /\ 0 + MFLIMIT <= iend /\ 0 \in Nat
      BY <2>1 DEF MFLIMIT
    <3>2. Put(st.table, tt, h, startIndex + 0) \in Tables
      BY <1>2, <2>2, <3>1, PutTyped
    <3>3. QED  BY <1>3, <3>1, <3>2
  <2> HIDE DEF t
  <2>4. Tabled'
    BY <1>3, <1>6, <2>3 DEF Tabled
  <2>5. Probing'
    <3> DEFINE B == 2 ^ SkipTrigger
    <3>1. B \in Nat \ {0} /\ job.acc \in Nat \ {0}
      BY <1>2, ProbeAssumption DEF Called
    <3>2. fwd'.ip = 1 /\ fwd'.step = 1 /\ fwd'.nb = job.acc * B /\ anchor' = 0
      BY <1>1, <1>2, <1>6
    <3> HIDE DEF B
    <3>3. job.acc * B \in Nat /\ job.acc * B >= B
      BY <3>1
    <3>4. QED  BY <3>2, <3>3 DEF Probing, B
  <2>6. QED  BY <1>2, <1>4, <2>4, <2>5 DEF SizeInv, Sized
<1>7. QED  BY <1>1, <1>5, <1>6

(* The next probe lies further on; the step never becomes nothing.         *)
LEMMA StepGrows ==
  ASSUME NEW n \in Nat, n >= 2 ^ SkipTrigger
  PROVE  n \div 2 ^ SkipTrigger \in Nat \ {0} /\ n + 1 >= 2 ^ SkipTrigger
<1> DEFINE B == 2 ^ SkipTrigger
<1>1. B \in Nat \ {0} /\ n >= B
  BY ProbeAssumption
<1> HIDE DEF B
<1>2. n \div B = 1 + ((n - B) \div B) /\ (n - B) \div B \in Nat
  <2>1. n - B \in Nat
    BY <1>1
  <2>2. QED  BY <1>1, <2>1, DivModStep, DivMod, Zenon
<1>3. n \div B \in Nat \ {0} /\ n + 1 >= B
  BY <1>1, <1>2
<1>4. QED  BY <1>3 DEF B

LEMMA SearchSized ==
  ASSUME SizeInv, Search, HashAssumption
  PROVE  SizeInv'
<1> DEFINE p == fwd.ip
           h == HashPosition(src, p, tt)
           c == Candidate(st.table[h], h)
           t == Put(st.table, tt, h, IndexOf(p))
           f == MatchOf(c, IndexOf(p))
<1>1. /\ UNCHANGED <<job, anchor, op, token, lits, seqs, last>>
      /\ pc = "search" /\ p + fwd.step <= mflimitPlusOne
      /\ ip' = p /\ st' = [st EXCEPT !.table = t]
      /\ fwd' = [ip |-> p + fwd.step, step |-> fwd.nb \div 2 ^ SkipTrigger, nb |-> fwd.nb + 1]
      /\ \/ pc' = "literals" /\ m' = f
         \/ pc' = pc
  BY DEF Search
<1>2. /\ Called(job) /\ Called(job)' /\ op = Laid(seqs) /\ Paid /\ Paid'
      /\ "table" \in DOMAIN st /\ st.table \in Tables
      /\ p \in Nat /\ fwd.step \in Nat \ {0} /\ fwd.nb \in Nat /\ fwd.nb >= 2 ^ SkipTrigger
      /\ anchor < p
  BY <1>1, SameRoom, PaidKept DEF SizeInv, Sized, Between, Tabled, Probing
<1>3. p + MFLIMIT <= iend /\ p + HASH_UNIT <= iend /\ iend \in Nat /\ startIndex \in Nat /\ p <= iend
  <2>1. iend \in Nat /\ startIndex \in Nat
    BY <1>2, CallTyped
  <2>2. QED  BY <1>1, <1>2, <2>1 DEF mflimitPlusOne, MFLIMIT, HASH_UNIT
<1>4. h \in 0..(HashSize - 1) /\ IndexOf(p) = startIndex + p
  BY <1>2, <1>3, Hashed, Index
<1>5. t \in Tables
  <2> HIDE DEF h
  <2>1. QED  BY <1>2, <1>3, <1>4, PutTyped
<1>6. f \in Hands
  <2> HIDE DEF h
  <2>1. st.table[h] \in Nat
    BY <1>2, <1>4, Zenon DEF Tables
  <2>2. QED  BY <1>2, <1>4, <2>1, CandidateTyped
<1> HIDE DEF t, c, f
<1>7. Tabled'
  BY <1>1, <1>2, <1>5 DEF Tabled
<1>8. Untouched' /\ Between' /\ Opened' /\ Closing' /\ Succeeds'
  BY <1>1, <1>2 DEF Untouched, Between, Opened, Closing, Succeeds
<1>9. Found'
  BY <1>1, <1>2, <1>3, <1>6, SameRoom DEF Found
<1>10. Probing'
  <2>1. fwd'.ip = p + fwd.step /\ fwd'.step = fwd.nb \div 2 ^ SkipTrigger /\ fwd'.nb = fwd.nb + 1
    BY <1>1
  <2>2. fwd.nb \div 2 ^ SkipTrigger \in Nat \ {0} /\ fwd.nb + 1 \in Nat /\ fwd.nb + 1 >= 2 ^ SkipTrigger
    BY <1>2, StepGrows
  <2>3. p + fwd.step \in Nat /\ anchor < p + fwd.step
    <3>1. anchor \in Nat
      BY <1>2, Figures
    <3>2. QED  BY <1>2, <3>1
  <2>4. QED  BY <1>1, <2>1, <2>2, <2>3 DEF Probing
<1>11. QED  BY <1>2, <1>7, <1>8, <1>9, <1>10 DEF SizeInv, Sized

LEMMA SearchEndsSized ==
  ASSUME SizeInv, SearchEnds
  PROVE  SizeInv'
<1>1. Stop("last") /\ op = Laid(seqs)
  BY DEF SearchEnds, SizeInv, Sized, Between
<1>2. QED  BY <1>1, StopSized

(* Literals: where they are refused the room is less than compress_bound   *)
(* gives, and where they are not, there is room left for an offset, a      *)
(* length and the last literals.                                           *)
LEMMA RoomForLiteralsMeans ==
  ASSUME Called(job), Paid, op = Laid(seqs), NEW n \in Nat, anchor + n + MFLIMIT <= iend
  PROVE  /\ ~RoomForLiterals(n) /\ ~job.fill => olimit < CompressBound(iend)
         /\ RoomForLiterals(n) /\ job.limited => op + 1 + Len(Extension(n)) + n + 5 <= olimit
<1> DEFINE l == Laid(seqs)
           e == Len(Extension(n))
           d == n \div 255
           a == anchor
           I == iend
           R == olimit
<1>1. PICK q \in Nat : CompressBound(iend) = iend + q + 16 /\ iend < 255 * q + 255
  BY Figures
<1>2. /\ I \in Nat /\ R \in Nat /\ a \in Nat /\ l \in Nat /\ 255 * l <= 256 * a /\ a + n + 12 <= I
      /\ I < 255 * q + 255
  BY <1>1, Figures DEF MFLIMIT
<1>3. e \in Nat /\ 255 * e <= n + 240 /\ e = (n + 240) \div 255
  BY ExtensionSize, ExtensionIs
<1>4. d \in Nat /\ 255 * d <= n /\ n < 255 * d + 255
  <2>1. 255 \in Nat \ {0}
    OBVIOUS
  <2>2. d \in Nat /\ n % 255 \in 0..(255 - 1) /\ 255 * d + (n % 255) = n
    BY <2>1, DivMod
  <2>3. QED  BY <2>2
<1>5. RoomForLiterals(n) <=> IF job.fill THEN l + 1 + e + n + 2 + 1 + 12 - 4 <= R
                             ELSE job.limited => l + 1 + n + (2 + 1 + 5) + d <= R
  <2>1. RoomForLiterals(n) <=> IF job.fill THEN l + 1 + ((n + 240) \div 255) + n + 2 + 1 + 12 - 4 <= R
                               ELSE job.limited => l + 1 + n + (2 + 1 + 5) + d <= R
    BY DEF RoomForLiterals, MFLIMIT, MINMATCH, LASTLITERALS
  <2> HIDE DEF l, d, R
  <2>2. QED  BY <1>3, <2>1
<1> HIDE DEF l, e, d, a, I, R
<1>6. ASSUME ~RoomForLiterals(n), ~job.fill PROVE R < I + q + 16
  <2>1. ~(l + 1 + n + (2 + 1 + 5) + d <= R)
    BY <1>5, <1>6
  <2>2. l + d <= a + q
    BY <1>2, <1>4
  <2>3. QED  BY <1>2, <1>4, <2>1, <2>2
<1>7. ASSUME RoomForLiterals(n), job.limited PROVE l + 1 + e + n + 5 <= R
  <2>1. CASE job.fill
    BY <1>2, <1>3, <1>5, <1>7, <2>1
  <2>2. CASE ~job.fill
    <3>1. e <= d + 1
      BY <1>3, <1>4
    <3>2. l + 1 + n + (2 + 1 + 5) + d <= R
      BY <1>5, <1>7, <2>2
    <3>3. QED  BY <1>2, <1>3, <1>4, <3>1, <3>2
  <2>3. QED  BY <2>1, <2>2
<1>8. QED  BY <1>1, <1>6, <1>7 DEF l, e, I, R

LEMMA EncodeLiteralsSized ==
  ASSUME SizeInv, EncodeLiterals
  PROVE  SizeInv'
<1> DEFINE back == CaughtUp
           n == ip - back - anchor
<1>1. /\ Called(job) /\ Paid /\ op = Laid(seqs) /\ pc = "literals"
      /\ m \in Hands /\ ip \in Nat /\ ip + MFLIMIT <= iend /\ anchor < ip
  BY DEF EncodeLiterals, SizeInv, Sized, Between, Found
<1>2. anchor \in Nat /\ iend \in Nat /\ src \in Seq(Nat) /\ iend = Len(src) /\ Laid(seqs) \in Nat
  BY <1>1, Figures, CallTyped DEF iend
<1>3. back \in 0..(ip - anchor) /\ [m EXCEPT !.idx = @ - back] \in Hands
  BY <1>1, <1>2, WalkedTyped
<1>4. /\ \/ ~RoomForLiterals(n) /\ Stop(IF job.fill THEN "last" ELSE "failed")
         \/ /\ RoomForLiterals(n) /\ pc' = "match"
            /\ ip' = ip - back /\ m' = [m EXCEPT !.idx = @ - back]
            /\ token' = op /\ lits' = SubSeq(src, anchor + 1, ip - back)
            /\ op' = op + 1 + Len(Extension(n)) + n
            /\ UNCHANGED <<job, st, anchor, fwd, filled, seqs, last>>
  BY DEF EncodeLiterals
<1> HIDE DEF back
<1>5. /\ n \in Nat /\ ip - back \in Nat /\ anchor <= ip - back /\ n = (ip - back) - anchor
      /\ ip - back + MFLIMIT <= iend /\ anchor + n + MFLIMIT <= iend /\ ip - back <= iend
  <2> DEFINE I == iend
             a == anchor
             i == ip
             b == back
  <2>1. I \in Nat /\ a \in Nat /\ i \in Nat /\ i + 12 <= I /\ a < i /\ b \in 0..(i - a)
    BY <1>1, <1>2, <1>3 DEF MFLIMIT
  <2>2. n = i - b - a
    OBVIOUS
  <2> HIDE DEF I, a, i, b, n
  <2>3. /\ n \in Nat /\ i - b \in Nat /\ a <= i - b /\ n = (i - b) - a
        /\ i - b + 12 <= I /\ a + n + 12 <= I /\ i - b <= I
    BY <2>1, <2>2
  <2>4. QED  BY <2>3 DEF MFLIMIT, I, a, i, b
<1>6. /\ ~RoomForLiterals(n) /\ ~job.fill => olimit < CompressBound(iend)
      /\ RoomForLiterals(n) /\ job.limited => op + 1 + Len(Extension(n)) + n + 5 <= olimit
  <2> HIDE DEF n
  <2>1. QED  BY <1>1, <1>5, RoomForLiteralsMeans
<1>7. CASE ~RoomForLiterals(n) /\ Stop(IF job.fill THEN "last" ELSE "failed")
  <2>1. CASE job.fill
    <3>1. Stop("last")
      BY <1>7, <2>1
    <3>2. QED  BY <1>1, <3>1, StopSized
  <2>2. CASE ~job.fill
    <3>1. Stop("failed") /\ olimit < CompressBound(iend)
      BY <1>6, <1>7, <2>2
    <3>2. QED  BY <2>2, <3>1, StopSized
  <2>3. QED  BY <2>1, <2>2
<1>8. CASE /\ RoomForLiterals(n) /\ pc' = "match"
           /\ ip' = ip - back /\ m' = [m EXCEPT !.idx = @ - back]
           /\ token' = op /\ lits' = SubSeq(src, anchor + 1, ip - back)
           /\ op' = op + 1 + Len(Extension(n)) + n
           /\ UNCHANGED <<job, st, anchor, fwd, filled, seqs, last>>
  <2>1. Called(job)' /\ Tabled' /\ Paid'
    BY <1>8, SameRoom, TableKept, PaidKept DEF SizeInv, Sized
  <2>2. Untouched' /\ Between' /\ Probing' /\ Found' /\ Closing' /\ Succeeds'
    BY <1>8 DEF Untouched, Between, Probing, Found, Closing, Succeeds
  <2>3. lits' \in Seq(Nat) /\ Len(lits') = (ip - back) - anchor
    <3> DEFINE b == ip - back
    <3>1. anchor \in Nat /\ b \in Nat /\ anchor <= b /\ b <= Len(src) /\ src \in Seq(Nat)
      BY <1>2, <1>5
    <3>2. lits' = SubSeq(src, anchor + 1, b)
      BY <1>8
    <3> HIDE DEF b
    <3>3. SubSeq(src, anchor + 1, b) \in Seq(Nat)
      BY <3>1, Slice, Zenon
    <3>4. Len(SubSeq(src, anchor + 1, b)) = b - anchor
      BY <3>1, Slice, Zenon
    <3>5. QED  BY <3>2, <3>3, <3>4 DEF b
  <2>4. /\ ip' = ip - back /\ anchor' = anchor /\ ip' - anchor' = n /\ seqs' = seqs
        /\ iend' = iend /\ olimit' = olimit /\ job' = job
    BY <1>5, <1>8, SameRoom
  <2> HIDE DEF n
  <2>5. /\ token' = Laid(seqs')
        /\ op' = Laid(seqs') + 1 + Len(Extension(ip' - anchor')) + (ip' - anchor')
        /\ job'.limited => op' + 5 <= olimit'
    BY <1>1, <1>6, <1>8, <2>4
  <2>6. m' \in Hands /\ ip' \in Nat /\ ip' + MFLIMIT <= iend' /\ anchor' <= ip'
        /\ lits' \in Seq(Nat) /\ Len(lits') = ip' - anchor'
    BY <1>3, <1>5, <1>8, <2>3, <2>4
  <2>7. Opened'
    BY <2>5, <2>6 DEF Opened
  <2>8. QED  BY <2>1, <2>2, <2>7 DEF SizeInv, Sized
<1>9. QED  BY <1>4, <1>7, <1>8

(* A match is refused only in a room that is less than compress_bound.     *)
LEMMA NoRoomForMatchSized ==
  ASSUME SizeInv, NoRoomForMatch
  PROVE  SizeInv'
<1>1. /\ Called(job) /\ Paid /\ pc = "match"
      /\ m \in Hands /\ ip \in Nat /\ ip + MFLIMIT <= iend /\ anchor <= ip
      /\ token = Laid(seqs)
      /\ op = Laid(seqs) + 1 + Len(Extension(ip - anchor)) + (ip - anchor)
      /\ UNCHANGED <<job, st, ip, anchor, fwd, m, filled, token, lits, seqs, last>>
      /\ \/ pc' = "last" /\ op' = token
         \/ ~job.fill /\ NoRoomForLength(MatchCode) /\ pc' = "failed"
  BY DEF NoRoomForMatch, SizeInv, Sized, Opened
<1>2. Called(job)' /\ Tabled' /\ Paid'
  BY <1>1, SameRoom, TableKept, PaidKept DEF SizeInv, Sized
<1>3. Untouched' /\ Probing' /\ Found' /\ Opened' /\ Closing' /\ Between'
  BY <1>1 DEF Untouched, Probing, Found, Opened, Closing, Between
<1>4. ASSUME ~job.fill, NoRoomForLength(MatchCode) PROVE olimit < CompressBound(iend)
  <2> DEFINE l == Laid(seqs)
             n == ip - anchor
             k == MatchCode
             e == Len(Extension(n))
             f == Len(Extension(k))
             a == anchor
             I == iend
             R == olimit
             o == op
  <2>1. PICK q \in Nat : CompressBound(iend) = iend + q + 16 /\ iend < 255 * q + 255
    BY <1>1, Figures
  <2>2. /\ I \in Nat /\ R \in Nat /\ a \in Nat /\ l \in Nat /\ 255 * l <= 256 * a
        /\ I < 255 * q + 255
    BY <1>1, <2>1, Figures
  <2>3. k \in Nat /\ ip + 4 + k <= I - 5
    BY <1>1, MatchCodeFits
  <2>4. n \in Nat /\ a + n = ip
    BY <1>1, <2>2
  <2>5. o = l + 1 + e + n
    BY <1>1
  <2> HIDE DEF n, k
  <2>6. e \in Nat /\ 255 * e <= n + 240
    BY <2>4, ExtensionSize
  <2>7. f \in Nat /\ 255 * f <= k + 240 /\ f = (k + 240) \div 255
    BY <2>3, ExtensionSize, ExtensionIs
  <2>8. ~(o + 2 + (1 + 5) + ((k + 240) \div 255) <= R)
    <3>1. o + 2 + (1 + 5) + ((k + 240) \div 255) > R
      BY <1>4 DEF NoRoomForLength, OffsetSize, LASTLITERALS, k
    <3>2. o \in Nat /\ (k + 240) \div 255 \in Nat
      BY <2>2, <2>4, <2>5, <2>6, <2>7, SMTT(60)
    <3> HIDE DEF o, R, f
    <3>3. QED  BY <2>2, <3>1, <3>2, SMTT(60)
  <2> HIDE DEF l, e, f, a, I, R, o
  <2>9. a + n + 4 + k <= I - 5 /\ o + 8 + f > R
    BY <2>2, <2>3, <2>4, <2>5, <2>6, <2>7, <2>8
  <2>10. l + e + f <= a + q + 2
    BY <2>2, <2>3, <2>4, <2>6, <2>7, <2>9
  <2>11. R < I + q + 16
    BY <2>2, <2>3, <2>4, <2>5, <2>6, <2>7, <2>9, <2>10
  <2>12. QED  BY <2>1, <2>11 DEF R, I
<1>5. Succeeds'
  BY <1>1, <1>4, SameRoom DEF Succeeds
<1>6. QED  BY <1>2, <1>3, <1>5 DEF SizeInv, Sized

LEMMA AddsUp ==
  ASSUME NEW a \in Nat, NEW b \in Nat, NEW c \in Nat, NEW d \in Nat
  PROVE  /\ a + (3 + b + c + d) \in Nat
         /\ a + (3 + b + c + d) = (a + 1 + b + c) + 2 + d
OBVIOUS

(* What a sequence adds: two bytes and its length's after its literals.    *)
LEMMA SequencePaid ==
  ASSUME Called(job), Paid, m \in Hands, ip \in Nat, ip + MFLIMIT <= iend, anchor <= ip,
         lits \in Seq(Nat), Len(lits) = ip - anchor,
         op = Laid(seqs) + 1 + Len(Extension(ip - anchor)) + (ip - anchor),
         NEW n \in Nat, n <= MatchCode,
         NEW s, s = [lits |-> lits, offset |-> Offset, length |-> n + MINMATCH],
         NEW ss, ss = Append(seqs, s)
  PROVE  /\ ss \in Seq(SequenceSet) /\ ss[Len(ss)] = s /\ Laid(ss) \in Nat
         /\ Laid(ss) = op + 2 + Len(Extension(n))
         /\ 255 * Laid(ss) <= 256 * (ip + 4 + n)
         /\ ip + 4 + n + 5 <= iend
<1>1. s \in SequenceSet
  <2>1. Offset \in Nat
    BY OffsetTyped
  <2>2. n + MINMATCH \in {k + MINMATCH : k \in Nat}
    OBVIOUS
  <2>3. QED  BY <2>1, <2>2 DEF SequenceSet
<1>2. seqs \in Seq(SequenceSet)
  BY DEF Paid
<1>3. ss \in Seq(SequenceSet) /\ ss[Len(ss)] = s
  BY <1>1, <1>2
<1> DEFINE k == ip - anchor
           l == Laid(seqs)
           L == Laid(ss)
           e == Len(Extension(k))
           f == Len(Extension(n))
           I == iend
<1>4. s.lits = lits /\ s.offset = Offset /\ s.length = n + MINMATCH /\ s.offset \in Nat
  BY OffsetTyped
<1>5. Len(SequenceBytes(s)) = 3 + Len(Extension(Len(s.lits))) + Len(s.lits) + f
  BY <1>4, SequenceSize, Zenon
<1>6. L = l + Len(SequenceBytes(s))
  BY <1>1, <1>2, LaidAppended
<1>7. L = l + (3 + e + k + f)
  BY <1>4, <1>5, <1>6, Zenon
<1>8. I \in Nat /\ anchor \in Nat /\ l \in Nat /\ 255 * l <= 256 * anchor
  BY Figures
<1>9. MatchCode \in Nat /\ ip + 4 + MatchCode <= I - 5
  BY MatchCodeFits
<1>10. k \in Nat /\ anchor + k = ip
  BY <1>8
<1>11. op = l + 1 + e + k
  OBVIOUS
<1>12. ip + 4 + n + 5 <= I
  BY <1>8, <1>9
<1> HIDE DEF k, l, L, I
<1>13. e \in Nat /\ 255 * e <= k + 240
  BY <1>10, ExtensionSize
<1>14. f \in Nat /\ 255 * f <= n + 240
  BY ExtensionSize
<1>15. k < 15 => e = 0
  BY <1>10, <1>13
<1> HIDE DEF e, f
<1>16. L \in Nat /\ L = op + 2 + f
  <2>1. l + (3 + e + k + f) \in Nat /\ l + (3 + e + k + f) = (l + 1 + e + k) + 2 + f
    BY <1>8, <1>10, <1>13, <1>14, AddsUp, SMTT(60)
  <2>2. QED  BY <1>7, <1>11, <2>1, Zenon
<1>17. 255 * (3 + e + k + f) <= 256 * (k + n + 4)
  BY <1>10, <1>13, <1>14, <1>15
<1>18. 255 * L <= 256 * (ip + 4 + n)
  BY <1>7, <1>8, <1>10, <1>13, <1>14, <1>17
<1>19. QED  BY <1>3, <1>12, <1>16, <1>18 DEF L, I, f

(* Cut or not, a match leaves the last literals their place in the room.   *)
LEMMA MatchLeavesRoom ==
  ASSUME Called(job), op \in Nat, MatchCode \in Nat, job.fill => job.limited,
         job.fill => op + 2 + 1 + MFLIMIT - MINMATCH <= olimit,
         ~job.fill => ~NoRoomForLength(MatchCode),
         NEW n \in Nat, n = MatchCodeWritten(MatchCode)
  PROVE  /\ job.limited => op + 2 + Len(Extension(n)) + 6 <= olimit
         /\ job.fill => n + 4 >= 12 \/ op + 2 + Len(Extension(n)) + 9 <= olimit
<1> DEFINE R == olimit
           e == Len(Extension(n))
           k == MatchCode
           x == (k + 240) \div 255
<1>1. R \in Nat /\ (job.fill => op + 11 <= R)
  BY CallTyped DEF MFLIMIT, MINMATCH
<1>2. e \in Nat /\ 255 * e <= n + 240 /\ n + 240 < 255 * (e + 1) /\ e = (n + 240) \div 255
  BY ExtensionSize, ExtensionIs, ZenonT(60)
<1>3. CASE ~NoRoomForLength(MatchCode)
  <2>1. n = k
    BY <1>3 DEF MatchCodeWritten
  <2>2. job.limited => ~(op + 2 + (1 + 5) + x > R)
    BY <1>3 DEF NoRoomForLength, OffsetSize, LASTLITERALS
  <2>3. x = e
    BY <1>2, <2>1
  <2> HIDE DEF x, e, R, k
  <2>4. job.limited => op + 2 + e + 6 <= R
    BY <1>1, <1>2, <2>2, <2>3
  <2>5. job.fill => n + 4 >= 12 \/ op + 2 + e + 9 <= R
    <3>1. n < 15 => e = 0
      BY <1>2
    <3>2. QED  BY <1>1, <1>2, <3>1
  <2>6. QED  BY <2>4, <2>5 DEF e, R
<1>4. CASE NoRoomForLength(MatchCode)
  <2> DEFINE w == R - op - 2 - 1 - 5
  <2>1. job.fill
    BY <1>4
  <2>2. n = 14 + w * 255
    BY <1>4 DEF MatchCodeWritten, MatchRoom, OffsetSize, LASTLITERALS
  <2> HIDE DEF R, e
  <2>3. w \in Nat /\ w >= 3 /\ w = R - op - 8
    BY <1>1, <2>1
  <2> HIDE DEF w
  <2>4. e = w
    BY <1>2, <2>2, <2>3
  <2>5. op + 2 + e + 6 <= R /\ n + 4 >= 12
    BY <1>1, <2>2, <2>3, <2>4
  <2>6. QED  BY <2>5 DEF e, R
<1>5. QED  BY <1>3, <1>4

(* And the table stays a table.                                            *)
LEMMA TablesAfter ==
  ASSUME Called(job), HashAssumption, st.table \in Tables, NEW n \in Nat, NEW end \in Nat,
         end = MatchEnd(n), end >= 4
  PROVE  /\ Cut(n) \in Tables
         /\ ~(end >= mflimitPlusOne) =>
              LET h    == HashPosition(src, end, tt)
                  held == FillTable(Cut(n), end)
              IN  /\ Put(held, tt, h, IndexOf(end)) \in Tables
                  /\ MatchOf(Candidate(held[h], h), IndexOf(end)) \in Hands
                  /\ end + MFLIMIT <= iend
<1>1. Cut(n) \in Tables
  <2> DEFINE drop == {HashPosition(src, p, tt) : p \in {q \in end..filled : q + 8 <= iend}}
             t == [h \in DOMAIN st.table |-> IF h \in drop THEN 0 ELSE st.table[h]]
  <2>1. Forgotten(st.table, MatchEnd(n)) = t
    BY DEF Forgotten
  <2> HIDE DEF drop
  <2>2. t \in Tables
    BY Zenon DEF Tables
  <2>3. QED  BY <2>1, <2>2 DEF Cut
<1>2. ASSUME ~(end >= mflimitPlusOne)
      PROVE  LET h    == HashPosition(src, end, tt)
                 held == FillTable(Cut(n), end)
             IN  /\ Put(held, tt, h, IndexOf(end)) \in Tables
                 /\ MatchOf(Candidate(held[h], h), IndexOf(end)) \in Hands
                 /\ end + MFLIMIT <= iend
  <2> DEFINE h    == HashPosition(src, end, tt)
             cut  == Cut(n)
             held == FillTable(cut, end)
             k    == HashPosition(src, end - 2, tt)
  <2>1. /\ end + MFLIMIT <= iend /\ end + HASH_UNIT <= iend /\ end <= iend
        /\ end - 2 \in Nat /\ (end - 2) + MFLIMIT <= iend /\ (end - 2) + HASH_UNIT <= iend
        /\ end - 2 <= iend
    <3>1. iend \in Nat
      BY CallTyped
    <3>2. QED  BY <1>2, <3>1 DEF mflimitPlusOne, MFLIMIT, HASH_UNIT
  <2>2. IndexOf(end) = startIndex + end /\ IndexOf(end - 2) = startIndex + (end - 2)
    BY <2>1, Index
  <2>3. h \in 0..(HashSize - 1) /\ k \in 0..(HashSize - 1)
    BY <2>1, Hashed
  <2>4. held = Put(cut, tt, k, startIndex + (end - 2))
    BY <2>2 DEF FillTable
  <2>5. held \in Tables
    <3> HIDE DEF held, k, cut
    <3>1. QED  BY <1>1, <2>1, <2>3, <2>4, PutTyped DEF cut
  <2> HIDE DEF held
  <2>6. Put(held, tt, h, IndexOf(end)) \in Tables
    <3> HIDE DEF h
    <3>1. QED  BY <2>1, <2>2, <2>3, <2>5, PutTyped
  <2>7. MatchOf(Candidate(held[h], h), IndexOf(end)) \in Hands
    <3> HIDE DEF h
    <3>1. held[h] \in Nat
      BY <2>3, <2>5, Zenon DEF Tables
    <3>2. QED  BY <2>3, <3>1, CandidateTyped
  <2>8. QED  BY <2>1, <2>6, <2>7 DEF held, cut
<1>3. QED  BY <1>1, <1>2

LEMMA EncodeMatchSized ==
  ASSUME SizeInv, EncodeMatch, HashAssumption
  PROVE  SizeInv'
<1> DEFINE n   == MatchCodeWritten(MatchCode)
           end == MatchEnd(n)
           o   == op + OffsetSize + Len(Extension(n))
           cut == Cut(n)
           h   == HashPosition(src, end, tt)
           held == FillTable(cut, end)
           c   == Candidate(held[h], h)
           f   == MatchOf(c, IndexOf(end))
           t   == Put(held, tt, h, IndexOf(end))
           s   == [lits |-> lits, offset |-> Offset, length |-> n + MINMATCH]
<1>1. /\ UNCHANGED <<job, filled, last>> /\ pc = "match"
      /\ job.fill => op + 2 + 1 + MFLIMIT - MINMATCH <= olimit
      /\ ~job.fill => ~NoRoomForLength(MatchCode)
      /\ seqs' = Append(seqs, s)
      /\ anchor' = end
      /\ \/ /\ end >= mflimitPlusOne /\ pc' = "last" /\ op' = o
            /\ st' = [st EXCEPT !.table = cut]
         \/ /\ ~(end >= mflimitPlusOne) /\ st' = [st EXCEPT !.table = t]
            /\ \/ /\ pc' = pc
                  /\ token' = o /\ op' = o + 1 /\ ip' = end /\ lits' = <<>> /\ m' = f
               \/ /\ pc' = "search" /\ op' = o
                  /\ fwd' = [ip |-> end + 1, step |-> 1, nb |-> job.acc * 2 ^ SkipTrigger]
  BY Zenon DEF EncodeMatch, Cut
<1>2. /\ Called(job) /\ Called(job)' /\ Paid /\ "table" \in DOMAIN st /\ st.table \in Tables
      /\ m \in Hands /\ ip \in Nat /\ ip + MFLIMIT <= iend /\ anchor <= ip
      /\ lits \in Seq(Nat) /\ Len(lits) = ip - anchor
      /\ op = Laid(seqs) + 1 + Len(Extension(ip - anchor)) + (ip - anchor)
      /\ job.limited => op + 5 <= olimit
  BY <1>1, SameRoom DEF SizeInv, Sized, Opened, Tabled
<1>3. /\ iend \in Nat /\ olimit \in Nat /\ anchor \in Nat /\ Laid(seqs) \in Nat
      /\ job.fill => job.limited
  BY <1>2, Figures
<1>4. op \in Nat
  <2>1. ip - anchor \in Nat
    BY <1>2, <1>3
  <2>2. Len(Extension(ip - anchor)) \in Nat
    BY <2>1, ExtensionSize
  <2>3. QED  BY <1>2, <1>3, <2>1, <2>2
<1>5. MatchCode \in Nat
  BY <1>2, MatchCodeFits
<1>6. n \in 0..MatchCode
  BY <1>1, <1>2, <1>4, <1>5, WrittenOfMatch, Zenon
<1>7. /\ job.limited => op + 2 + Len(Extension(n)) + 6 <= olimit
      /\ job.fill => n + 4 >= 12 \/ op + 2 + Len(Extension(n)) + 9 <= olimit
  <2>1. n \in Nat
    BY <1>5, <1>6
  <2> HIDE DEF n
  <2>2. n = MatchCodeWritten(MatchCode)
    BY DEF n
  <2>3. QED  BY <1>1, <1>2, <1>3, <1>4, <1>5, <2>1, <2>2, MatchLeavesRoom
<1> HIDE DEF n
<1>8. n \in Nat /\ n <= MatchCode
  BY <1>5, <1>6
<1>9. end = ip + 4 + n /\ end \in Nat /\ end >= 4
  BY <1>2, <1>8 DEF MatchEnd, MINMATCH
<1>10. o = op + 2 + Len(Extension(n)) /\ Len(Extension(n)) \in Nat /\ o \in Nat
  BY <1>4, <1>8, ExtensionSize DEF OffsetSize
<1>11. /\ seqs' \in Seq(SequenceSet) /\ seqs'[Len(seqs')] = s /\ Laid(seqs') \in Nat
       /\ Laid(seqs') = op + 2 + Len(Extension(n))
       /\ 255 * Laid(seqs') <= 256 * (ip + 4 + n)
       /\ ip + 4 + n + 5 <= iend
  <2> DEFINE ss == Append(seqs, s)
  <2>1. seqs' = ss
    BY <1>1
  <2> HIDE DEF s
  <2>2. s = [lits |-> lits, offset |-> Offset, length |-> n + MINMATCH] /\ ss = Append(seqs, s)
    BY DEF s
  <2> HIDE DEF ss
  <2>3. /\ ss \in Seq(SequenceSet) /\ ss[Len(ss)] = s /\ Laid(ss) \in Nat
        /\ Laid(ss) = op + 2 + Len(Extension(n))
        /\ 255 * Laid(ss) <= 256 * (ip + 4 + n)
        /\ ip + 4 + n + 5 <= iend
    <3>1. ss \in Seq(SequenceSet)
      BY <1>2, <1>8, <2>2, SequencePaid, ZenonT(60)
    <3>6. ss[Len(ss)] = s
      BY <1>2, <2>2 DEF Paid
    <3>7. Laid(ss) \in Nat
      BY <1>2, <1>8, <2>2, SequencePaid, ZenonT(60)
    <3>2. Laid(ss) = op + 2 + Len(Extension(n))
      BY <1>2, <1>8, <2>2, SequencePaid, ZenonT(60)
    <3>3. 255 * Laid(ss) <= 256 * (ip + 4 + n)
      BY <1>2, <1>8, <2>2, SequencePaid, ZenonT(60)
    <3>4. ip + 4 + n + 5 <= iend
      BY <1>2, <1>8, <2>2, SequencePaid, ZenonT(60)
    <3>5. QED  BY <3>1, <3>2, <3>3, <3>4, <3>6, <3>7
  <2>4. QED  BY <2>1, <2>3
<1>12. cut \in Tables
  <2> HIDE DEF end
  <2>1. end = MatchEnd(n)
    BY DEF end
  <2>2. QED  BY <1>2, <1>8, <1>9, <2>1, TablesAfter
<1>13. ~(end >= mflimitPlusOne) => t \in Tables /\ f \in Hands /\ end + MFLIMIT <= iend
  BY <1>2, <1>8, <1>9, TablesAfter, Zenon
<1> HIDE DEF cut, t, f, c, held, h
<1>14. LastLength' = n + 4 /\ iend' = iend /\ olimit' = olimit
  BY <1>1, <1>11, SameRoom DEF LastLength, MINMATCH
<1> HIDE DEF s
<1>15. anchor' = ip + 4 + n /\ job' = job /\ Laid(seqs') = o
  BY <1>1, <1>9, <1>10, <1>11
<1> HIDE DEF end, o
<1>16. Paid'
  <2> DEFINE L == Laid(seqs')
             a == anchor'
             l == LastLength'
             I == iend'
             R == olimit'
  <2>1. /\ a = ip + 4 + n /\ l = n + 4 /\ I = iend /\ R = olimit /\ L = o /\ L \in Nat
        /\ 255 * L <= 256 * (ip + 4 + n) /\ ip + 4 + n + 5 <= iend
        /\ ip \in Nat /\ n \in Nat /\ iend \in Nat /\ ip + 12 <= iend
    BY <1>2, <1>3, <1>8, <1>11, <1>14, <1>15 DEF MFLIMIT
  <2>2. /\ job'.limited => L + 6 <= R
        /\ job'.fill => l >= 12 \/ L + 9 <= R
    BY <1>7, <1>10, <1>14, <1>15
  <2> HIDE DEF L, a, l, I, R
  <2>3. /\ a \in 0..I /\ 255 * L <= 256 * a /\ a + 5 <= I /\ a + 12 <= I + l
        /\ l \in Nat /\ l >= 4
    BY <2>1
  <2>4. Closed'
    BY <2>2, <2>3 DEF Closed, LASTLITERALS, MFLIMIT, MINMATCH, L, a, l, I, R
  <2>5. QED  BY <1>11, <2>3, <2>4 DEF Paid, L, a, I
<1>17. Untouched' /\ Found' /\ Closing' /\ Succeeds'
  BY <1>1 DEF Untouched, Found, Closing, Succeeds
<1>18. ASSUME NEW x \in Tables, st' = [st EXCEPT !.table = x] PROVE Tabled'
  BY <1>2, <1>18 DEF Tabled
<1>19. CASE end >= mflimitPlusOne /\ pc' = "last" /\ op' = o /\ st' = [st EXCEPT !.table = cut]
  <2>1. Tabled'
    BY <1>12, <1>18, <1>19
  <2>2. Between' /\ Probing' /\ Opened'
    BY <1>15, <1>19 DEF Between, Probing, Opened
  <2>3. QED  BY <1>2, <1>16, <1>17, <2>1, <2>2 DEF SizeInv, Sized
<1>20. CASE /\ ~(end >= mflimitPlusOne) /\ st' = [st EXCEPT !.table = t] /\ pc' = pc
            /\ token' = o /\ op' = o + 1 /\ ip' = end /\ lits' = <<>> /\ m' = f
  <2>1. Tabled'
    BY <1>13, <1>18, <1>20
  <2>2. Between' /\ Probing'
    BY <1>1, <1>20 DEF Between, Probing
  <2>3. Opened'
    <3>1. ip' = end /\ anchor' = end /\ ip' - anchor' = 0
      BY <1>1, <1>9, <1>20
    <3>2. Len(Extension(0)) = 0
      BY DEF Extension
    <3>3. /\ m' \in Hands /\ ip' \in Nat /\ ip' + MFLIMIT <= iend' /\ anchor' <= ip'
      BY <1>9, <1>13, <1>14, <1>20, <3>1
    <3>4. lits' \in Seq(Nat) /\ Len(lits') = ip' - anchor' /\ token' = Laid(seqs')
      BY <1>15, <1>20, <3>1
    <3>5. op' = Laid(seqs') + 1 + Len(Extension(ip' - anchor')) + (ip' - anchor')
      BY <1>10, <1>15, <1>20, <3>1, <3>2
    <3>6. job'.limited => op' + 5 <= olimit'
      BY <1>3, <1>7, <1>10, <1>14, <1>15, <1>20
    <3>7. QED  BY <3>3, <3>4, <3>5, <3>6 DEF Opened
  <2>4. QED  BY <1>2, <1>16, <1>17, <2>1, <2>2, <2>3 DEF SizeInv, Sized
<1>21. CASE /\ ~(end >= mflimitPlusOne) /\ st' = [st EXCEPT !.table = t]
            /\ pc' = "search" /\ op' = o
            /\ fwd' = [ip |-> end + 1, step |-> 1, nb |-> job.acc * 2 ^ SkipTrigger]
  <2>1. Tabled'
    BY <1>13, <1>18, <1>21
  <2>2. Between' /\ Opened'
    BY <1>15, <1>21 DEF Between, Opened
  <2>3. Probing'
    <3> DEFINE B == 2 ^ SkipTrigger
    <3>1. B \in Nat \ {0} /\ job.acc \in Nat \ {0}
      BY <1>2, ProbeAssumption DEF Called
    <3>2. fwd'.ip = end + 1 /\ fwd'.step = 1 /\ fwd'.nb = job.acc * B /\ anchor' = end
      BY <1>1, <1>21
    <3> HIDE DEF B
    <3>3. job.acc * B \in Nat /\ job.acc * B >= B
      BY <3>1
    <3>4. QED  BY <1>9, <3>2, <3>3 DEF Probing, B
  <2>4. QED  BY <1>2, <1>16, <1>17, <2>1, <2>2, <2>3 DEF SizeInv, Sized
<1>22. QED  BY <1>1, <1>19, <1>20, <1>21

(* What is cut from r bytes leaves what it needs for its own length bytes, *)
(* and not less than the format asks of the end of a block.                *)
LEMMA CutFits ==
  ASSUME NEW r \in Nat, NEW p \in Nat, p = (r + 241) \div 256,
         NEW c \in Int, c = r - p, NEW e \in Int, e = Len(Extension(c))
  PROVE  /\ c \in Nat /\ c + e <= r
         /\ r >= 5 => c >= 5
         /\ r >= 8 => c >= 8
<1> DEFINE y == (r + 241) % 256
<1>1. y \in 0..255 /\ 256 * p + y = r + 241
  <2> DEFINE x == r + 241
  <2>1. x \in Nat /\ 256 \in Nat \ {0} /\ p = x \div 256
    OBVIOUS
  <2> HIDE DEF x
  <2>2. x \div 256 \in Nat /\ x % 256 \in 0..(256 - 1) /\ 256 * (x \div 256) + (x % 256) = x
    BY <2>1, DivMod
  <2>3. QED  BY <2>1, <2>2 DEF x
<1> HIDE DEF y
<1>3. c \in Nat /\ (r >= 5 => c >= 5) /\ (r >= 8 => c >= 8)
  BY <1>1
<1>4. e \in Nat /\ 255 * e <= c + 240
  BY <1>3, ExtensionSize
<1>5. e <= p
  BY <1>1, <1>3, <1>4
<1>6. c + e <= r
  BY <1>1, <1>3, <1>4, <1>5
<1>7. QED  BY <1>3, <1>6

(* The last literals are refused only in a room less than compress_bound;  *)
(* and cut, they and their length bytes are as many as there is room for.  *)
LEMMA LastLiteralsSized ==
  ASSUME SizeInv, LastLiterals
  PROVE  SizeInv'
<1> DEFINE l == Laid(seqs)
           r == LastRun
           x == (r + 240) \div 255
           I == iend
           R == olimit
           a == anchor
<1>1. /\ Called(job) /\ Paid /\ pc = "last" /\ op = l
  BY DEF LastLiterals, SizeInv, Sized, Between
<1>2. /\ I \in Nat /\ R \in Nat /\ a \in Nat /\ a <= I /\ l \in Nat /\ 255 * l <= 256 * a
      /\ job.fill => job.limited
  BY <1>1, Figures
<1>3. PICK q \in Nat : CompressBound(iend) = iend + q + 16 /\ iend < 255 * q + 255
                       /\ (~job.limited => iend + q + 16 <= olimit)
  BY <1>1, Figures
<1>4. r \in Nat /\ r = I - a
  BY <1>2 DEF LastRun
<1>5. LastFits <=> (~job.limited \/ l + r + 1 + x <= R)
  <2>1. r + 255 - 15 = r + 240
    BY <1>4
  <2>2. LastFits <=> (~job.limited \/ l + r + 1 + ((r + 255 - 15) \div 255) <= R)
    BY <1>1 DEF LastFits, RUN_MASK
  <2> HIDE DEF r, l
  <2>3. QED  BY <2>1, <2>2
<1>6. x \in Nat /\ 255 * x <= r + 240 /\ r + 240 < 255 * x + 255 /\ x = Len(Extension(r))
  <2> HIDE DEF r
  <2>1. x = Len(Extension(r))
    BY <1>4, ExtensionIs, ZenonT(60)
  <2>2. /\ Len(Extension(r)) \in Nat /\ 255 * Len(Extension(r)) <= r + 240
        /\ r + 240 < 255 * (Len(Extension(r)) + 1)
    BY <1>4, ExtensionSize, ZenonT(60)
  <2> HIDE DEF x
  <2>3. QED  BY <2>1, <2>2
<1>7. l + r + 1 + x <= I + q + 16
  <2> HIDE DEF l, r, x, I, R, a
  <2>1. I < 255 * q + 255
    BY <1>3 DEF I
  <2>2. QED  BY <1>2, <1>4, <1>6, <2>1
<1>8. CASE ~LastFits /\ (~job.fill \/ NoneFits)
  <2>1. Stop("failed")
    BY <1>8 DEF LastLiterals
  <2>2. R < CompressBound(iend)
    <3>1. ~(l + r + 1 + x <= R) /\ CompressBound(iend) = I + q + 16
      BY <1>3, <1>5, <1>8
    <3> HIDE DEF l, r, x, I, R, a
    <3>2. QED  BY <1>2, <1>3, <1>4, <1>6, <1>7, <3>1
  <2>3. job.fill => R = 0
    <3>1. job.fill => R <= l
      BY <1>1, <1>8 DEF NoneFits
    <3>2. job.limited /\ seqs # <<>> => l + 6 <= R
      BY <1>1, LaidFits
    <3>3. seqs = <<>> => l = 0
      BY <1>1, LaidFits
    <3> HIDE DEF l, R
    <3>4. QED  BY <1>2, <3>1, <3>2, <3>3
  <2>4. QED  BY <2>1, <2>2, <2>3, StopSized
<1>9. CASE ~(~LastFits /\ (~job.fill \/ NoneFits))
  <2> DEFINE n == IF LastFits THEN r ELSE LastRunCut
             e == Len(Extension(n))
  <2>1. /\ pc' = "done" /\ last' = SubSeq(src, a + 1, a + n)
        /\ op' = op + 1 + Len(Extension(n)) + n
        /\ UNCHANGED <<job, st, ip, anchor, fwd, m, filled, token, lits, seqs>>
    BY <1>9 DEF LastLiterals
  <2>2. /\ n \in Nat /\ n <= r /\ l + 1 + e + n <= R
        /\ n = I - a \/ (job.fill /\ (l + 6 <= R => n >= 5) /\ (l + 9 <= R => n >= 8))
    <3>1. CASE LastFits
      <4>1. n = r
        BY <3>1
      <4>2. e = x
        BY <1>6, <4>1
      <4>3. job.limited => l + r + 1 + x <= R
        BY <1>5, <3>1
      <4>4. ~job.limited => I + q + 16 <= R
        BY <1>3
      <4> HIDE DEF l, r, x, I, R, a, n, e
      <4>5. l + r + 1 + x <= R
        <5>1. CASE job.limited
          BY <4>3, <5>1
        <5>2. CASE ~job.limited
          BY <1>2, <1>3, <1>4, <1>6, <1>7, <4>4, <5>2
        <5>3. QED  BY <5>1, <5>2
      <4>6. l + 1 + e + n <= R
        BY <1>2, <1>4, <1>6, <4>1, <4>2, <4>5
      <4>7. QED  BY <1>4, <4>1, <4>6
    <3>2. CASE ~LastFits
      <4>1. op \in Nat /\ anchor \in 0..iend /\ ~NoneFits /\ job.fill
        BY <1>1, <1>2, <1>9, <3>2
      <4>2. LastRunCut \in 0..LastRun
        BY <1>1, <3>2, <4>1, WrittenOfLast
      <4> DEFINE z == R - l - 1
                 p == (z + 241) \div 256
                 c == z - p
      <4>3. z \in Nat
        BY <1>1, <1>2, <4>1 DEF NoneFits
      <4>4. n = c
        <5>1. z + 256 - 15 = z + 241
          BY <4>3
        <5>2. n = z - ((z + 256 - 15) \div 256)
          BY <1>1, <3>2 DEF LastRunCut, RUN_MASK
        <5> HIDE DEF z, n
        <5>3. QED  BY <5>1, <5>2
      <4>5. /\ c \in Nat /\ c + Len(Extension(c)) <= z
            /\ z >= 5 => c >= 5
            /\ z >= 8 => c >= 8
        <5> HIDE DEF z
        <5>1. p = (z + 241) \div 256 /\ p \in Nat
          <6> DEFINE w == z + 241
          <6>1. w \in Nat /\ 256 \in Nat \ {0}
            BY <4>3
          <6> HIDE DEF w
          <6>2. w \div 256 \in Nat
            BY <6>1, DivMod
          <6>3. QED  BY <6>2 DEF w
        <5> HIDE DEF p
        <5>2. c = z - p /\ c \in Int
          BY <4>3, <5>1
        <5> HIDE DEF c
        <5>3. c \in Nat
          BY <4>3, <5>1, <5>2, CutFits
        <5>4. c + Len(Extension(c)) <= z
          <6> DEFINE g == Len(Extension(c))
          <6>1. g = Len(Extension(c)) /\ g \in Int
            BY <5>3, ExtensionSize
          <6> HIDE DEF g
          <6>2. c + g <= z
            BY <4>3, <5>1, <5>2, <6>1, CutFits
          <6>3. QED  BY <6>2 DEF g
        <5>5. z >= 5 => c >= 5
          BY <4>3, <5>1, <5>2, CutFits
        <5>6. z >= 8 => c >= 8
          BY <4>3, <5>1, <5>2, CutFits
        <5>7. QED  BY <5>3, <5>4, <5>5, <5>6
      <4>6. n <= r
        BY <3>2, <4>2
      <4>7. e = Len(Extension(c))
        BY <4>4
      <4>8. e \in Nat
        BY <4>5, <4>7, ExtensionSize
      <4>9. z = R - l - 1
        OBVIOUS
      <4> HIDE DEF l, r, I, R, a, n, e, z, c
      <4>10. l + 1 + e + n <= R /\ (l + 6 <= R => n >= 5) /\ (l + 9 <= R => n >= 8)
        BY <1>2, <4>3, <4>4, <4>5, <4>7, <4>8, <4>9
      <4>11. QED  BY <4>1, <4>4, <4>5, <4>6, <4>10
    <3>3. QED  BY <3>1, <3>2
  <2> HIDE DEF n
  <2>3. last' \in Seq(Nat) /\ Len(last') = n
    <3> DEFINE b == a + n
    <3>1. src \in Seq(Nat) /\ Len(src) = I
      BY <1>1, CallTyped DEF iend
    <3>2. b \in Nat /\ a <= b /\ b <= I /\ b - a = n
      <4> HIDE DEF l, r, x, I, R, a, e
      <4>1. QED  BY <1>2, <1>4, <2>2
    <3>3. last' = SubSeq(src, a + 1, b)
      BY <2>1
    <3> HIDE DEF b, I, a
    <3>4. SubSeq(src, a + 1, b) \in Seq(Nat)
      BY <1>2, <3>1, <3>2, Slice, Zenon
    <3>5. Len(SubSeq(src, a + 1, b)) = b - a
      <4>1. a \in Nat /\ b \in Nat /\ a <= b /\ b <= Len(src) /\ src \in Seq(Nat)
        BY <1>2, <3>1, <3>2
      <4>2. QED  BY <4>1, Slice, Zenon
    <3>6. QED  BY <3>2, <3>3, <3>4, <3>5
  <2>4. seqs # <<>> => n >= 5 /\ LastLength + n >= 12
    <3> SUFFICES ASSUME seqs # <<>> PROVE n >= 5 /\ LastLength + n >= 12
      OBVIOUS
    <3> DEFINE k == LastLength
    <3>1. /\ a + 5 <= I /\ a + 12 <= I + k /\ k \in Nat /\ k >= 4
          /\ job.limited => l + 6 <= R
          /\ job.fill => k >= 12 \/ l + 9 <= R
      BY <1>1 DEF Paid, Closed, LASTLITERALS, MFLIMIT, MINMATCH
    <3> HIDE DEF l, r, x, I, R, a, e, k
    <3>2. ASSUME n = I - a PROVE n >= 5 /\ k + n >= 12
      BY <1>2, <2>2, <3>1, <3>2
    <3>3. ASSUME job.fill, l + 6 <= R => n >= 5, l + 9 <= R => n >= 8
          PROVE  n >= 5 /\ k + n >= 12
      <4>1. l + 6 <= R /\ (k >= 12 \/ l + 9 <= R)
        BY <1>2, <3>1, <3>3
      <4>2. QED  BY <1>2, <2>2, <3>1, <3>3, <4>1
    <3>4. n >= 5 /\ k + n >= 12
      BY <2>2, <3>2, <3>3
    <3>5. QED  BY <3>4 DEF k
  <2>5. /\ op' = l + 1 + e + n /\ olimit' = R /\ seqs' = seqs /\ LastLength' = LastLength
        /\ job' = job
    BY <1>1, <2>1, <2>2, SameRoom, ExtensionSize DEF LastLength
  <2>6. Closing'
    <3>1. op' = Laid(seqs') + 1 + Len(Extension(Len(last'))) + Len(last')
      BY <2>3, <2>5
    <3>2. op' <= olimit'
      BY <2>2, <2>5
    <3>3. seqs' # <<>> => Len(last') >= LASTLITERALS /\ LastLength' + Len(last') >= MFLIMIT
      BY <2>3, <2>4, <2>5 DEF LASTLITERALS, MFLIMIT
    <3>4. QED  BY <2>3, <3>1, <3>2, <3>3 DEF Closing
  <2>7. Called(job)' /\ Tabled' /\ Paid'
    BY <2>1, SameRoom, TableKept, PaidKept DEF SizeInv, Sized
  <2>8. Untouched' /\ Between' /\ Probing' /\ Found' /\ Opened' /\ Succeeds'
    BY <2>1 DEF Untouched, Between, Probing, Found, Opened, Succeeds
  <2>9. QED  BY <2>6, <2>7, <2>8 DEF SizeInv, Sized
<1>10. QED  BY <1>8, <1>9

LEMMA StepSized ==
  ASSUME SizeInv, [Next]_vars, HashAssumption
  PROVE  SizeInv'
<1>1. CASE Empty
  BY <1>1, EmptySized
<1>2. CASE Begin
  BY <1>2, BeginSized
<1>3. CASE Search
  BY <1>3, SearchSized
<1>4. CASE SearchEnds
  BY <1>4, SearchEndsSized
<1>5. CASE EncodeLiterals
  BY <1>5, EncodeLiteralsSized
<1>6. CASE NoRoomForMatch
  BY <1>6, NoRoomForMatchSized
<1>7. CASE EncodeMatch
  BY <1>7, EncodeMatchSized
<1>8. CASE LastLiterals
  BY <1>8, LastLiteralsSized
<1>9. CASE UNCHANGED vars
  <2>1. UNCHANGED <<job, st, pc, ip, anchor, op, fwd, m, filled, token, lits, seqs, last>>
    BY <1>9 DEF vars
  <2>2. Called(job)' /\ Tabled' /\ Paid'
    BY <2>1, SameRoom, TableKept, PaidKept DEF SizeInv, Sized
  <2>3. LastLength' = LastLength /\ olimit' = olimit /\ iend' = iend
    BY <2>1, SameRoom DEF LastLength
  <2>4. Untouched' /\ Between' /\ Probing' /\ Found'
    BY <2>1, <2>3, Zenon DEF SizeInv, Sized, Untouched, Between, Probing, Found
  <2>5. Opened' /\ Closing' /\ Succeeds'
    BY <2>1, <2>3, Zenon DEF SizeInv, Sized, Opened, Closing, Succeeds
  <2>6. QED  BY <2>2, <2>4, <2>5 DEF SizeInv, Sized
<1>10. QED
  BY <1>1, <1>2, <1>3, <1>4, <1>5, <1>6, <1>7, <1>8, <1>9 DEF Next, Step, Finished

-----------------------------------------------------------------------------
(* What the sizes come to.                                                 *)
Staged == pc \in {"begin", "search", "literals", "match", "last", "done", "failed"}

LEMMA StageKept ==
  ASSUME Staged, [Next]_vars
  PROVE  Staged'
<1>1. CASE Empty
  BY <1>1 DEF Empty, Stop, Staged
<1>2. CASE Begin
  BY <1>2 DEF Begin, Staged
<1>3. CASE Search
  BY <1>3 DEF Search, Staged
<1>4. CASE SearchEnds
  BY <1>4 DEF SearchEnds, Stop, Staged
<1>5. CASE EncodeLiterals
  BY <1>5 DEF EncodeLiterals, Stop, Staged
<1>6. CASE NoRoomForMatch
  BY <1>6 DEF NoRoomForMatch, Staged
<1>7. CASE EncodeMatch
  BY <1>7 DEF EncodeMatch, Staged
<1>8. CASE LastLiterals
  BY <1>8 DEF LastLiterals, Stop, Staged
<1>9. CASE UNCHANGED vars
  BY <1>9 DEF vars, Staged
<1>10. QED
  BY <1>1, <1>2, <1>3, <1>4, <1>5, <1>6, <1>7, <1>8, <1>9 DEF Next, Step, Finished

LEMMA WithinRoom ==
  ASSUME SizeInv, Staged
  PROVE  InRoom
<1>1. Called(job) /\ Paid /\ Between /\ Opened /\ Closing
  BY DEF SizeInv, Sized
<1>2. ASSUME pc \notin {"begin", "failed"} PROVE op <= olimit
  <2>1. CASE pc \in {"search", "literals", "last"}
    BY <1>1, <2>1, LaidFits DEF Between
  <2>2. CASE pc = "done"
    BY <1>1, <2>2 DEF Closing
  <2>3. CASE pc = "match"
    <3> DEFINE l == Laid(seqs)
               n == ip - anchor
               e == Len(Extension(n))
               a == anchor
               I == iend
               R == olimit
    <3>1. PICK q \in Nat : iend < 255 * q + 255 /\ (~job.limited => iend + q + 16 <= olimit)
      BY <1>1, Figures
    <3>2. I \in Nat /\ R \in Nat /\ a \in Nat /\ l \in Nat /\ 255 * l <= 256 * a
      BY <1>1, Figures
    <3>3. /\ ip \in Nat /\ ip + 12 <= I /\ a <= ip
          /\ op = l + 1 + e + n /\ (job.limited => op + 5 <= R)
      BY <1>1, <2>3 DEF Opened, MFLIMIT
    <3>4. n \in Nat /\ a + n = ip
      BY <3>2, <3>3
    <3> HIDE DEF n
    <3>5. e \in Nat /\ 255 * e <= n + 240
      BY <3>4, ExtensionSize
    <3>6. I < 255 * q + 255 /\ (~job.limited => I + q + 16 <= R)
      BY <3>1
    <3> HIDE DEF l, e, a, I, R
    <3>7. l + e <= a + q + 1
      BY <3>2, <3>3, <3>4, <3>5, <3>6
    <3>8. op <= R
      BY <3>2, <3>3, <3>4, <3>5, <3>6, <3>7
    <3>9. QED  BY <3>8 DEF R
  <2>4. QED  BY <1>2, <2>1, <2>2, <2>3 DEF Staged
<1>3. ASSUME pc = "done" PROVE op = Len(BlockBytes(Block))
  <2>1. last \in Seq(Nat) /\ seqs \in Seq(SequenceSet)
        /\ op = Laid(seqs) + 1 + Len(Extension(Len(last))) + Len(last)
    BY <1>1, <1>3 DEF Closing, Paid
  <2>2. QED  BY <2>1, BlockSize DEF Block
<1>4. QED  BY <1>2, <1>3 DEF InRoom

LEMMA AsAsked ==
  ASSUME SizeInv, Inv, HistoryWhole
  PROVE  Conforms
<1> SUFFICES ASSUME pc = "done"
             PROVE  /\ Conforming(Block)
                    /\ \A i \in 1..Len(seqs) : seqs[i].offset \in 1..(Window - 1)
  BY DEF Conforms
<1>1. Closing /\ Written
  BY DEF SizeInv, Sized, Inv, Sound
<1>2. \A i \in 1..Len(seqs) : seqs[i].offset \in 1..(Window - 1)
  BY <1>1, Zenon DEF Written
<1>3. \A i \in 1..Len(seqs) : seqs[i].offset > 0
  BY <1>2, Numbers
<1>4. seqs # <<>> => Len(last) >= LASTLITERALS /\ seqs[Len(seqs)].length + Len(last) >= MFLIMIT
  BY <1>1 DEF Closing, LastLength
<1>5. Block.seqs = seqs /\ Block.last = last
  BY DEF Block
<1>6. Conforming(Block)
  BY <1>3, <1>4, <1>5 DEF Conforming
<1>7. QED  BY <1>2, <1>6

(* Whatever is compressed, nothing is written past the room, the count     *)
(* returned is the block's size, a room of LZ4_compressBound is always     *)
(* enough and filling any room gives a block, whatever the history; and    *)
(* the block of a call that was given its history whole is one that other  *)
(* decoders take (src/block.rs 1101-1277).                                 *)
THEOREM EveryBlockFits ==
  ASSUME JobsAssumption, HashAssumption
  PROVE  Spec => [](InRoom /\ Succeeds /\ (HistoryWhole => BlocksFit))
<1> DEFINE All == Inv /\ SizeInv /\ Staged
<1>1. Init => All
  <2> SUFFICES ASSUME NEW j \in Jobs, Ready(j) PROVE All
    BY DEF Init
  <2>1. job = j /\ Called(job) /\ Ready(job)
    BY DEF Ready, JobsAssumption
  <2>2. Staged
    BY <2>1 DEF Ready, Staged
  <2>3. QED  BY <2>1, <2>2, Begun, BegunSized
<1>2. All /\ [Next]_vars => All'
  BY StepKeeps, StepSized, StageKept
<1>3. All => InRoom /\ Succeeds /\ (HistoryWhole => BlocksFit)
  <2> SUFFICES ASSUME Inv, SizeInv, Staged
               PROVE  InRoom /\ Succeeds /\ (HistoryWhole => BlocksFit)
    OBVIOUS
  <2>1. InRoom
    BY WithinRoom
  <2>2. Succeeds
    BY DEF SizeInv, Sized
  <2>3. HistoryWhole => Conforms
    BY AsAsked
  <2>4. QED  BY <2>1, <2>2, <2>3 DEF BlocksFit
<1> HIDE DEF All
<1>4. QED  BY <1>1, <1>2, <1>3, PTL DEF Spec
==============================================================================
