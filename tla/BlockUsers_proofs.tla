--------------------------- MODULE BlockUsers_proofs ---------------------------
(***************************************************************************)
(* Proofs about those who make call after call with one table: what a call *)
(* leaves in the table is true of the bytes it has seen and of no others,  *)
(* and with it every block of a frame of linked blocks, and every one-shot *)
(* call into a state used before, is the call that BlockEncoder_proofs is  *)
(* about.                                                                  *)
(***************************************************************************)
EXTENDS LinkedBlocks, StateReuse, BlockEncoder_proofs

-----------------------------------------------------------------------------
(* The bytes that an entry is made from.                                   *)

SameUnit(s, p, t, q) ==
  /\ p + HASH_UNIT <= Len(s) /\ q + HASH_UNIT <= Len(t)
  /\ \A k \in 1..HASH_UNIT : s[p + k] = t[q + k]

(* What a place hashes to depends on the bytes at the place alone.         *)
LEMMA SameHash ==
  ASSUME NEW s \in Seq(Nat), NEW t \in Seq(Nat), NEW p \in Nat, NEW q \in Nat, NEW type,
         SameUnit(s, p, t, q)
  PROVE  HashPosition(s, p, type) = HashPosition(t, q, type)
<1> DEFINE n == IF type = "U16" THEN 4 ELSE 8
           a == SubSeq(s, p + 1, p + n)
           b == SubSeq(t, q + 1, q + n)
<1>1. n \in {4, 8} /\ HASH_UNIT = 8 /\ n \in Nat /\ n <= 8
      /\ Len(s) \in Nat /\ Len(t) \in Nat /\ p + 8 <= Len(s) /\ q + 8 <= Len(t)
  <2>1. n \in {4, 8} /\ n \in Nat /\ n <= 8
    OBVIOUS
  <2> HIDE DEF n, a, b
  <2>2. Len(s) \in Nat /\ Len(t) \in Nat
    OBVIOUS
  <2>3. HASH_UNIT = 8
    BY DEF HASH_UNIT
  <2>4. p + 8 <= Len(s) /\ q + 8 <= Len(t)
    BY <2>3 DEF SameUnit
  <2>5. QED  BY <2>1, <2>2, <2>3, <2>4
<1>2. /\ HashPosition(s, p, type) = Hash(SubSeq(a, 1, IF type = "U16" THEN 4 ELSE 5))
      /\ HashPosition(t, q, type) = Hash(SubSeq(b, 1, IF type = "U16" THEN 4 ELSE 5))
  BY DEF HashPosition, HASH_UNIT
<1> HIDE DEF n
<1>3. a \in Seq(Nat) /\ Len(a) = n /\ \A k \in 1..n : a[k] = s[p + k]
  <2> DEFINE e == p + n
  <2> HIDE DEF a, b, n
  <2>1. e \in Nat /\ p <= e /\ e <= Len(s) /\ e - p = n
    BY <1>1
  <2> HIDE DEF e
  <2>2. SubSeq(s, p + 1, e) \in Seq(Nat) /\ Len(SubSeq(s, p + 1, e)) = e - p
        /\ \A k \in 1..(e - p) : SubSeq(s, p + 1, e)[k] = s[p + k]
    BY <2>1, Slice
  <2>3. QED  BY <2>1, <2>2, Zenon DEF a, e
<1>4. b \in Seq(Nat) /\ Len(b) = n /\ \A k \in 1..n : b[k] = t[q + k]
  <2> DEFINE e == q + n
  <2> HIDE DEF a, b, n
  <2>1. e \in Nat /\ q <= e /\ e <= Len(t) /\ e - q = n
    BY <1>1
  <2> HIDE DEF e
  <2>2. SubSeq(t, q + 1, e) \in Seq(Nat) /\ Len(SubSeq(t, q + 1, e)) = e - q
        /\ \A k \in 1..(e - q) : SubSeq(t, q + 1, e)[k] = t[q + k]
    BY <2>1, Slice
  <2>3. QED  BY <2>1, <2>2, Zenon DEF b, e
<1> HIDE DEF a, b
<1>5. ASSUME NEW k \in 1..n PROVE a[k] = b[k]
  <2>1. k \in 1..8
    BY <1>1
  <2>2. QED  BY <1>1, <1>3, <1>4, <2>1, Zenon DEF SameUnit
<1>6. a = b
  BY <1>1, <1>3, <1>4, <1>5, SeqEqual, Zenon
<1>7. QED  BY <1>2, <1>6

(* So it is the same in a longer text that has the bytes further on.       *)
Part(s, d, t) ==
  /\ s \in Seq(Nat) /\ t \in Seq(Nat) /\ d \in Nat /\ d + Len(s) <= Len(t)
  /\ \A k \in 1..Len(s) : s[k] = t[d + k]
LEMMA HashWithin ==
  ASSUME NEW s, NEW t, NEW d, Part(s, d, t), NEW q \in Nat, NEW r, NEW type,
         q + HASH_UNIT <= Len(s), r = d + q
  PROVE  HashPosition(s, q, type) = HashPosition(t, r, type)
<1>1. HASH_UNIT = 8
  BY DEF HASH_UNIT
<1> DEFINE mid == Len(s)
           n == Len(t)
<1>2. mid \in Nat /\ n \in Nat /\ q + 8 <= mid /\ d + mid <= n /\ d \in Nat
      /\ s \in Seq(Nat) /\ t \in Seq(Nat)
  BY <1>1 DEF Part
<1>3. \A k \in 1..mid : s[k] = t[d + k]
  BY DEF Part
<1> HIDE DEF mid, n
<1>4. r \in Nat /\ r + HASH_UNIT <= n
  BY <1>1, <1>2
<1>5. ASSUME NEW k \in 1..HASH_UNIT PROVE s[q + k] = t[r + k]
  <2>1. k \in 1..8
    BY <1>1
  <2>2. k \in Nat /\ 1 <= k /\ k <= 8
    BY <2>1
  <2>3. q + k \in 1..mid
    BY <1>2, <2>2
  <2>4. d + (q + k) = r + k
    BY <1>2, <2>2
  <2>5. QED  BY <1>3, <2>3, <2>4
<1>6. mid = Len(s) /\ n = Len(t)
  BY DEF mid, n
<1>7. SameUnit(s, q, t, r)
  BY <1>4, <1>5, <1>6 DEF SameUnit
<1>8. QED  BY <1>2, <1>4, <1>7, SameHash

-----------------------------------------------------------------------------
(* The table during a call.  Entries below startIndex are of the history,  *)
(* the others of the input; none lies at the end of the input or beyond.   *)
Past == SubSeq(job.content, 1, job.st.dictSize)
PastBase == startIndex - job.st.dictSize

Below(table) == \A h \in 0..(HashSize - 1) : table[h] < Larger(1, startIndex + iend)
SaysTrue(table) ==
  \A h \in 0..(HashSize - 1) : table[h] > 0 /\ table[h] >= PastBase =>
    IF table[h] >= startIndex
    THEN /\ table[h] - startIndex + HASH_UNIT <= iend
         /\ h = HashPosition(src, table[h] - startIndex, tt)
    ELSE /\ table[h] - PastBase + HASH_UNIT <= job.st.dictSize
         /\ h = HashPosition(Past, table[h] - PastBase, tt)
Table(table) == table \in Tables /\ Below(table) /\ (Primed(job) => SaysTrue(table))

(* What the call leaves of its state, besides the table.                   *)
Carried ==
  /\ StateTyped(st) /\ st.tt = tt
  /\ st.currentOffset = startIndex + iend /\ st.dictSize = job.st.dictSize + iend
Moved == IF pc = "begin" THEN st = job.st ELSE Carried /\ Table(st.table)

LEMMA PastTyped ==
  ASSUME Called(job)
  PROVE  /\ Past \in Seq(Nat) /\ Len(Past) = job.st.dictSize /\ PastBase \in Nat
         /\ job.st.dictSize \in Nat /\ PastBase <= startIndex
         /\ \A k \in 1..job.st.dictSize : Past[k] = job.content[k]
<1>1. /\ job.content \in Seq(Nat) /\ Len(job.content) \in Nat /\ job.st.dictSize \in Nat
      /\ job.st.dictSize <= startIndex /\ startIndex \in Nat
      /\ HistoryLength(job) <= Len(job.content)
  BY CallTyped
<1>2. job.st.dictSize <= Len(job.content)
  <2>1. CASE job.directive = "ctx"
    BY <1>1, <2>1, CallTyped
  <2>2. CASE job.directive # "ctx"
    BY <1>1, <2>2 DEF HistoryLength
  <2>3. QED  BY <2>1, <2>2
<1> DEFINE d == job.st.dictSize
           c == job.content
<1>3. d \in Nat /\ c \in Seq(Nat) /\ d <= Len(c)
  BY <1>1, <1>2
<1> HIDE DEF d, c
<1>4. SubSeq(c, 1, d) \in Seq(Nat) /\ Len(SubSeq(c, 1, d)) = d
      /\ \A k \in 1..d : SubSeq(c, 1, d)[k] = c[k]
  BY <1>3
<1>5. QED  BY <1>1, <1>4 DEF Past, PastBase, d, c

LEMMA Contents ==
  ASSUME Called(job)
  PROVE  job.content \in Seq(Nat) /\ job.st.dictSize <= Len(job.content)
<1>1. CASE job.directive = "ctx"
  BY <1>1, CallTyped
<1>2. CASE job.directive # "ctx"
  BY <1>2, CallTyped DEF HistoryLength
<1>3. QED  BY <1>1, <1>2

(* A position entered.                                                     *)
LEMMA PutTable ==
  ASSUME Called(job), HashAssumption, NEW table, Table(table), NEW p \in Nat, p + MFLIMIT <= iend
  PROVE  Table(Put(table, tt, HashPosition(src, p, tt), IndexOf(p)))
<1> DEFINE h == HashPosition(src, p, tt)
           t == Put(table, tt, h, IndexOf(p))
<1>1. iend \in Nat /\ startIndex \in Nat /\ startIndex + iend < Wrap /\ p + HASH_UNIT <= iend
      /\ p <= iend
  BY CallTyped DEF MFLIMIT, HASH_UNIT
<1>2. h \in 0..(HashSize - 1) /\ IndexOf(p) = startIndex + p
  BY <1>1, Hashed, Index
<1> HIDE DEF h
<1>3. /\ t \in Tables
      /\ \A g \in 0..(HashSize - 1) : t[g] = IF g = h THEN startIndex + p ELSE table[g]
  BY <1>2, PutTyped DEF Table
<1> HIDE DEF t
<1>4. Below(t)
  <2>1. startIndex + p < Larger(1, startIndex + iend)
    BY <1>1 DEF Larger, MFLIMIT
  <2>2. QED  BY <1>3, <2>1 DEF Below, Table
<1>5. ASSUME Primed(job) PROVE SaysTrue(t)
  <2>1. (startIndex + p) - startIndex = p /\ startIndex + p >= startIndex
    BY <1>1
  <2>2. SaysTrue(table)
    BY <1>5 DEF Table
  <2> SUFFICES ASSUME NEW g \in 0..(HashSize - 1), t[g] > 0, t[g] >= PastBase
               PROVE  IF t[g] >= startIndex
                      THEN /\ t[g] - startIndex + HASH_UNIT <= iend
                           /\ g = HashPosition(src, t[g] - startIndex, tt)
                      ELSE /\ t[g] - PastBase + HASH_UNIT <= job.st.dictSize
                           /\ g = HashPosition(Past, t[g] - PastBase, tt)
    BY DEF SaysTrue
  <2>3. CASE g = h
    BY <1>1, <1>3, <2>1, <2>3 DEF h
  <2>4. CASE g # h
    <3>1. t[g] = table[g]
      BY <1>3, <2>4
    <3>2. QED  BY <2>2, <3>1 DEF SaysTrue
  <2>5. QED  BY <2>3, <2>4
<1>6. QED  BY <1>3, <1>4, <1>5 DEF Table, t, h

(* Positions forgotten.                                                    *)
LEMMA CutTable ==
  ASSUME Called(job), Table(st.table), NEW n
  PROVE  Table(Cut(n))
<1> DEFINE drop == {HashPosition(src, p, tt) : p \in {q \in MatchEnd(n)..filled : q + 8 <= iend}}
           t == [h \in DOMAIN st.table |-> IF h \in drop THEN 0 ELSE st.table[h]]
<1>1. Cut(n) = st.table \/ Cut(n) = t
  BY DEF Cut, Forgotten
<1> HIDE DEF drop
<1>2. /\ t \in Tables /\ \A h \in 0..(HashSize - 1) : t[h] = 0 \/ t[h] = st.table[h]
  BY Zenon DEF Table, Tables
<1> HIDE DEF t
<1>3. Table(t)
  <2>1. startIndex \in Nat /\ iend \in Nat
    BY CallTyped
  <2>2. 0 < Larger(1, startIndex + iend)
    BY <2>1 DEF Larger
  <2>3. Below(t)
    BY <1>2, <2>2 DEF Table, Below
  <2>4. Primed(job) => SaysTrue(t)
    BY <1>2 DEF Table, SaysTrue
  <2>5. QED  BY <1>2, <2>3, <2>4 DEF Table
<1>4. QED  BY <1>1, <1>3

-----------------------------------------------------------------------------
(* The steps.                                                              *)

(* Nothing but the table moves once the state has been moved on.           *)
Kept(table) == st' = [st EXCEPT !.table = table] /\ job' = job

LEMMA SameTable ==
  ASSUME job' = job
  PROVE  \A table : Table(table)' <=> Table(table)
BY SameCall, Zenon DEF Table, Below, SaysTrue, Past, PastBase

LEMMA MovedOn ==
  ASSUME Called(job), Carried, NEW table, Table(table), Kept(table), pc' # "begin"
  PROVE  Moved'
<1>1. /\ st' = [st EXCEPT !.table = table] /\ job' = job
      /\ startIndex' = startIndex /\ iend' = iend /\ tt' = tt
  BY SameCall DEF Kept
<1>2. /\ st.currentOffset = startIndex + iend /\ st.tt = tt
      /\ st.dictSize = job.st.dictSize + iend /\ StateTyped(st)
  BY DEF Carried
<1>3. table \in Tables /\ \A h \in 0..(HashSize - 1) : table[h] < Larger(1, st.currentOffset)
  BY <1>2 DEF Table, Below
<1>4. StateTyped(st')
  BY <1>1, <1>2, <1>3 DEF StateTyped, Seen, Tables
<1>5. st'.table = table /\ st'.currentOffset = st.currentOffset /\ st'.tt = st.tt
      /\ st'.dictSize = st.dictSize
  BY <1>1, <1>2 DEF StateTyped
<1>6. Table(st.table)'
  <2>1. Table(st'.table)
    BY <1>5
  <2>2. QED  BY <1>1, <2>1, SameTable, Zenon DEF Table, Below, SaysTrue, Past, PastBase
<1>7. Carried'
  BY <1>1, <1>2, <1>4, <1>5 DEF Carried
<1>8. QED  BY <1>6, <1>7 DEF Moved

LEMMA NothingMoved ==
  ASSUME Moved, pc # "begin", job' = job, st' = st, pc' # "begin"
  PROVE  Moved'
BY SameCall, Zenon DEF Moved, Carried, Table, Below, SaysTrue, Past, PastBase

LEMMA AtStart ==
  ASSUME Called(job)
  PROVE  Table(job.st.table)
<1> DEFINE table == job.st.table
<1>1. /\ startIndex \in Nat /\ iend \in Nat /\ startIndex = job.st.currentOffset
      /\ job.st.dictSize \in Nat /\ tt = job.st.tt
  BY CallTyped DEF startIndex, tt
<1>2. table \in Tables /\ \A h \in DOMAIN table : table[h] < Larger(1, startIndex)
  BY <1>1 DEF Called, StateTyped, Seen
<1>3. Below(table)
  <2> SUFFICES ASSUME NEW h \in 0..(HashSize - 1)
               PROVE  table[h] < Larger(1, startIndex + iend)
    BY DEF Below
  <2>1. table[h] \in Nat /\ table[h] < Larger(1, startIndex)
    BY <1>2, Zenon DEF Tables
  <2> HIDE DEF table
  <2>2. QED  BY <1>1, <2>1 DEF Larger
<1>4. ASSUME Primed(job) PROVE SaysTrue(table)
  <2>1. Past \in Seq(Nat) /\ Len(Past) = job.st.dictSize /\ PastBase \in Nat
        /\ PastBase = startIndex - job.st.dictSize
    BY PastTyped DEF PastBase
  <2>2. Truly(table, PastBase, Past, tt)
    BY <1>1, <1>4 DEF Primed, Past, PastBase
  <2> SUFFICES ASSUME NEW h \in 0..(HashSize - 1), table[h] > 0, table[h] >= PastBase
               PROVE  /\ ~(table[h] >= startIndex)
                      /\ table[h] - PastBase + HASH_UNIT <= job.st.dictSize
                      /\ h = HashPosition(Past, table[h] - PastBase, tt)
    BY DEF SaysTrue
  <2>3. table[h] \in Nat /\ h \in DOMAIN table
    BY <1>2, Zenon DEF Tables
  <2>4. /\ table[h] - PastBase + HASH_UNIT <= Len(Past)
        /\ h = HashPosition(Past, table[h] - PastBase, tt)
    BY <2>2, <2>3 DEF Truly
  <2>5. HASH_UNIT = 8
    BY DEF HASH_UNIT
  <2> DEFINE e == table[h]
  <2>6. e \in Nat /\ e - PastBase + 8 <= job.st.dictSize
    BY <2>1, <2>3, <2>4, <2>5
  <2> HIDE DEF e
  <2>7. ~(e >= startIndex)
    BY <1>1, <2>1, <2>6
  <2>8. QED  BY <2>1, <2>4, <2>7 DEF e
<1>5. QED  BY <1>2, <1>3, <1>4 DEF Table

(* The state moved on by the whole block.                                  *)
LEMMA AdvancedOn ==
  ASSUME Called(job), st = job.st, NEW table, Table(table), job' = job, pc' # "begin",
         st' = [Advanced(st) EXCEPT !.table = table]
  PROVE  Moved'
<1> DEFINE s == [Advanced(st) EXCEPT !.table = table]
<1>1. /\ startIndex' = startIndex /\ iend' = iend /\ tt' = tt
  BY SameCall
<1>2. /\ startIndex = st.currentOffset /\ startIndex \in Nat /\ iend \in Nat /\ tt = st.tt
      /\ startIndex + iend < Wrap /\ st.dictSize \in Nat /\ st.dictSize <= startIndex
  BY CallTyped DEF startIndex, tt
<1>3. StateTyped(st)
  BY DEF Called
<1>4. (st.currentOffset + iend) % Wrap = startIndex + iend
  BY <1>2, Small
<1>5. (st.dictSize + iend) % Wrap = st.dictSize + iend
  <2> DEFINE x == st.dictSize + iend
  <2>1. x \in Nat /\ x < Wrap
    BY <1>2, Numbers
  <2> HIDE DEF x
  <2>2. x % Wrap = x
    BY <2>1, Small
  <2>3. QED  BY <2>2 DEF x
<1>6. Advanced(st) = [st EXCEPT !.dictSize = st.dictSize + iend, !.currentOffset = startIndex + iend]
  BY <1>4, <1>5, Zenon DEF Advanced
<1>7. /\ s.table = table /\ s.tt = st.tt
      /\ s.currentOffset = startIndex + iend /\ s.dictSize = st.dictSize + iend
      /\ s = [table |-> table, currentOffset |-> startIndex + iend, dictSize |-> st.dictSize + iend,
              tt |-> st.tt, dictionary |-> st.dictionary, dictCtx |-> st.dictCtx]
  <2>1. /\ st = [table |-> st.table, currentOffset |-> st.currentOffset, dictSize |-> st.dictSize,
                 tt |-> st.tt, dictionary |-> st.dictionary, dictCtx |-> st.dictCtx]
    BY <1>3 DEF StateTyped
  <2>2. Advanced(st) =
          [table |-> st.table, currentOffset |-> startIndex + iend, dictSize |-> st.dictSize + iend,
           tt |-> st.tt, dictionary |-> st.dictionary, dictCtx |-> st.dictCtx]
    BY <1>6, <2>1, Zenon
  <2>3. s = [table |-> table, currentOffset |-> startIndex + iend, dictSize |-> st.dictSize + iend,
             tt |-> st.tt, dictionary |-> st.dictionary, dictCtx |-> st.dictCtx]
    BY <2>2
  <2>4. QED  BY <2>3
<1> HIDE DEF s
<1>8. StateTyped(s)
  <2>1. table \in Tables /\ \A h \in 0..(HashSize - 1) : table[h] < Larger(1, startIndex + iend)
    BY DEF Table, Below
  <2>2. startIndex + iend \in Nat /\ st.dictSize + iend \in Nat
        /\ st.dictSize + iend <= startIndex + iend
    BY <1>2
  <2>3. Seen(s)
    BY <1>7, <2>1 DEF Seen, Tables
  <2>4. s \in [table : Tables, currentOffset : Nat, dictSize : Nat, tt : {"none", "U16", "U32"},
               dictionary : Nat, dictCtx : {s.dictCtx}]
    BY <1>3, <1>7, <2>1, <2>2 DEF StateTyped
  <2>5. QED  BY <1>7, <2>2, <2>3, <2>4 DEF StateTyped
<1>9. st' = s /\ st'.table = table
  BY <1>7 DEF s
<1>10. Table(st.table)'
  <2>1. Table(st'.table)
    BY <1>9
  <2>2. QED  BY <1>1, <2>1, SameTable, Zenon DEF Table, Below, SaysTrue, Past, PastBase
<1>11. Carried'
  BY <1>1, <1>2, <1>7, <1>8, <1>9 DEF Carried
<1>12. QED  BY <1>10, <1>11 DEF Moved

LEMMA EmptyMoved ==
  ASSUME Called(job), Moved, Empty
  PROVE  Moved'
<1>1. pc = "begin" /\ iend = 0 /\ st = job.st /\ st' = st /\ job' = job /\ pc' # "begin"
  BY DEF Empty, Stop, Moved
<1>2. StateTyped(st)
  BY <1>1 DEF Called
<1>3. Advanced(st) = st
  <2>1. startIndex = st.currentOffset /\ st.currentOffset + 0 < Wrap /\ st.currentOffset \in Nat
        /\ st.dictSize \in Nat /\ st.dictSize <= st.currentOffset
    BY <1>1, CallTyped DEF startIndex
  <2>2. (st.currentOffset + iend) % Wrap = st.currentOffset
    BY <1>1, <2>1, Small
  <2>3. st.dictSize < Wrap /\ st.dictSize + iend = st.dictSize
    BY <1>1, <2>1, Numbers
  <2>4. (st.dictSize + iend) % Wrap = st.dictSize
    BY <2>1, <2>3, Small
  <2>5. QED  BY <1>2, <2>2, <2>4, Zenon DEF Advanced, StateTyped
<1>4. [Advanced(st) EXCEPT !.table = st.table] = st
  BY <1>2, <1>3 DEF StateTyped
<1>5. QED  BY <1>1, <1>4, AtStart, AdvancedOn

LEMMA BeginMoved ==
  ASSUME Called(job), Moved, Begin, HashAssumption
  PROVE  Moved'
<1> DEFINE h == HashPosition(src, 0, tt)
           t == Put(st.table, tt, h, startIndex)
<1>1. /\ pc = "begin" /\ iend > 0 /\ st = job.st /\ job' = job
      /\ pc' # "begin" /\ StateTyped(st)
  BY DEF Begin, Moved, Called
<1>2. Advanced(st).table = st.table /\ [Advanced(st) EXCEPT !.table = st.table] = Advanced(st)
  BY <1>1, Zenon DEF Advanced, StateTyped
<1>3. CASE iend < MinLength /\ st' = Advanced(st)
  BY <1>1, <1>2, <1>3, AtStart, AdvancedOn
<1>4. CASE ~(iend < MinLength) /\ st' = [Advanced(st) EXCEPT !.table = t]
  <2>1. 0 + MFLIMIT <= iend /\ 0 <= iend /\ 0 \in Nat
    BY <1>4, CallTyped DEF MinLength, MFLIMIT
  <2>2. IndexOf(0) = startIndex
    <3>1. IndexOf(0) = startIndex + 0
      BY <2>1, Index
    <3>2. QED  BY <3>1, CallTyped
  <2>3. Table(Put(st.table, tt, h, IndexOf(0)))
    BY <1>1, <2>1, AtStart, PutTable
  <2>4. Table(t)
    BY <2>2, <2>3
  <2> HIDE DEF t
  <2>5. QED  BY <1>1, <1>4, <2>4, AdvancedOn
<1>5. QED  BY <1>2, <1>3, <1>4 DEF Begin

LEMMA SearchMoved ==
  ASSUME SizeInv, Moved, Search, HashAssumption
  PROVE  Moved'
<1> DEFINE t == Put(st.table, tt, HashPosition(src, fwd.ip, tt), IndexOf(fwd.ip))
<1>1. /\ pc = "search" /\ fwd.ip + fwd.step <= mflimitPlusOne /\ Kept(t)
      /\ pc' # "begin" /\ job' = job
  BY DEF Search, Kept
<1>2. Called(job) /\ fwd.ip \in Nat /\ fwd.step \in Nat \ {0} /\ Carried /\ Table(st.table)
  BY <1>1 DEF SizeInv, Sized, Probing, Moved
<1>3. fwd.ip + MFLIMIT <= iend
  <2>1. iend \in Nat
    BY <1>2, CallTyped
  <2>2. QED  BY <1>1, <1>2, <2>1 DEF mflimitPlusOne, MFLIMIT
<1>4. Table(t)
  BY <1>2, <1>3, PutTable
<1> HIDE DEF t
<1>5. QED  BY <1>1, <1>2, <1>4, MovedOn

LEMMA EncodeMatchMoved ==
  ASSUME SizeInv, Moved, EncodeMatch, HashAssumption
  PROVE  Moved'
<1> DEFINE n   == MatchCodeWritten(MatchCode)
           end == MatchEnd(n)
           cut == Cut(n)
           k   == HashPosition(src, end - 2, tt)
           h   == HashPosition(src, end, tt)
           held == FillTable(cut, end)
           t   == Put(held, tt, h, IndexOf(end))
<1>1. /\ UNCHANGED job /\ pc = "match" /\ pc' # "begin"
      /\ job.fill => op + 2 + 1 + MFLIMIT - MINMATCH <= olimit
      /\ ~job.fill => ~NoRoomForLength(MatchCode)
      /\ \/ end >= mflimitPlusOne /\ st' = [st EXCEPT !.table = cut]
         \/ ~(end >= mflimitPlusOne) /\ st' = [st EXCEPT !.table = t]
  BY Zenon DEF EncodeMatch, Cut
<1>2. /\ Called(job) /\ Paid /\ m \in Hands /\ ip \in Nat /\ ip + MFLIMIT <= iend /\ anchor <= ip
      /\ op = Laid(seqs) + 1 + Len(Extension(ip - anchor)) + (ip - anchor)
      /\ job.limited => op + 5 <= olimit
      /\ Carried /\ Table(st.table)
  BY <1>1 DEF SizeInv, Sized, Opened, Moved
<1>3. /\ iend \in Nat /\ olimit \in Nat /\ anchor \in Nat /\ Laid(seqs) \in Nat
      /\ job.fill => job.limited
  BY <1>2, Figures
<1>4. op \in Nat
  <2>1. ip - anchor \in Nat
    BY <1>2, <1>3
  <2>2. Len(Extension(ip - anchor)) \in Nat
    BY <2>1, ExtensionSize
  <2>3. QED  BY <1>2, <1>3, <2>1, <2>2
<1>5. MatchCode \in Nat
  BY <1>2, MatchCodeFits
<1>6. n \in 0..MatchCode
  BY <1>1, <1>2, <1>4, <1>5, WrittenOfMatch
<1> HIDE DEF n
<1>7. end = ip + 4 + n /\ end \in Nat /\ end >= 4
  BY <1>2, <1>5, <1>6 DEF MatchEnd, MINMATCH
<1>8. Table(cut)
  BY <1>2, CutTable
<1> HIDE DEF end, cut
<1>9. CASE end >= mflimitPlusOne /\ st' = [st EXCEPT !.table = cut]
  BY <1>1, <1>2, <1>8, <1>9, MovedOn DEF Kept
<1>10. CASE ~(end >= mflimitPlusOne) /\ st' = [st EXCEPT !.table = t]
  <2>1. /\ end + MFLIMIT <= iend /\ end - 2 \in Nat /\ (end - 2) + MFLIMIT <= iend
    BY <1>3, <1>7, <1>10 DEF mflimitPlusOne, MFLIMIT
  <2>2. Table(Put(cut, tt, k, IndexOf(end - 2)))
    BY <1>2, <1>8, <2>1, PutTable
  <2>3. Table(held)
    BY <2>2 DEF FillTable
  <2> HIDE DEF held
  <2>4. Table(t)
    BY <1>2, <1>7, <2>1, <2>3, PutTable
  <2> HIDE DEF t
  <2>5. QED  BY <1>1, <1>2, <1>10, <2>4, MovedOn DEF Kept
<1>11. QED  BY <1>1, <1>9, <1>10

LEMMA StepMoved ==
  ASSUME SizeInv, Moved, HashAssumption, Step
  PROVE  Moved'
<1>1. Called(job)
  BY DEF SizeInv
<1>2. CASE Empty
  BY <1>1, <1>2, EmptyMoved
<1>3. CASE Begin
  BY <1>1, <1>3, BeginMoved
<1>4. CASE Search
  BY <1>4, SearchMoved
<1>5. CASE SearchEnds
  BY <1>5, NothingMoved DEF SearchEnds, Stop
<1>6. CASE EncodeLiterals
  BY <1>6, NothingMoved DEF EncodeLiterals, Stop
<1>7. CASE NoRoomForMatch
  BY <1>7, NothingMoved DEF NoRoomForMatch
<1>8. CASE EncodeMatch
  BY <1>8, EncodeMatchMoved
<1>9. CASE LastLiterals
  BY <1>9, NothingMoved DEF LastLiterals, Stop
<1>10. QED  BY <1>2, <1>3, <1>4, <1>5, <1>6, <1>7, <1>8, <1>9 DEF Step

-----------------------------------------------------------------------------
(* What it means.                                                          *)

LEMMA TableMeans ==
  ASSUME Called(job), Moved
  PROVE  NothingAhead /\ (Primed(job) => TableHonest)
<1>1. NothingAhead
  BY DEF NothingAhead, Moved, Carried, StateTyped, Seen
<1>2. ASSUME Primed(job), pc # "begin", NEW h \in DOMAIN st.table, Live(st.table[h])
      PROVE  h = IF Within(st.table[h]) THEN HashPosition(src, st.table[h] - startIndex, tt)
                 ELSE HashPosition(job.content, st.table[h] - DictBase(FALSE), tt)
  <2> DEFINE e == st.table[h]
  <2>1. /\ h \in 0..(HashSize - 1) /\ e \in Nat /\ SaysTrue(st.table)
    BY <1>2, Zenon DEF Moved, Table, Tables
  <2>2. /\ Past \in Seq(Nat) /\ Len(Past) = job.st.dictSize /\ PastBase \in Nat
        /\ job.st.dictSize \in Nat /\ PastBase <= startIndex
        /\ \A k \in 1..job.st.dictSize : Past[k] = job.content[k]
    BY PastTyped
  <2>3. DictBase(FALSE) = PastBase
    <3>1. startIndex - job.st.dictSize < Wrap /\ startIndex - job.st.dictSize \in Nat
      BY <2>2, CallTyped, Numbers DEF PastBase
    <3>2. (startIndex - job.st.dictSize) % Wrap = startIndex - job.st.dictSize
      <4> DEFINE x == startIndex - job.st.dictSize
      <4> HIDE DEF x
      <4>1. x % Wrap = x
        BY <3>1, Small DEF x
      <4>2. QED  BY <4>1 DEF x
    <3>3. QED  BY <3>2 DEF DictBase, HistSize, Minus, PastBase
  <2>4. e > 0 /\ e >= PastBase
    BY <1>2, <2>3, Zenon DEF Live
  <2>5. IF e >= startIndex
        THEN /\ e - startIndex + HASH_UNIT <= iend
             /\ h = HashPosition(src, e - startIndex, tt)
        ELSE /\ e - PastBase + HASH_UNIT <= job.st.dictSize
             /\ h = HashPosition(Past, e - PastBase, tt)
    BY <2>1, <2>4 DEF SaysTrue
  <2>6. CASE e >= startIndex
    BY <2>5, <2>6, Zenon DEF Within
  <2>7. CASE ~(e >= startIndex)
    <3> DEFINE q == e - PastBase
    <3>1. q \in Nat /\ q + HASH_UNIT <= Len(Past) /\ h = HashPosition(Past, q, tt)
      BY <2>1, <2>2, <2>4, <2>5, <2>7
    <3> HIDE DEF q
    <3>2. Part(Past, 0, job.content) /\ q = 0 + q
      BY <2>2, <3>1, Contents DEF Part
    <3>3. HashPosition(Past, q, tt) = HashPosition(job.content, q, tt)
      BY <2>2, <3>1, <3>2, HashWithin
    <3>4. QED  BY <2>3, <2>7, <3>1, <3>3, Zenon DEF Within, q
  <2>8. QED  BY <2>6, <2>7, Zenon
<1>3. QED  BY <1>1, <1>2, Zenon DEF TableHonest

LEMMA JobKept ==
  ASSUME [Next]_vars
  PROVE  job' = job
BY DEF Next, Step, Finished, vars, Empty, Begin, Search, SearchEnds, EncodeLiterals, NoRoomForMatch,
   EncodeMatch, LastLiterals, Stop

LEMMA Ready0 ==
  ASSUME Called(job), Ready(job)
  PROVE  SizeInv /\ Moved
BY BegunSized DEF Ready, Moved

(* A table never speaks of what has not been seen: after a call every      *)
(* entry is below the index that the next call starts at, whatever the     *)
(* call was, and whether it succeeded or not (src/block.rs 990, 1060,      *)
(* 1200).                                                                  *)
THEOREM TableOfTheSeen ==
  ASSUME JobsAssumption, HashAssumption
  PROVE  Spec => []NothingAhead
<1> DEFINE I == SizeInv /\ Moved
<1>1. Init => I
  BY Ready0 DEF Init, Ready, JobsAssumption
<1>2. I /\ [Next]_vars => I'
  <2> SUFFICES ASSUME I, [Next]_vars PROVE I'
    OBVIOUS
  <2>1. CASE Step
    <3>1. Next
      BY <2>1 DEF Next
    <3>2. SizeInv'
      BY <3>1, StepSized
    <3>3. QED  BY <2>1, <3>2, StepMoved
  <2>2. CASE UNCHANGED vars
    <3>1. SizeInv'
      BY <2>2, StepSized
    <3>2. Moved'
      <4>1. pc = "begin" => Moved'
        BY <2>2 DEF vars, Moved
      <4>2. pc # "begin" => Moved'
        BY <2>2, NothingMoved DEF vars
      <4>3. QED  BY <4>1, <4>2
    <3>3. QED  BY <3>1, <3>2
  <2>3. QED  BY <2>1, <2>2 DEF Next, Finished
<1>3. I => NothingAhead
  BY TableMeans DEF SizeInv
<1>4. QED  BY <1>1, <1>2, <1>3, PTL DEF Spec

(* A live entry speaks of the bytes it was made from, of this call's input *)
(* and of the history before it, when the state it begins with does so of  *)
(* the history it was told of (src/block.rs 405-411, 450-455).             *)
THEOREM TableSpeaksTrue ==
  ASSUME JobsAssumption, JobsPrimed, HashAssumption
  PROVE  Spec => []TableHonest
<1> DEFINE I == SizeInv /\ Moved /\ Primed(job)
<1>1. Init => I
  BY Ready0 DEF Init, Ready, JobsAssumption, JobsPrimed
<1>2. I /\ [Next]_vars => I'
  <2> SUFFICES ASSUME I, [Next]_vars PROVE I'
    OBVIOUS
  <2>1. Primed(job)'
    <3>1. job' = job
      BY JobKept
    <3>2. QED  BY <3>1, Zenon DEF Primed, Truly
  <2>2. CASE Step
    <3>1. Next
      BY <2>2 DEF Next
    <3>2. SizeInv'
      BY <3>1, StepSized
    <3>3. QED  BY <2>1, <2>2, <3>2, StepMoved
  <2>3. CASE UNCHANGED vars
    <3>1. SizeInv'
      BY <2>3, StepSized
    <3>2. Moved'
      <4>1. pc = "begin" => Moved'
        BY <2>3 DEF vars, Moved
      <4>2. pc # "begin" => Moved'
        BY <2>3, NothingMoved DEF vars
      <4>3. QED  BY <4>1, <4>2
    <3>3. QED  BY <2>1, <3>1, <3>2
  <2>4. QED  BY <2>2, <2>3 DEF Next, Finished
<1>3. I => TableHonest
  BY TableMeans DEF SizeInv
<1>4. QED  BY <1>1, <1>2, <1>3, PTL DEF Spec

-----------------------------------------------------------------------------
(* A history of which the compressor has only the end.                     *)
EndsAt(t, d, s) ==
  /\ s \in Seq(Nat) /\ t \in Seq(Nat) /\ d \in Nat /\ Len(s) = d + Len(t)
  /\ \A k \in 1..Len(t) : t[k] = s[d + k]

LEMMA EndsMeans ==
  ASSUME NEW t, NEW d, NEW s, EndsAt(t, d, s)
  PROVE  /\ s \in Seq(Nat) /\ t \in Seq(Nat) /\ d \in Nat /\ Len(s) \in Nat /\ Len(t) \in Nat
         /\ Len(s) = d + Len(t) /\ \A k \in 1..Len(t) : t[k] = s[d + k]
<1>1. s \in Seq(Nat) /\ t \in Seq(Nat) /\ d \in Nat
  BY DEF EndsAt
<1>2. Len(s) \in Nat /\ Len(t) \in Nat
  BY <1>1
<1>3. QED  BY <1>1, <1>2 DEF EndsAt

LEMMA EndsJoined ==
  ASSUME NEW t, NEW d, NEW s, EndsAt(t, d, s), NEW w \in Seq(Nat)
  PROVE  EndsAt(t \o w, d, s \o w)
<1> DEFINE a == t \o w
           b == s \o w
           l == Len(t)
           mid == Len(s)
           n == Len(w)
<1>1. /\ l \in Nat /\ mid \in Nat /\ n \in Nat /\ d \in Nat /\ mid = d + l
      /\ \A k \in 1..l : t[k] = s[d + k]
  BY DEF EndsAt
<1>2. /\ a \in Seq(Nat) /\ Len(a) = l + n
      /\ \A i \in 1..(l + n) : a[i] = IF i <= l THEN t[i] ELSE w[i - l]
  BY Concatenated DEF EndsAt
<1>3. /\ b \in Seq(Nat) /\ Len(b) = mid + n
      /\ \A i \in 1..(mid + n) : b[i] = IF i <= mid THEN s[i] ELSE w[i - mid]
  BY Concatenated DEF EndsAt
<1> HIDE DEF a, b, l, mid, n
<1>4. ASSUME NEW k \in 1..(l + n) PROVE a[k] = b[d + k]
  <2>1. d + k \in 1..(mid + n) /\ k \in Nat
    BY <1>1
  <2>2. CASE k <= l
    <3>1. d + k <= mid /\ k \in 1..l
      BY <1>1, <2>1, <2>2
    <3>2. QED  BY <1>1, <1>2, <1>3, <2>1, <2>2, <3>1, Zenon
  <2>3. CASE ~(k <= l)
    <3>1. ~(d + k <= mid) /\ (d + k) - mid = k - l
      BY <1>1, <2>1, <2>3
    <3>2. a[k] = w[k - l] /\ b[d + k] = w[(d + k) - mid]
      BY <1>2, <1>3, <2>1, <2>3, <3>1, Zenon
    <3>3. QED  BY <3>1, <3>2
  <2>4. QED  BY <2>2, <2>3
<1>5. Len(b) = d + Len(a)
  BY <1>1, <1>2, <1>3
<1>6. EndsAt(a, d, b)
  BY <1>1, <1>2, <1>3, <1>4, <1>5 DEF EndsAt
<1>7. QED  BY <1>6 DEF a, b

LEMMA EndsThrough ==
  ASSUME NEW t, NEW d, NEW s, EndsAt(t, d, s), NEW e, NEW u, EndsAt(s, e, u), NEW f, f = e + d
  PROVE  EndsAt(t, f, u)
<1> DEFINE l == Len(t)
           mid == Len(s)
           n == Len(u)
<1>1. /\ l \in Nat /\ mid \in Nat /\ n \in Nat /\ d \in Nat /\ mid = d + l
      /\ \A k \in 1..l : t[k] = s[d + k]
  BY DEF EndsAt
<1>2. /\ e \in Nat /\ n = e + mid /\ \A k \in 1..mid : s[k] = u[e + k]
  BY DEF EndsAt
<1> HIDE DEF l, mid, n
<1>3. f \in Nat /\ n = f + l
  BY <1>1, <1>2
<1>4. ASSUME NEW k \in 1..l PROVE t[k] = u[f + k]
  <2>1. d + k \in 1..mid /\ e + (d + k) = f + k
    BY <1>1, <1>2
  <2>2. s[d + k] = u[e + (d + k)]
    BY <1>2, <2>1
  <2>3. QED  BY <1>1, <2>1, <2>2
<1>5. QED  BY <1>3, <1>4, Zenon DEF EndsAt, l, n

(* Of two ends of one text the shorter is an end of the longer.            *)
LEMMA EndsWithin ==
  ASSUME NEW t, NEW d, NEW s, NEW u, NEW e, EndsAt(t, d, u), EndsAt(s, e, u), Len(t) <= Len(s),
         NEW f, f = d - e
  PROVE  EndsAt(t, f, s)
<1> DEFINE l == Len(t)
           mid == Len(s)
           n == Len(u)
<1>1. /\ l \in Nat /\ mid \in Nat /\ n \in Nat /\ d \in Nat /\ n = d + l
      /\ \A k \in 1..l : t[k] = u[d + k]
  BY EndsMeans
<1>2. /\ e \in Nat /\ n = e + mid /\ \A k \in 1..mid : s[k] = u[e + k]
  BY Zenon DEF EndsAt
<1>3. l <= mid
  OBVIOUS
<1> HIDE DEF l, mid, n
<1>4. f \in Nat /\ mid = f + l
  BY <1>1, <1>2, <1>3
<1>5. ASSUME NEW k \in 1..l PROVE t[k] = s[f + k]
  <2>1. f + k \in 1..mid /\ e + (f + k) = d + k
    BY <1>1, <1>2, <1>4
  <2>2. s[f + k] = u[e + (f + k)]
    BY <1>2, <2>1
  <2>3. QED  BY <1>1, <2>1, <2>2
<1>6. s \in Seq(Nat) /\ t \in Seq(Nat)
  BY DEF EndsAt
<1>7. QED  BY <1>4, <1>5, <1>6 DEF EndsAt, l, mid

LEMMA TailEnds ==
  ASSUME NEW s \in Seq(Nat)
  PROVE  /\ EndsAt(Tail64(s), Larger(0, Len(s) - Window), s)
         /\ Len(Tail64(s)) = Smaller(Len(s), Window)
<1> DEFINE n == Len(s)
           d == Larger(0, n - Window)
           t == SubSeq(s, d + 1, n)
<1>1. n \in Nat /\ d \in Nat /\ d <= n /\ n - d = Smaller(n, Window)
  <2>1. n \in Nat /\ Window \in Nat
    BY Numbers
  <2> HIDE DEF n
  <2>2. QED  BY <2>1 DEF Larger, Smaller
<1>2. t = Tail64(s) /\ n = Len(s)
  BY DEF Tail64
<1> HIDE DEF d
<1>3. t \in Seq(Nat) /\ Len(t) = n - d /\ \A i \in 1..(n - d) : t[i] = s[d + i]
  BY <1>1, Slice
<1> HIDE DEF n, t
<1>4. EndsAt(t, d, s)
  BY <1>1, <1>2, <1>3 DEF EndsAt
<1>5. QED  BY <1>1, <1>2, <1>3, <1>4 DEF d, n

(* A match that reaches no further back than the end that is known repeats *)
(* the same bytes.                                                         *)
LEMMA MatchedEnds ==
  ASSUME NEW t, NEW d, NEW s, EndsAt(t, d, s), NEW o \in Nat, o <= Len(t), NEW n \in Nat
  PROVE  Matched(t, o, n) = Matched(s, o, n) /\ Matched(t, o, n) \in Seq(Nat)
<1> DEFINE l == Len(t)
           mid == Len(s)
           At(i) == l - o + ((i - 1) % o) + 1
           To(i) == mid - o + ((i - 1) % o) + 1
<1>1. /\ l \in Nat /\ mid \in Nat /\ d \in Nat /\ mid = d + l /\ o <= l
      /\ \A k \in 1..l : t[k] = s[d + k]
  BY DEF EndsAt
<1>2. t \in Seq(Nat) /\ s \in Seq(Nat) /\ \A k \in 1..l : t[k] \in Nat
  BY DEF EndsAt
<1>3. /\ Matched(t, o, n) = [i \in 1..n |-> IF o = 0 THEN 0 ELSE t[At(i)]]
      /\ Matched(s, o, n) = [i \in 1..n |-> IF o = 0 THEN 0 ELSE s[To(i)]]
  BY DEF Matched
<1> HIDE DEF l, mid
<1>4. ASSUME NEW i \in 1..n, o # 0 PROVE At(i) \in 1..l /\ To(i) = d + At(i)
  <2> DEFINE r == (i - 1) % o
  <2>1. r \in 0..(o - 1)
    <3>1. i - 1 \in Nat /\ o \in Nat \ {0}
      BY <1>4
    <3> HIDE DEF At, To
    <3>2. QED  BY <3>1, DivMod, Zenon
  <2> HIDE DEF r
  <2>2. l - o + r + 1 \in 1..l /\ mid - o + r + 1 = d + (l - o + r + 1)
    BY <1>1, <2>1
  <2>3. QED  BY <2>2 DEF r
<1> HIDE DEF At, To
<1>5. ASSUME NEW i \in 1..n
      PROVE  /\ (IF o = 0 THEN 0 ELSE t[At(i)]) = (IF o = 0 THEN 0 ELSE s[To(i)])
             /\ (IF o = 0 THEN 0 ELSE t[At(i)]) \in Nat
  BY <1>1, <1>2, <1>4, Zenon
<1>6. QED  BY <1>3, <1>5

LEMMA GrownEnds ==
  ASSUME NEW t, NEW d, NEW s, EndsAt(t, d, s), NEW q \in SequenceSet, q.offset <= Len(t \o q.lits)
  PROVE  EndsAt(Grown(t, q), d, Grown(s, q))
<1> DEFINE a == t \o q.lits
           b == s \o q.lits
           w == Matched(a, q.offset, q.length)
<1>1. q.lits \in Seq(Nat) /\ q.offset \in Nat /\ q.length \in Nat
  BY DEF SequenceSet, MINMATCH
<1>2. EndsAt(a, d, b)
  BY <1>1, EndsJoined
<1>3. q.offset <= Len(a)
  OBVIOUS
<1>4. Grown(t, q) = a \o w /\ Grown(s, q) = b \o Matched(b, q.offset, q.length)
  BY DEF Grown
<1> HIDE DEF a, b
<1>5. w = Matched(b, q.offset, q.length) /\ w \in Seq(Nat)
  BY <1>1, <1>2, <1>3, MatchedEnds, Zenon
<1> HIDE DEF w
<1>6. EndsAt(a \o w, d, b \o w)
  BY <1>2, <1>5, EndsJoined
<1>7. QED  BY <1>4, <1>5, <1>6

LEMMA YieldsEnds ==
  ASSUME NEW t, NEW d, NEW s, EndsAt(t, d, s), NEW seq \in Seq(SequenceSet),
         \A i \in 1..Len(seq) : seq[i].offset <= Len(Yields(t, seq)[i - 1] \o seq[i].lits)
  PROVE  \A i \in 0..Len(seq) : EndsAt(Yields(t, seq)[i], d, Yields(s, seq)[i])
<1> DEFINE x == Yields(t, seq)
           y == Yields(s, seq)
           n == Len(seq)
           T == {i \in Nat : i <= n => EndsAt(x[i], d, y[i])}
<1>1. n \in Nat /\ \A i \in 1..n : seq[i] \in SequenceSet
  OBVIOUS
<1>2. /\ x[0] = t /\ y[0] = s
      /\ \A i \in 1..n : x[i] = Grown(x[i - 1], seq[i]) /\ y[i] = Grown(y[i - 1], seq[i])
  BY <1>1, YieldsRule
<1>3. \A i \in 1..n : seq[i].offset <= Len(x[i - 1] \o seq[i].lits)
  BY Zenon
<1> HIDE DEF x, y, n
<1>4. 0 \in T
  BY <1>2
<1>5. ASSUME NEW i \in Nat, i \in T PROVE i + 1 \in T
  <2> SUFFICES ASSUME i + 1 <= n PROVE EndsAt(x[i + 1], d, y[i + 1])
    OBVIOUS
  <2> DEFINE j == i + 1
  <2>1. j \in 1..n /\ j - 1 = i
    BY <1>1
  <2>2. EndsAt(x[i], d, y[i])
    BY <1>1, <1>5
  <2> HIDE DEF j, T
  <2>3. x[j] = Grown(x[i], seq[j]) /\ y[j] = Grown(y[i], seq[j]) /\ seq[j] \in SequenceSet
        /\ seq[j].offset <= Len(x[i] \o seq[j].lits)
    BY <1>1, <1>2, <1>3, <2>1, Zenon
  <2>4. EndsAt(Grown(x[i], seq[j]), d, Grown(y[i], seq[j]))
    BY <2>2, <2>3, GrownEnds, Zenon
  <2>5. QED  BY <2>3, <2>4 DEF j
<1> HIDE DEF T
<1>6. Nat \subseteq T
  BY <1>4, <1>5, Induction
<1>7. \A i \in 0..n : EndsAt(x[i], d, y[i])
  BY <1>1, <1>6 DEF T
<1>8. QED  BY <1>7 DEF x, y, n

(* So a block that decodes after the end of a history decodes to the same  *)
(* after all of it.                                                        *)
LEMMA MoreHistory ==
  ASSUME NEW t, NEW d, NEW s, EndsAt(t, d, s), NEW b, b.seqs \in Seq(SequenceSet),
         b.last \in Seq(Nat), Reaches(t, b)
  PROVE  Reaches(s, b) /\ Content(s, b) = Content(t, b)
<1> DEFINE q == b.seqs
           n == Len(q)
           x == Yields(t, q)
           y == Yields(s, q)
<1>1. n \in Nat /\ \A i \in 1..n : q[i] \in SequenceSet
  OBVIOUS
<1>2. \A i \in 1..n : q[i].offset <= Len(x[i - 1] \o q[i].lits)
  BY Zenon DEF Reaches, Before
<1>3. \A i \in 0..n : EndsAt(x[i], d, y[i])
  BY <1>2, YieldsEnds, Zenon
<1> HIDE DEF n, x, y
<1>4. Reaches(s, b)
  <2> SUFFICES ASSUME NEW i \in 1..n PROVE q[i].offset <= Len(y[i - 1] \o q[i].lits)
    BY Zenon DEF Reaches, Before, n, y
  <2>1. i - 1 \in 0..n
    BY <1>1
  <2>2. EndsAt(x[i - 1], d, y[i - 1])
    BY <1>3, <2>1
  <2>3. q[i].lits \in Seq(Nat) /\ q[i].offset \in Nat
    BY <1>1, Zenon DEF SequenceSet
  <2>4. EndsAt(x[i - 1] \o q[i].lits, d, y[i - 1] \o q[i].lits)
    BY <2>2, <2>3, EndsJoined
  <2> DEFINE u == x[i - 1] \o q[i].lits
             v == y[i - 1] \o q[i].lits
             k == q[i].offset
  <2>5. k <= Len(u)
    BY <1>2, Zenon
  <2>6. EndsAt(u, d, v) /\ k \in Nat
    BY <2>3, <2>4
  <2> HIDE DEF u, v, k
  <2>7. k <= Len(v)
    <3>1. Len(v) = d + Len(u) /\ d \in Nat /\ Len(u) \in Nat
      BY <2>6, EndsMeans
    <3>2. QED  BY <2>5, <2>6, <3>1
  <2>8. QED  BY <2>7, Zenon DEF k, v
<1>5. Content(s, b) = Content(t, b)
  <2> DEFINE u == x[n] \o b.last
             v == y[n] \o b.last
             l == Len(t)
             mid == Len(s)
             c == Len(u)
             e == Len(v)
  <2>1. EndsAt(u, d, v)
    <3>1. EndsAt(x[n], d, y[n])
      BY <1>1, <1>3
    <3>2. QED  BY <3>1, EndsJoined
  <2>2. Content(t, b) = SubSeq(u, l + 1, c) /\ Content(s, b) = SubSeq(v, mid + 1, e)
    BY DEF Content, Expand, x, y, n
  <2>3. u \in Seq(Nat) /\ v \in Seq(Nat) /\ l \in Nat /\ mid \in Nat /\ c \in Nat /\ e \in Nat /\ d \in Nat
        /\ mid = d + l /\ e = d + c /\ \A k \in 1..c : u[k] = v[d + k]
    <3> HIDE DEF u, v
    <3>1. EndsAt(u, d, v) /\ EndsAt(t, d, s)
      BY <2>1
    <3>2. /\ u \in Seq(Nat) /\ v \in Seq(Nat) /\ c \in Nat /\ e \in Nat /\ e = d + c
          /\ \A k \in 1..c : u[k] = v[d + k]
      BY <3>1, EndsMeans
    <3>3. l \in Nat /\ mid \in Nat /\ d \in Nat /\ mid = d + l
      BY <3>1, EndsMeans
    <3>4. QED  BY <3>2, <3>3
  <2> HIDE DEF u, v
  <2>4. c = Len(u) /\ e = Len(v)
    BY DEF u, v
  <2> HIDE DEF l, mid, c, e
  <2>5. CASE l <= c
    <3> DEFINE f == SubSeq(u, l + 1, c)
               g == SubSeq(v, mid + 1, e)
    <3>1. f \in Seq(Nat) /\ Len(f) = c - l /\ \A i \in 1..(c - l) : f[i] = u[l + i]
      <4>1. c <= Len(u)
        BY <2>3, <2>4
      <4>2. QED  BY <2>3, <2>5, <4>1, Slice
    <3>2. g \in Seq(Nat) /\ Len(g) = e - mid /\ \A i \in 1..(e - mid) : g[i] = v[mid + i]
      <4>1. e <= Len(v) /\ mid <= e
        BY <2>3, <2>4, <2>5
      <4>2. QED  BY <2>3, <4>1, Slice
    <3> HIDE DEF f, g
    <3>3. e - mid = c - l /\ c - l \in Nat
      BY <2>3, <2>5
    <3>4. ASSUME NEW i \in 1..(c - l) PROVE f[i] = g[i]
      <4>1. l + i \in 1..c /\ d + (l + i) = mid + i
        BY <2>3, <2>5
      <4>2. u[l + i] = v[d + (l + i)]
        BY <2>3, <4>1
      <4>3. f[i] = u[l + i] /\ g[i] = v[mid + i]
        BY <3>1, <3>2, <3>3, Zenon
      <4>4. QED  BY <4>1, <4>2, <4>3
    <3>5. f = g
      BY <3>1, <3>2, <3>3, <3>4, SeqEqual, Zenon
    <3>6. QED  BY <2>2, <3>5, Zenon DEF f, g
  <2>6. CASE ~(l <= c)
    <3>1. SubSeq(u, l + 1, c) = <<>>
      BY <2>3, <2>6
    <3>2. SubSeq(v, mid + 1, e) = <<>>
      <4>1. mid + 1 > e
        BY <2>3, <2>6
      <4>2. QED  BY <2>3, <4>1
    <3>3. QED  BY <2>2, <3>1, <3>2, Zenon
  <2>7. QED  BY <2>5, <2>6
<1>6. QED  BY <1>4, <1>5

-----------------------------------------------------------------------------
(* A dictionary loaded.                                                    *)

LEMMA HashIn ==
  ASSUME HashAssumption, NEW s \in Seq(Nat), NEW p \in Nat, p + HASH_UNIT <= Len(s), NEW type
  PROVE  HashPosition(s, p, type) \in 0..(HashSize - 1)
<1> DEFINE n == IF type = "U16" THEN 4 ELSE 8
           k == IF type = "U16" THEN 4 ELSE 5
           word == SubSeq(s, p + 1, p + n)
<1>1. n \in {4, 8} /\ k \in 1..n
  OBVIOUS
<1>2. HashPosition(s, p, type) = Hash(SubSeq(word, 1, k))
  BY DEF HashPosition, HASH_UNIT
<1> HIDE DEF n, k
<1>3. word \in Seq(Nat) /\ Len(word) = n
  BY <1>1 DEF HASH_UNIT
<1> HIDE DEF word
<1>4. SubSeq(word, 1, k) \in Seq(Nat)
  BY <1>1, <1>3
<1>5. QED  BY <1>2, <1>4, Zenon DEF HashAssumption

Enters(g, s, d, positions, onlyFree, n) ==
  g = [i \in 0..n |-> IF i = 0 THEN s.table ELSE Entered(g[i - 1], s, d, positions[i], onlyFree)]

LEMMA SomethingEnters ==
  ASSUME NEW s, NEW d, NEW positions, NEW onlyFree
  PROVE  \A n \in Nat : \E g : Enters(g, s, d, positions, onlyFree, n)
<1> DEFINE T == {n \in Nat : \E g : Enters(g, s, d, positions, onlyFree, n)}
           Next1(table, i) == Entered(table, s, d, positions[i], onlyFree)
<1>1. 0 \in T
  <2> DEFINE g == [i \in 0..0 |-> s.table]
  <2>1. Enters(g, s, d, positions, onlyFree, 0)
    BY DEF Enters
  <2>2. QED  BY <2>1
<1>2. ASSUME NEW n \in Nat, n \in T PROVE n + 1 \in T
  <2>1. PICK f : Enters(f, s, d, positions, onlyFree, n)
    BY <1>2
  <2> DEFINE x == Next1(f[n], n + 1)
             g == [i \in 0..(n + 1) |-> IF i = n + 1 THEN x ELSE f[i]]
  <2>2. g[n] = f[n]
    OBVIOUS
  <2>3. \A i \in 0..n : f[i] = IF i = 0 THEN s.table ELSE Next1(f[i - 1], i)
    BY <2>1 DEF Enters
  <2> HIDE DEF Next1
  <2>4. ASSUME NEW i \in 0..(n + 1)
        PROVE  g[i] = IF i = 0 THEN s.table ELSE Next1(g[i - 1], i)
    <3>1. CASE i = n + 1
      <4>1. i - 1 = n /\ i # 0
        BY <3>1
      <4>2. g[i] = x
        BY <3>1
      <4>3. QED  BY <2>2, <3>1, <4>1, <4>2
    <3>2. CASE i = 0
      BY <2>3, <3>2
    <3>3. CASE i # 0 /\ i # n + 1
      <4>1. i \in 0..n /\ i - 1 \in 0..n
        BY <3>3
      <4>2. g[i] = f[i] /\ g[i - 1] = f[i - 1]
        BY <4>1
      <4>3. f[i] = Next1(f[i - 1], i)
        BY <2>3, <3>3, <4>1
      <4>4. QED  BY <3>3, <4>2, <4>3
    <3>4. QED  BY <3>1, <3>2, <3>3
  <2>5. Enters(g, s, d, positions, onlyFree, n + 1)
    <3>1. g = [i \in 0..(n + 1) |-> g[i]]
      OBVIOUS
    <3> HIDE DEF g
    <3>2. g = [i \in 0..(n + 1) |-> IF i = 0 THEN s.table ELSE Next1(g[i - 1], i)]
      BY <2>4, <3>1, Zenon
    <3>3. QED  BY <3>2 DEF Enters, Next1
  <2>6. QED  BY <2>5
<1> HIDE DEF T
<1>3. Nat \subseteq T
  BY <1>1, <1>2, Induction
<1>4. QED  BY <1>3 DEF T

LEMMA EnteringRule ==
  ASSUME NEW s, NEW d, NEW positions, Len(positions) \in Nat, NEW onlyFree
  PROVE  /\ Entering(s, d, positions, onlyFree)[0] = s.table
         /\ \A i \in 1..Len(positions) :
              Entering(s, d, positions, onlyFree)[i]
                = Entered(Entering(s, d, positions, onlyFree)[i - 1], s, d, positions[i], onlyFree)
<1> DEFINE g == Entering(s, d, positions, onlyFree)
           n == Len(positions)
<1>1. Enters(g, s, d, positions, onlyFree, n)
  <2>1. \E f : Enters(f, s, d, positions, onlyFree, n)
    BY SomethingEnters, Zenon
  <2>2. QED  BY <2>1, Zenon DEF Enters, Entering
<1>2. g = [i \in 0..n |-> IF i = 0 THEN s.table ELSE Entered(g[i - 1], s, d, positions[i], onlyFree)]
  BY <1>1 DEF Enters
<1> HIDE DEF g, n
<1>3. n \in Nat
  BY DEF n
<1>4. g[0] = s.table
  BY <1>2, <1>3
<1>5. ASSUME NEW i \in 1..n PROVE g[i] = Entered(g[i - 1], s, d, positions[i], onlyFree)
  BY <1>2, <1>3
<1>6. QED  BY <1>4, <1>5 DEF g, n

(* Every entry is that of a place of the dictionary, which ends at index   *)
(* Window.                                                                 *)
Loaded(table, d) ==
  /\ table \in Tables
  /\ \A h \in 0..(HashSize - 1) : table[h] > 0 =>
       /\ table[h] >= Window - Len(d) /\ table[h] - (Window - Len(d)) + HASH_UNIT <= Len(d)
       /\ h = HashPosition(d, table[h] - (Window - Len(d)), "U32")

LEMMA EnteredLoaded ==
  ASSUME HashAssumption, NEW d \in Seq(Nat), Len(d) <= Window, NEW table, Loaded(table, d),
         NEW s, s.currentOffset = Window, NEW p \in Nat, p + HASH_UNIT <= Len(d), NEW onlyFree
  PROVE  Loaded(Entered(table, s, d, p, onlyFree), d)
<1> DEFINE h == HashPosition(d, p, "U32")
           n == Len(d)
           b == Window - n
           x == b + p
           t == [table EXCEPT ![h] = x]
<1>1. /\ n \in Nat /\ Window \in Nat /\ n <= Window /\ p + 8 <= n /\ Window < Wrap /\ HASH_UNIT = 8
      /\ Wrap \in Nat
  BY Numbers DEF HASH_UNIT
<1>2. h \in 0..(HashSize - 1)
  BY HashIn
<1>3. table \in Tables /\ BaseOf(s, d) = b
  BY DEF Loaded, BaseOf
<1>4. Entered(table, s, d, p, onlyFree) \in {table, Put(table, "U32", h, x)}
  BY <1>3 DEF Entered
<1>5. Put(table, "U32", h, x) = [table EXCEPT ![h] = x % Wrap]
  BY DEF Put, Width
<1> HIDE DEF n, h
<1>6. b \in Nat /\ x \in Nat /\ x < Wrap /\ x - b = p /\ x >= b
  BY <1>1
<1> HIDE DEF x, b
<1>7. x % Wrap = x
  BY <1>6, Small
<1>8. Loaded(t, d)
  <2>1. t \in Tables /\ \A g \in 0..(HashSize - 1) : t[g] = IF g = h THEN x ELSE table[g]
    BY <1>2, <1>3, <1>6 DEF Tables
  <2> HIDE DEF t
  <2>2. ASSUME NEW g \in 0..(HashSize - 1), t[g] > 0
        PROVE  t[g] >= b /\ t[g] - b + HASH_UNIT <= n /\ g = HashPosition(d, t[g] - b, "U32")
    <3>1. CASE g = h
      <4>1. t[g] = x
        BY <2>1, <3>1
      <4>2. QED  BY <1>1, <1>6, <3>1, <4>1 DEF h
    <3>2. CASE g # h
      <4>1. t[g] = table[g]
        BY <2>1, <3>2
      <4>2. QED  BY <2>2, <4>1 DEF Loaded, b, n
    <3>3. QED  BY <3>1, <3>2
  <2>3. QED  BY <2>1, <2>2 DEF Loaded, b, n
<1>9. QED  BY <1>4, <1>5, <1>7, <1>8, Zenon

LEMMA EnteringLoaded ==
  ASSUME HashAssumption, NEW d \in Seq(Nat), Len(d) <= Window,
         NEW s, s.currentOffset = Window, Loaded(s.table, d),
         NEW positions, Len(positions) \in Nat,
         \A i \in 1..Len(positions) : positions[i] \in Nat /\ positions[i] + HASH_UNIT <= Len(d),
         NEW onlyFree
  PROVE  Loaded(Entering(s, d, positions, onlyFree)[Len(positions)], d)
<1> DEFINE g == Entering(s, d, positions, onlyFree)
           n == Len(positions)
           T == {i \in Nat : i <= n => Loaded(g[i], d)}
<1>1. /\ g[0] = s.table
      /\ \A i \in 1..n : g[i] = Entered(g[i - 1], s, d, positions[i], onlyFree)
  BY EnteringRule
<1>2. n \in Nat /\ \A i \in 1..n : positions[i] \in Nat /\ positions[i] + HASH_UNIT <= Len(d)
  OBVIOUS
<1> HIDE DEF g, n
<1>3. 0 \in T
  BY <1>1
<1>4. ASSUME NEW i \in Nat, i \in T PROVE i + 1 \in T
  <2> SUFFICES ASSUME i + 1 <= n PROVE Loaded(g[i + 1], d)
    OBVIOUS
  <2> DEFINE j == i + 1
  <2>1. j \in 1..n /\ j - 1 = i
    BY <1>2
  <2>2. Loaded(g[i], d)
    BY <1>2, <1>4
  <2> HIDE DEF j, T
  <2>3. g[j] = Entered(g[i], s, d, positions[j], onlyFree)
    BY <1>1, <2>1
  <2>4. positions[j] \in Nat /\ positions[j] + HASH_UNIT <= Len(d)
    BY <1>2, <2>1
  <2>5. Loaded(g[j], d)
    BY <2>2, <2>3, <2>4, EnteredLoaded
  <2>6. QED  BY <2>5 DEF j
<1> HIDE DEF T
<1>5. Nat \subseteq T
  BY <1>3, <1>4, Induction, Zenon
<1>6. Loaded(g[n], d)
  BY <1>2, <1>5 DEF T
<1>7. QED  BY <1>6 DEF g, n

(* The state after a dictionary is loaded.                                 *)
After(table, n) ==
  [table |-> table, currentOffset |-> Window, dictSize |-> n, tt |-> "U32",
   dictionary |-> 0, dictCtx |-> None]

LEMMA AfterTyped ==
  ASSUME NEW d \in Seq(Nat), Len(d) <= Window, NEW table, Loaded(table, d)
  PROVE  /\ StateTyped(After(table, Len(d)))
         /\ Truly(table, Window - Len(d), d, "U32")
<1> DEFINE s == After(table, Len(d))
           n == Len(d)
           b == Window - n
<1>1. /\ s.table = table /\ s.currentOffset = Window /\ s.dictSize = n
      /\ s.dictCtx = None /\ s \in [table : {table}, currentOffset : {Window}, dictSize : {n},
                                   tt : {"U32"}, dictionary : {0}, dictCtx : {None}]
  BY DEF After
<1>2. n \in Nat /\ Window \in Nat /\ Window > 0 /\ n <= Window /\ HASH_UNIT = 8
  BY Numbers DEF HASH_UNIT
<1>3. table \in Tables /\ DOMAIN table = 0..(HashSize - 1)
  BY DEF Loaded, Tables
<1>4. ASSUME NEW h \in 0..(HashSize - 1), table[h] > 0
      PROVE  table[h] >= b /\ table[h] - b + HASH_UNIT <= n /\ h = HashPosition(d, table[h] - b, "U32")
  BY <1>4 DEF Loaded
<1> HIDE DEF s, n
<1>5. b \in Nat /\ b + n = Window
  BY <1>2
<1> HIDE DEF b
<1>6. Truly(table, b, d, "U32")
  BY <1>3, <1>4 DEF Truly, n
<1>7. ASSUME NEW h \in 0..(HashSize - 1) PROVE table[h] < Larger(1, Window)
  <2> DEFINE e == table[h]
  <2>1. e \in Nat
    BY <1>3 DEF Tables
  <2>2. e > 0 => e - b + 8 <= n
    BY <1>2, <1>4
  <2> HIDE DEF e
  <2>3. e < Window \/ e = 0
    BY <1>2, <1>5, <2>1, <2>2
  <2>4. e < Larger(1, Window)
    BY <1>2, <2>1, <2>3 DEF Larger
  <2>5. QED  BY <2>4 DEF e
<1>8. StateTyped(s)
  <2>1. Seen(s)
    BY <1>1, <1>3, <1>7 DEF Seen
  <2>2. s \in [table : Tables, currentOffset : Nat, dictSize : Nat, tt : {"none", "U16", "U32"},
               dictionary : Nat, dictCtx : {s.dictCtx}]
    BY <1>1, <1>2, <1>3
  <2>3. QED  BY <1>1, <1>2, <2>1, <2>2 DEF StateTyped
<1>9. QED  BY <1>6, <1>8 DEF s, b, n

LEMMA ZerosLoaded == \A d : Loaded(Zeros, d)
<1>1. Zeros \in Tables
  BY DEF Zeros, Tables
<1>2. \A h \in 0..(HashSize - 1) : ~(Zeros[h] > 0)
  BY DEF Zeros
<1>3. QED  BY <1>1, <1>2 DEF Loaded

LEMMA AfterIs ==
  /\ [New EXCEPT !.currentOffset = Window, !.tt = "U32"] = After(Zeros, 0)
  /\ \A n : [After(Zeros, 0) EXCEPT !.dictSize = n] = After(Zeros, n)
  /\ \A table, n : /\ After(table, n).currentOffset = Window /\ After(table, n).table = table
                    /\ \A t : [After(table, n) EXCEPT !.table = t] = After(t, n)
<1>1. [New EXCEPT !.currentOffset = Window] =
        [table |-> Zeros, currentOffset |-> Window, dictSize |-> 0, tt |-> "none",
         dictionary |-> 0, dictCtx |-> None]
  BY DEF New
<1> DEFINE r == [New EXCEPT !.currentOffset = Window]
<1>2. [New EXCEPT !.currentOffset = Window, !.tt = "U32"] = [r EXCEPT !.tt = "U32"]
  OBVIOUS
<1>3. [r EXCEPT !.tt = "U32"] = After(Zeros, 0)
  <2>1. r = [table |-> Zeros, currentOffset |-> Window, dictSize |-> 0, tt |-> "none",
             dictionary |-> 0, dictCtx |-> None]
    BY <1>1
  <2> HIDE DEF r
  <2>2. QED  BY <2>1 DEF After
<1> HIDE DEF r
<1>4. \A n : [After(Zeros, 0) EXCEPT !.dictSize = n] = After(Zeros, n)
  BY DEF After
<1>5. \A table, n : After(table, n).currentOffset = Window /\ After(table, n).table = table
  BY DEF After
<1>6. \A table, n, t : [After(table, n) EXCEPT !.table = t] = After(t, n)
  BY DEF After
<1>7. QED  BY <1>2, <1>3, <1>4, <1>5, <1>6

PlacesOf(positions, n) ==
  /\ Len(positions) \in Nat
  /\ \A i \in 1..Len(positions) : positions[i] \in Nat /\ positions[i] + HASH_UNIT <= n

LEMMA IndexedIs ==
  ASSUME HashAssumption, NEW d \in Seq(Nat), Len(d) <= Window, NEW table, Loaded(table, d),
         NEW positions, PlacesOf(positions, Len(d)), NEW onlyFree
  PROVE  \E t : Loaded(t, d) /\ Indexed(After(table, Len(d)), d, positions, onlyFree) = After(t, Len(d))
<1> DEFINE s == After(table, Len(d))
           t == Entering(s, d, positions, onlyFree)[Len(positions)]
<1>1. s.currentOffset = Window /\ s.table = table /\ [s EXCEPT !.table = t] = After(t, Len(d))
  BY AfterIs
<1>2. Indexed(s, d, positions, onlyFree) = [s EXCEPT !.table = t]
  BY DEF Indexed
<1>3. Loaded(t, d)
  <2> HIDE DEF s
  <2>1. Loaded(s.table, d) /\ s.currentOffset = Window
    BY <1>1
  <2>2. Len(positions) \in Nat
        /\ \A i \in 1..Len(positions) : positions[i] \in Nat /\ positions[i] + HASH_UNIT <= Len(d)
    BY DEF PlacesOf
  <2>3. QED  BY <2>1, <2>2, EnteringLoaded
<1> HIDE DEF t
<1>4. Indexed(s, d, positions, onlyFree) = After(t, Len(d))
  BY <1>1, <1>2
<1>5. QED  BY <1>3, <1>4 DEF s

(* Loading keeps the end of a dictionary that is as long as a hash needs.  *)
LEMMA LoadDictIs ==
  ASSUME HashAssumption, HASH_UNIT <= Window, NEW dict0 \in Seq(Nat), NEW slow \in BOOLEAN
  PROVE  \E table, d : /\ d \in Seq(Nat) /\ Len(d) <= Window /\ Len(d) <= Len(dict0)
                      /\ Loaded(table, d) /\ LoadDict(dict0, slow) = After(table, Len(d))
                      /\ d = SubSeq(dict0, Len(dict0) - Len(d) + 1, Len(dict0))
<1> DEFINE n0 == Len(dict0)
           empty == [New EXCEPT !.currentOffset = Window, !.tt = "U32"]
           d == SubSeq(dict0, Larger(0, n0 - Window) + 1, n0)
           n == Len(d)
           sized == [empty EXCEPT !.dictSize = n]
           e == n - HASH_UNIT
           thirds == [i \in 1..(e \div 3 + 1) |-> 3 * (i - 1)]
           all == [i \in 1..(e + 1) |-> i - 1]
           fast == Indexed(sized, d, thirds, FALSE)
<1>1. LoadDict(dict0, slow) = IF n0 < HASH_UNIT THEN empty
                              ELSE IF slow THEN Indexed(fast, d, all, TRUE) ELSE fast
  BY DEF LoadDict
<1> HIDE DEF fast, all, thirds, d
<1>2. n0 \in Nat /\ Window \in Nat /\ HASH_UNIT = 8 /\ n0 = Len(dict0)
  BY Numbers DEF HASH_UNIT
<1>3. empty = After(Zeros, 0) /\ sized = After(Zeros, n)
  BY AfterIs, Zenon
<1> HIDE DEF empty, sized
<1>4. CASE n0 < HASH_UNIT
  <2> DEFINE z == <<>>
  <2>1. Len(z) = 0 /\ z \in Seq(Nat) /\ Loaded(Zeros, z)
    BY ZerosLoaded
  <2> DEFINE k == Len(z)
  <2>2. SubSeq(dict0, n0 - k + 1, n0) = z
    <3>1. n0 - 0 + 1 > n0
      BY <1>2
    <3>2. QED  BY <1>2, <2>1, <3>1
  <2> HIDE DEF z
  <2>3. Len(z) <= Window /\ Len(z) <= n0
    BY <1>2, <2>1
  <2>4. LoadDict(dict0, slow) = After(Zeros, Len(z))
    BY <1>1, <1>3, <1>4, <2>1
  <2>5. QED  BY <2>1, <2>2, <2>3, <2>4, Zenon
<1>5. CASE ~(n0 < HASH_UNIT)
  <2>1. d \in Seq(Nat) /\ n \in Nat /\ n = Smaller(n0, Window)
    <3>1. d = Tail64(dict0)
      BY DEF Tail64, d
    <3>2. EndsAt(d, Larger(0, n0 - Window), dict0) /\ n = Smaller(n0, Window)
      BY <3>1, TailEnds
    <3>3. QED  BY <3>2, EndsMeans
  <2>2. Larger(0, n0 - Window) = n0 - n
    <3> HIDE DEF n, n0
    <3>1. CASE n0 < Window
      BY <1>2, <2>1, <3>1 DEF Larger, Smaller
    <3>2. CASE ~(n0 < Window)
      <4>1. n = Window
        BY <2>1, <3>2 DEF Smaller
      <4>2. QED  BY <1>2, <3>2, <4>1 DEF Larger
    <3>3. QED  BY <3>1, <3>2
  <2>3. d = SubSeq(dict0, n0 - n + 1, n0)
    BY <2>2, Zenon DEF d
  <2>4. n <= Window /\ n <= n0 /\ 8 <= n /\ e \in Nat /\ e + 8 = n
    <3> HIDE DEF n, n0
    <3>1. n <= Window /\ n <= n0 /\ 8 <= n
      BY <1>2, <1>5, <2>1 DEF Smaller
    <3>2. QED  BY <1>2, <2>1, <3>1
  <2> HIDE DEF e
  <2>5. PlacesOf(thirds, n)
    <3> DEFINE q == e \div 3
               k == q + 1
    <3>1. q \in Nat /\ 3 * q <= e
      <4>1. e \in Nat /\ 3 \in Nat \ {0}
        BY <2>4
      <4> HIDE DEF q, k, n, n0
      <4>2. e \div 3 \in Nat /\ e % 3 \in 0..2 /\ 3 * (e \div 3) + (e % 3) = e
        BY <4>1, DivMod
      <4>3. QED  BY <4>1, <4>2 DEF q
    <3>2. thirds = [i \in 1..k |-> 3 * (i - 1)]
      BY DEF thirds
    <3> HIDE DEF q, thirds, n
    <3>3. k \in Nat
      BY <3>1
    <3>4. Len(thirds) = k
      BY <3>2, <3>3
    <3>5. ASSUME NEW i \in 1..k PROVE thirds[i] \in Nat /\ thirds[i] + 8 <= n
      <4>1. thirds[i] = 3 * (i - 1)
        BY <3>2
      <4>2. 3 * (i - 1) \in Nat /\ 3 * (i - 1) <= 3 * q
        BY <3>1
      <4>3. QED  BY <2>4, <3>1, <4>1, <4>2
    <3>6. QED  BY <1>2, <3>3, <3>4, <3>5 DEF PlacesOf
  <2>6. PlacesOf(all, n)
    <3> DEFINE k == e + 1
    <3>1. all = [i \in 1..k |-> i - 1] /\ k \in Nat
      BY <2>4 DEF all
    <3> HIDE DEF all, n
    <3>2. Len(all) = k
      BY <3>1
    <3>3. ASSUME NEW i \in 1..k PROVE all[i] \in Nat /\ all[i] + 8 <= n
      BY <2>4, <3>1
    <3>4. QED  BY <1>2, <3>1, <3>2, <3>3 DEF PlacesOf
  <2>7. Loaded(Zeros, d) /\ Len(d) <= Window
    BY <2>4, ZerosLoaded
  <2>8. PICK t : Loaded(t, d) /\ fast = After(t, n)
    <3> HIDE DEF n
    <3>1. PlacesOf(thirds, Len(d))
      BY <2>5 DEF n
    <3>2. \E t : Loaded(t, d) /\ Indexed(After(Zeros, Len(d)), d, thirds, FALSE) = After(t, Len(d))
      <4> DEFINE only == FALSE
      <4> HIDE DEF only
      <4>1. \E t : Loaded(t, d) /\ Indexed(After(Zeros, Len(d)), d, thirds, only) = After(t, Len(d))
        BY <2>1, <2>7, <3>1, IndexedIs
      <4>2. QED  BY <4>1, Zenon DEF only
    <3>3. fast = Indexed(After(Zeros, Len(d)), d, thirds, FALSE) /\ n = Len(d)
      BY <1>3 DEF fast, n
    <3>4. QED  BY <3>2, <3>3, Zenon
  <2>9. CASE slow
    <3>1. PICK u : Loaded(u, d) /\ Indexed(fast, d, all, TRUE) = After(u, n)
      <4> HIDE DEF n
      <4>1. PlacesOf(all, Len(d)) /\ n = Len(d)
        BY <2>6 DEF n
      <4>2. \E u : Loaded(u, d) /\ Indexed(After(t, Len(d)), d, all, TRUE) = After(u, Len(d))
        <5> DEFINE only == TRUE
        <5> HIDE DEF only
        <5>1. \E u : Loaded(u, d) /\ Indexed(After(t, Len(d)), d, all, only) = After(u, Len(d))
          BY <2>1, <2>7, <2>8, <4>1, IndexedIs
        <5>2. QED  BY <5>1, Zenon DEF only
      <4>3. fast = After(t, Len(d))
        BY <2>8, <4>1
      <4>4. QED  BY <4>1, <4>2, <4>3, Zenon
    <3>2. LoadDict(dict0, slow) = After(u, n)
      BY <1>1, <1>5, <2>9, <3>1, Zenon
    <3>3. QED  BY <2>1, <2>3, <2>4, <3>1, <3>2, Zenon
  <2>10. CASE ~slow
    <3>1. LoadDict(dict0, slow) = After(t, n)
      BY <1>1, <1>5, <2>8, <2>10
    <3>2. QED  BY <2>1, <2>3, <2>4, <2>8, <3>1, Zenon
  <2>11. QED  BY <2>9, <2>10
<1>6. QED  BY <1>4, <1>5

-----------------------------------------------------------------------------
(* Call after call.  What holds during a call holds before the first, when *)
(* the compressor rests.                                                   *)
EncoderInv == Inv /\ SizeInv /\ Staged /\ Moved

LEMMA CallBegins ==
  Called(job) /\ Ready(job) => EncoderInv
<1> SUFFICES ASSUME Called(job), Ready(job) PROVE EncoderInv
  OBVIOUS
<1>1. Staged
  BY DEF Ready, Staged
<1>2. QED  BY <1>1, Begun, Ready0 DEF EncoderInv

LEMMA CallGoesOn ==
  ASSUME EncoderInv, Step, HashAssumption
  PROVE  EncoderInv' /\ job' = job
<1>1. Next
  BY DEF Next
<1>2. Inv' /\ SizeInv' /\ Staged'
  BY <1>1, StepKeeps, StepSized, StageKept DEF EncoderInv
<1>3. Moved'
  BY StepMoved DEF EncoderInv
<1>4. job' = job
  BY <1>1, JobKept
<1>5. QED  BY <1>2, <1>3, <1>4 DEF EncoderInv

LEMMA CallRests ==
  ASSUME EncoderInv, UNCHANGED vars, HashAssumption
  PROVE  EncoderInv' /\ job' = job
<1>1. Inv' /\ SizeInv' /\ Staged'
  BY StepKeeps, StepSized, StageKept DEF EncoderInv
<1>2. Moved'
  <2>1. pc = "begin" => Moved'
    BY DEF vars, Moved, EncoderInv
  <2>2. pc # "begin" => Moved'
    BY NothingMoved DEF vars, EncoderInv
  <2>3. QED  BY <2>1, <2>2
<1>3. QED  BY <1>1, <1>2 DEF EncoderInv, vars

LEMMA NothingYet ==
  ASSUME Resting
  PROVE  EncoderInv /\ Primed(job)
<1>1. /\ job = CompressFast(<<>>, 1, 1) /\ st = job.st /\ pc = "done" /\ anchor = 0 /\ op = 1
      /\ token = 0 /\ seqs = <<>> /\ last = <<>>
  BY DEF Resting
<1>2. Len(<<>>) = 0 /\ <<>> \in Seq(Nat)
  OBVIOUS
<1>3. Window \in Nat /\ 0 < Window /\ Window < Wrap
  BY Numbers
<1>4. CompressBound(0) = 16
  <2>1. 0 \div 255 = 0
    OBVIOUS
  <2>2. QED  BY <2>1 DEF CompressBound
<1>5. /\ job.st = [New EXCEPT !.tt = "U16"] /\ job.src = <<>> /\ job.room = 1 /\ job.content = <<>>
      /\ job.directive = "none" /\ job.small = FALSE /\ job.limited = TRUE /\ job.fill = FALSE
      /\ job.acc = 1
  <2>1. TableTypeFor(0) = "U16"
    BY <1>3 DEF TableTypeFor, MFLIMIT
  <2>2. Smaller(Larger(1, 1), AccelerationMax) = 1
    BY DEF Smaller, Larger, AccelerationMax
  <2>3. 1 < CompressBound(Len(<<>>))
    BY <1>2, <1>4
  <2>4. Fresh(<<>>) = [New EXCEPT !.tt = "U16"]
    BY <1>2, <2>1 DEF Fresh
  <2>5. QED  BY <1>1, <2>2, <2>3, <2>4, Zenon DEF CompressFast, Job
<1>6. job.st = [table |-> Zeros, currentOffset |-> 0, dictSize |-> 0, tt |-> "U16",
                dictionary |-> 0, dictCtx |-> None]
  BY <1>5 DEF New
<1>7. /\ job.st.table = Zeros /\ Zeros \in Tables /\ job.st.currentOffset = 0 /\ job.st.dictSize = 0
      /\ job.st.tt = "U16" /\ \A h \in 0..(HashSize - 1) : Zeros[h] = 0
  BY <1>6 DEF Zeros, Tables
<1>8. StateTyped(job.st)
  <2>1. Seen(job.st)
    BY <1>7 DEF Seen, Larger, Tables
  <2>2. QED  BY <1>6, <1>7, <2>1 DEF StateTyped
<1>9. Called(job)
  <2>1. 0 + Len(job.src) < Wrap /\ 0 + Len(job.src) < Window + MFLIMIT - 1
    BY <1>2, <1>3, <1>5, Numbers DEF MFLIMIT
  <2>2. HistoryLength(job) <= Len(job.content)
    BY <1>2, <1>5, <1>7 DEF HistoryLength
  <2>3. /\ job.src \in Seq(Nat) /\ job.content \in Seq(Nat) /\ job.room \in Nat
        /\ job.acc \in Nat \ {0} /\ {job.small, job.limited, job.fill} \subseteq BOOLEAN
        /\ job.directive = "none"
    <3>1. job.src \in Seq(Nat) /\ job.content \in Seq(Nat)
      BY <1>2, <1>5
    <3>2. job.room \in Nat /\ job.acc \in Nat \ {0} /\ job.directive = "none"
      BY <1>5
    <3>3. {job.small, job.limited, job.fill} \subseteq BOOLEAN
      BY <1>5, Zenon
    <3>4. QED  BY <3>1, <3>2, <3>3
  <2>4. /\ StateTyped(job.st) /\ job.st.tt = "U16" /\ job.st.currentOffset = 0
        /\ job.st.dictSize = 0 /\ ~job.fill /\ job.limited
    BY <1>5, <1>7, <1>8
  <2>5. /\ job.st.currentOffset + Len(job.src) < Wrap
        /\ job.st.currentOffset + Len(job.src) < Window + MFLIMIT - 1
    BY <2>1, <2>4
  <2>6. QED  BY <2>2, <2>3, <2>4, <2>5 DEF Called
<1>10. /\ iend = 0 /\ startIndex = 0 /\ olimit = 1 /\ tt = "U16" /\ iend \in Nat
  BY <1>2, <1>5, <1>7 DEF iend, src, startIndex, olimit, tt
<1>11. Tabled
  BY <1>1, <1>8 DEF StateTyped, Tabled
<1>12. Inv
  <2>1. Written
    <3>1. Known \in Seq(Nat) /\ Len(Known) \in Nat /\ Text \in Seq(Nat)
          /\ Len(Text) = Len(Known) + iend
          /\ \A i \in 1..Len(Known) : Text[i] = Known[i]
      BY <1>9, TextTyped
    <3>2. Len(seqs) = 0 /\ seqs \in Seq(SequenceSet)
      BY <1>1
    <3>3. Sofar = Known
      <4>1. Yields(Known, seqs)[0] = Known
        BY <3>2, YieldsRule
      <4>2. QED  BY <3>2, <4>1 DEF Sofar
    <3>4. Begins(Known, Text)
      BY <1>10, <3>1 DEF Begins
    <3>5. \A i \in 1..Len(seqs) : FALSE
      BY <3>2
    <3>6. anchor \in 0..iend /\ Len(Known) = Len(Known) + anchor
      BY <1>1, <1>10, <3>1
    <3>7. QED  BY <3>1, <3>2, <3>3, <3>4, <3>5, <3>6 DEF Written
  <2>2. Honest
    BY <1>1, <1>7, <1>10 DEF Honest
  <2>3. Opening /\ Searching /\ Matched1 /\ Matching
    BY <1>1 DEF Opening, Searching, Matched1, Matching
  <2>4. Ending
    <3>1. last \in Seq(Nat) /\ Len(last) = 0 /\ anchor + Len(last) = 0
      BY <1>1, <1>2
    <3>2. SubSeq(src, 1, 0) = <<>>
      BY <1>5 DEF src
    <3>3. QED  BY <1>1, <1>10, <3>1, <3>2 DEF Ending
  <2>5. op \in Nat /\ token \in Nat
    BY <1>1
  <2>6. QED  BY <1>9, <1>11, <2>1, <2>2, <2>3, <2>4, <2>5 DEF Inv, Sound
<1>13. SizeInv
  <2>1. Laid(seqs) = 0
    BY <1>1, NothingLaid
  <2>2. Paid
    BY <1>1, <1>10, <2>1 DEF Paid
  <2>3. Untouched /\ Between /\ Probing /\ Found /\ Opened /\ Succeeds
    BY <1>1 DEF Untouched, Between, Probing, Found, Opened, Succeeds
  <2>4. Closing
    <3>1. Len(Extension(0)) = 0
      BY <1>2 DEF Extension
    <3>2. Len(last) = 0 /\ last \in Seq(Nat)
      BY <1>1, <1>2
    <3>3. QED  BY <1>1, <1>10, <2>1, <3>1, <3>2 DEF Closing
  <2>5. QED  BY <1>9, <1>11, <2>2, <2>3, <2>4 DEF SizeInv, Sized
<1>14. Primed(job)
  BY <1>7 DEF Primed, Truly, Tables
<1>15. Moved
  <2>1. Carried
    BY <1>1, <1>7, <1>8, <1>10 DEF Carried
  <2>2. Table(st.table)
    BY <1>1, <1>9, AtStart
  <2>3. QED  BY <1>1, <2>1, <2>2 DEF Moved
<1>16. Staged
  BY <1>1 DEF Staged
<1>17. QED  BY <1>12, <1>13, <1>14, <1>15, <1>16 DEF EncoderInv

LEMMA CallBegun == (Called(job) /\ Ready(job) => EncoderInv)'
BY CallBegins, PTL

LEMMA Encoded ==
  ASSUME EncoderInv
  PROVE  /\ Called(job) /\ InRoom /\ Succeeds /\ NothingAhead /\ RoundTrip
         /\ (HistoryWhole => BlocksFit) /\ (Primed(job) => TableHonest)
<1>1. Called(job) /\ NothingAhead /\ (Primed(job) => TableHonest)
  BY TableMeans DEF EncoderInv, SizeInv
<1>2. RoundTrip
  BY InvMeans DEF EncoderInv
<1>3. InRoom /\ Succeeds
  BY WithinRoom DEF EncoderInv, SizeInv, Sized
<1>4. HistoryWhole => BlocksFit
  BY <1>3, AsAsked DEF EncoderInv, BlocksFit
<1>5. QED  BY <1>1, <1>2, <1>3, <1>4

(* What a call has put in its table, and what it found there, is true of   *)
(* all it was told of; and then of any end of that.                        *)
LEMMA TrulyJoined ==
  ASSUME EncoderInv, Primed(job), pc \in {"done", "failed"}, job.st.dictSize = Len(job.content)
  PROVE  Truly(st.table, PastBase, job.content \o src, tt)
<1> DEFINE c == job.content
           x == c \o src
           n == Len(c)
           b == PastBase
           table == st.table
<1>1. Called(job) /\ SaysTrue(st.table) /\ st.table \in Tables
  BY DEF EncoderInv, SizeInv, Moved, Table
<1>2. /\ c \in Seq(Nat) /\ src \in Seq(Nat) /\ n \in Nat /\ iend \in Nat /\ iend = Len(src)
      /\ startIndex \in Nat /\ b \in Nat /\ b <= startIndex /\ b = startIndex - n
      /\ Past \in Seq(Nat) /\ Len(Past) = n /\ \A k \in 1..n : Past[k] = c[k]
  BY <1>1, CallTyped, PastTyped DEF PastBase, iend
<1>3. /\ x \in Seq(Nat) /\ Len(x) = n + iend
      /\ \A i \in 1..(n + iend) : x[i] = IF i <= n THEN c[i] ELSE src[i - n]
  BY <1>2, Concatenated
<1> HIDE DEF x, n
<1>4. Part(Past, 0, x)
  <2>1. \A k \in 1..n : Past[k] = x[0 + k]
    <3> SUFFICES ASSUME NEW k \in 1..n PROVE Past[k] = x[0 + k]
      OBVIOUS
    <3>1. k \in 1..(n + iend) /\ k <= n /\ 0 + k = k
      BY <1>2
    <3>2. QED  BY <1>2, <1>3, <3>1, Zenon
  <2>2. 0 + n <= Len(x)
    BY <1>2, <1>3
  <2>3. QED  BY <1>2, <1>3, <2>1, <2>2 DEF Part
<1>5. Part(src, n, x)
  <2>1. \A k \in 1..iend : src[k] = x[n + k]
    <3> SUFFICES ASSUME NEW k \in 1..iend PROVE src[k] = x[n + k]
      OBVIOUS
    <3>1. n + k \in 1..(n + iend) /\ ~(n + k <= n) /\ (n + k) - n = k
      BY <1>2
    <3>2. QED  BY <1>3, <3>1
  <2>2. n + Len(src) <= Len(x)
    BY <1>2, <1>3
  <2>3. QED  BY <1>2, <1>3, <2>1, <2>2 DEF Part
<1> SUFFICES ASSUME NEW h \in DOMAIN table, table[h] > 0, table[h] >= b
             PROVE  /\ table[h] - b + HASH_UNIT <= Len(x)
                    /\ h = HashPosition(x, table[h] - b, tt)
  BY DEF Truly, x
<1> DEFINE e == table[h]
<1>6. h \in 0..(HashSize - 1) /\ e \in Nat /\ HASH_UNIT = 8
  BY <1>1, Zenon DEF Tables, HASH_UNIT
<1>7. IF e >= startIndex
      THEN e - startIndex + HASH_UNIT <= iend /\ h = HashPosition(src, e - startIndex, tt)
      ELSE e - PastBase + HASH_UNIT <= n /\ h = HashPosition(Past, e - PastBase, tt)
  BY <1>1, <1>6 DEF SaysTrue, n
<1>8. e >= b
  OBVIOUS
<1> DEFINE r == e - b
<1>9. CASE e >= startIndex
  <2> DEFINE q == e - startIndex
  <2>1. q + HASH_UNIT <= Len(src) /\ h = HashPosition(src, q, tt)
    BY <1>2, <1>7, <1>9
  <2> HIDE DEF e, b
  <2>2. q \in Nat /\ r = n + q
    BY <1>2, <1>6, <1>9
  <2> HIDE DEF q, r
  <2>3. HashPosition(src, q, tt) = HashPosition(x, r, tt)
    BY <1>5, <2>1, <2>2, HashWithin
  <2>4. r + HASH_UNIT <= Len(x)
    BY <1>2, <1>3, <1>6, <2>1, <2>2
  <2>5. QED  BY <2>1, <2>3, <2>4 DEF r, e
<1>10. CASE ~(e >= startIndex)
  <2>1. r + HASH_UNIT <= n /\ h = HashPosition(Past, r, tt)
    BY <1>7, <1>10
  <2> HIDE DEF e, b
  <2>2. r \in Nat /\ r = 0 + r
    BY <1>2, <1>6, <1>8
  <2> HIDE DEF r
  <2>3. HashPosition(Past, r, tt) = HashPosition(x, r, tt)
    <3>1. r + HASH_UNIT <= Len(Past)
      BY <1>2, <2>1
    <3>2. QED  BY <1>4, <2>2, <3>1, HashWithin
  <2>4. r + HASH_UNIT <= Len(x)
    BY <1>2, <1>3, <1>6, <2>1, <2>2
  <2>5. QED  BY <2>1, <2>3, <2>4 DEF r, e
<1>11. QED  BY <1>9, <1>10

LEMMA TrulyEnd ==
  ASSUME NEW table \in Tables, NEW b \in Nat, NEW s, NEW t, NEW d, EndsAt(t, d, s), NEW type,
         Truly(table, b, s, type), NEW c, c = b + d
  PROVE  Truly(table, c, t, type)
<1>1. /\ s \in Seq(Nat) /\ t \in Seq(Nat) /\ d \in Nat /\ Len(s) \in Nat /\ Len(t) \in Nat
      /\ Len(s) = d + Len(t) /\ \A k \in 1..Len(t) : t[k] = s[d + k]
  BY EndsMeans
<1>2. Part(t, d, s)
  BY <1>1 DEF Part
<1> SUFFICES ASSUME NEW h \in DOMAIN table, table[h] > 0, table[h] >= c
             PROVE  /\ table[h] - c + HASH_UNIT <= Len(t)
                    /\ h = HashPosition(t, table[h] - c, type)
  BY DEF Truly
<1> DEFINE e == table[h]
           q == e - c
           r == e - b
<1>3. e \in Nat /\ HASH_UNIT = 8 /\ e > 0 /\ e >= c
  BY DEF Tables, HASH_UNIT
<1> HIDE DEF e
<1>4. e >= b /\ q \in Nat /\ r = d + q
  BY <1>1, <1>3
<1>5. r + HASH_UNIT <= Len(s) /\ h = HashPosition(s, r, type)
  BY <1>3, <1>4 DEF Truly, e
<1> HIDE DEF q, r
<1>6. q + HASH_UNIT <= Len(t)
  BY <1>1, <1>3, <1>4, <1>5
<1>7. HashPosition(t, q, type) = HashPosition(s, r, type)
  BY <1>2, <1>4, <1>6, HashWithin
<1>8. QED  BY <1>5, <1>6, <1>7 DEF q, e

-----------------------------------------------------------------------------
(* The blocks of a frame.                                                  *)

FrameTyped ==
  /\ dict \in Seq(Nat) /\ heard \in Seq(Nat) /\ blocks \in 0..MaxBlocks
  /\ inBlock \in BOOLEAN /\ past \in BOOLEAN
  /\ StateTyped(stream) /\ stream.tt = "U32"
  /\ stream.dictSize <= Len(dict) /\ Len(dict) <= Window

(* The stream knows of all the window the compressor has, and that is an   *)
(* end of the window a decoder has.                                        *)
Told ==
  /\ stream.dictSize = Len(dict) /\ (\E d : EndsAt(dict, d, heard))
  /\ Truly(stream.table, stream.currentOffset - Len(dict), dict, "U32")
Knowing == Told /\ Primed(job) /\ HistoryWhole

(* The call that makes a block is given the stream and the window.         *)
AtWork ==
  inBlock => /\ job.st = stream /\ job.content = dict /\ job.directive = "prefix" /\ ~job.fill
             /\ \E w \in Words : src = w

(* Every block takes no more of an index than the longest does.            *)
Takes(longest) ==
  stream.currentOffset + (IF inBlock THEN iend ELSE 0) <= Window + blocks * longest

Longest(l) ==
  l \in Nat /\ (\A w \in Words : Len(w) <= l) /\ Window + MaxBlocks * l < Wrap

FrameInv(l) ==
  EncoderInv /\ FrameTyped /\ AtWork /\ Takes(l) /\ (~past => Knowing)

LEMMA OneMore ==
  ASSUME NEW b \in Nat, NEW l \in Nat, NEW max \in Nat, b < max
  PROVE  b * l + l = (b + 1) * l /\ (b + 1) * l <= max * l /\ b * l <= (b + 1) * l /\ b * l \in Nat
<1>1. PICK k \in Nat : max = b + 1 + k
  <2>1. max - (b + 1) \in Nat /\ max = b + 1 + (max - (b + 1))
    OBVIOUS
  <2>2. QED  BY <2>1
<1>2. k * l \in Nat /\ b * l \in Nat
  OBVIOUS
<1>3. max * l = b * l + l + k * l /\ (b + 1) * l = b * l + l
  BY <1>1
<1>4. QED  BY <1>2, <1>3

(* What a block is called with.                                            *)
LEMMA JobIs ==
  ASSUME NEW s, NEW w, NEW room, NEW c, NEW way, NEW small, NEW limited, NEW fill, NEW ctx, NEW j,
         j = Job(s, w, room, c, way, small, limited, fill, 1, ctx)
  PROVE  /\ j.st = s /\ j.src = w /\ j.room = room /\ j.content = c /\ j.directive = way
         /\ j.small = small /\ j.limited = limited /\ j.fill = fill /\ j.acc = 1 /\ j.ctx = ctx
<1>1. Smaller(Larger(1, 1), AccelerationMax) = 1
  BY DEF Smaller, Larger, AccelerationMax
<1>2. j = [st |-> s, src |-> w, room |-> room, content |-> c, directive |-> way,
           small |-> small, limited |-> limited, fill |-> fill, acc |-> 1, ctx |-> ctx]
  BY <1>1 DEF Job
<1>3. QED  BY <1>2

LEMMA Continued ==
  ASSUME StateTyped(stream), stream.tt = "U32", dict \in Seq(Nat), stream.dictSize <= Len(dict),
         NEW w \in Seq(Nat), NEW room \in Nat, stream.currentOffset + Len(w) < Wrap
  PROVE  LET j == CompressContinue(stream, w, room, dict, TRUE, None, 1)
         IN  /\ Called(j) /\ j.st = stream /\ j.content = dict /\ j.src = w
             /\ j.directive = "prefix" /\ ~j.fill
<1> DEFINE tiny == stream.dictSize < 4 /\ ~TRUE /\ w # <<>>
           size == IF tiny \/ None # None THEN 0 ELSE stream.dictSize
           s == [stream EXCEPT !.tt = "U32", !.dictSize = size]
           way == IF None # None THEN "ctx" ELSE IF TRUE THEN "prefix" ELSE "ext"
           small == None = None /\ DictSmall(s)
           limited == TRUE
           fill == FALSE
           j == CompressContinue(stream, w, room, dict, TRUE, None, 1)
<1>1. stream \in [table : Tables, currentOffset : Nat, dictSize : Nat, tt : {"none", "U16", "U32"},
                  dictionary : Nat, dictCtx : {stream.dictCtx}]
  BY DEF StateTyped
<1>2. size = stream.dictSize /\ way = "prefix" /\ {small, limited, fill} \subseteq BOOLEAN
  OBVIOUS
<1>3. j = Job(s, w, room, dict, way, small, limited, fill, 1, None)
  BY Zenon DEF CompressContinue
<1> HIDE DEF small, way, size, limited, fill, j
<1>4. s = stream
  BY <1>1, <1>2, Zenon
<1> HIDE DEF s
<1>5. /\ j.st = s /\ j.src = w /\ j.room = room /\ j.content = dict /\ j.directive = way
      /\ j.small = small /\ j.limited = limited /\ j.fill = fill /\ j.acc = 1
  BY <1>3, JobIs
<1>6. {j.small, j.limited, j.fill} \subseteq BOOLEAN
  BY <1>2, <1>5
<1>7. j.limited /\ ~j.fill
  <2>1. j.limited
    BY <1>5, Zenon DEF limited
  <2>2. ~j.fill
    BY <1>5, Zenon DEF fill
  <2>3. QED  BY <2>1, <2>2
<1>8. /\ j.src \in Seq(Nat) /\ j.content \in Seq(Nat) /\ j.room \in Nat /\ j.acc \in Nat \ {0}
      /\ StateTyped(j.st) /\ j.st.tt = "U32" /\ j.st.currentOffset + Len(j.src) < Wrap
      /\ j.directive = "prefix" /\ j.st = stream /\ j.content = dict /\ j.src = w
  BY <1>2, <1>4, <1>5
<1>9. HistoryLength(j) <= Len(j.content)
  BY <1>8 DEF HistoryLength
<1>10. Called(j)
  BY <1>6, <1>7, <1>8, <1>9 DEF Called
<1>11. QED  BY <1>7, <1>8, <1>10, Zenon DEF j

LEMMA MakeBlockKeeps ==
  ASSUME BlocksAssumption, NEW l, Longest(l), FrameInv(l), NEW w \in Words, MakeBlock(w)
  PROVE  FrameInv(l)'
<1> DEFINE n == IF Len(w) > 1 THEN Len(w) - 1 ELSE 1
           j == CompressContinue(stream, w, n, dict, TRUE, None, 1)
<1>1. /\ ~inBlock /\ blocks < MaxBlocks /\ Start(j) /\ inBlock' = TRUE /\ blocks' = blocks + 1
      /\ dict' = dict /\ stream' = stream /\ heard' = heard /\ past' = past
  BY Zenon DEF MakeBlock
<1>2. w \in Seq(Nat) /\ Len(w) \in Nat /\ n \in Nat /\ Len(w) <= l /\ l \in Nat /\ MaxBlocks \in Nat
  BY DEF BlocksAssumption, Longest
<1> HIDE DEF n
<1>3. /\ dict \in Seq(Nat) /\ blocks \in Nat /\ StateTyped(stream) /\ stream.tt = "U32"
      /\ stream.dictSize <= Len(dict) /\ stream.currentOffset <= Window + blocks * l
      /\ stream.currentOffset \in Nat /\ Window \in Nat
      /\ stream.dictSize \in Nat
  <2>1. stream.currentOffset \in Nat /\ stream.dictSize \in Nat
    BY DEF FrameInv, FrameTyped, StateTyped
  <2>2. stream.currentOffset + 0 <= Window + blocks * l
    BY <1>1 DEF FrameInv, Takes
  <2>3. dict \in Seq(Nat) /\ blocks \in Nat /\ StateTyped(stream) /\ stream.tt = "U32"
        /\ stream.dictSize <= Len(dict)
    BY DEF FrameInv, FrameTyped
  <2>4. QED  BY <2>1, <2>2, <2>3, Numbers
<1>4. /\ blocks * l + l = (blocks + 1) * l /\ (blocks + 1) * l <= MaxBlocks * l
      /\ blocks * l \in Nat
  BY <1>1, <1>2, <1>3, OneMore
<1> DEFINE a == blocks * l
           b == (blocks + 1) * l
           c == MaxBlocks * l
<1>5. Window + c < Wrap /\ a + l = b /\ b <= c /\ a \in Nat /\ b \in Nat /\ Wrap \in Nat
  <2>1. b \in Nat
    BY <1>2, <1>3
  <2>2. QED  BY <1>4, <2>1, Numbers DEF Longest
<1>6. stream.currentOffset <= Window + a
  BY <1>3
<1> HIDE DEF a, b, c
<1>7. c \in Nat
  BY <1>2 DEF c
<1>8. stream.currentOffset + Len(w) <= Window + b /\ stream.currentOffset + Len(w) < Wrap
  BY <1>2, <1>3, <1>5, <1>6, <1>7
<1>9. /\ Called(j) /\ j.st = stream /\ j.content = dict /\ j.src = w
      /\ j.directive = "prefix" /\ ~j.fill
  BY <1>2, <1>3, <1>8, Continued, Zenon
<1> HIDE DEF j
<1>10. job' = j /\ Ready(job)' /\ Called(job)'
  <2>1. job' = j
    BY <1>1 DEF Start
  <2>2. Ready(job)'
    BY <1>1 DEF Start, Ready
  <2>3. QED  BY <1>9, <2>1, <2>2
<1>11. EncoderInv'
  BY <1>10, CallBegun
<1>12. FrameTyped'
  <2>1. blocks' \in 0..MaxBlocks
    BY <1>1, <1>2, <1>3
  <2>2. QED  BY <1>1, <2>1 DEF FrameInv, FrameTyped
<1>13. src' = w /\ iend' = Len(w)
  BY <1>9, <1>10 DEF src, iend
<1>14. AtWork'
  BY <1>1, <1>9, <1>10, <1>13 DEF AtWork
<1>15. Takes(l)'
  <2>1. stream'.currentOffset + iend' <= Window + blocks' * l
    BY <1>1, <1>8, <1>13 DEF b
  <2>2. QED  BY <1>1, <2>1 DEF Takes
<1>16. ASSUME ~past' PROVE Knowing'
  <2>1. Told
    BY <1>1, <1>16 DEF FrameInv, Knowing
  <2>2. Told'
    BY <1>1, <2>1 DEF Told
  <2>3. SubSeq(dict, 1, Len(dict)) = dict
    BY <1>3
  <2>4. Primed(j)
    BY <1>3, <1>9, <2>1, <2>3, Zenon DEF Primed, Told
  <2>5. Primed(job)'
    BY <1>10, <2>4
  <2>6. HistoryWhole'
    <3>1. HistoryLength(j) = Len(dict)
      BY <1>9, <2>1 DEF HistoryLength, Told
    <3>2. HistoryOf(j) = dict
      BY <1>9, <2>3, <3>1 DEF HistoryOf
    <3>3. Len(HistoryOf(job)') = Len(job'.content)
      BY <1>9, <1>10, <3>2
    <3>4. QED  BY <3>3 DEF HistoryWhole
  <2>7. QED  BY <2>2, <2>5, <2>6 DEF Knowing
<1>17. QED  BY <1>11, <1>12, <1>14, <1>15, <1>16 DEF FrameInv

LEMMA SameFrame ==
  ASSUME NEW l, FrameInv(l), EncoderInv', job' = job, UNCHANGED frameVars
  PROVE  FrameInv(l)'
<1>1. /\ dict' = dict /\ stream' = stream /\ inBlock' = inBlock /\ heard' = heard /\ past' = past
      /\ blocks' = blocks
  BY DEF frameVars
<1>2. src' = src /\ iend' = iend
  BY SameCall
<1>3. FrameTyped'
  BY <1>1 DEF FrameInv, FrameTyped
<1>4. AtWork'
  BY <1>1, <1>2 DEF FrameInv, AtWork
<1>5. Takes(l)'
  BY <1>1, <1>2 DEF FrameInv, Takes
<1>6. ~past' => Knowing'
  <2>1. Told => Told'
    BY <1>1 DEF Told
  <2>2. Primed(job) => Primed(job)'
    BY Zenon DEF Primed, Truly
  <2>3. HistoryWhole => HistoryWhole'
    BY Zenon DEF HistoryWhole, HistoryOf, HistoryLength
  <2>4. QED  BY <1>1, <2>1, <2>2, <2>3 DEF FrameInv, Knowing
<1>7. QED  BY <1>3, <1>4, <1>5, <1>6 DEF FrameInv

LEMMA CompressKeeps ==
  ASSUME HashAssumption, NEW l, FrameInv(l), Compress
  PROVE  FrameInv(l)'
<1>1. EncoderInv' /\ job' = job
  BY CallGoesOn DEF FrameInv, Compress
<1>2. QED  BY <1>1, SameFrame DEF Compress

(* The window moves on, and with it what the stream is told.               *)
LEMMA Saved ==
  ASSUME NEW s, StateTyped(s), NEW n \in Nat, n <= Window, NEW r, r = SaveDict(s, n)
  PROVE  /\ StateTyped(r) /\ r.tt = s.tt /\ r.table = s.table /\ r.currentOffset = s.currentOffset
         /\ r.dictSize = Smaller(n, s.dictSize) /\ r.dictSize <= n /\ s.dictSize \in Nat
         /\ s.currentOffset \in Nat /\ s.table \in Tables
<1>1. /\ s \in [table : Tables, currentOffset : Nat, dictSize : Nat, tt : {"none", "U16", "U32"},
                dictionary : Nat, dictCtx : {s.dictCtx}]
      /\ Seen(s) /\ s.dictSize <= s.currentOffset
  BY DEF StateTyped
<1> DEFINE d == Smaller(Smaller(n, Window), s.dictSize)
<1>2. s.dictSize \in Nat /\ s.currentOffset \in Nat /\ s.table \in Tables
  BY <1>1
<1>3. d = Smaller(n, s.dictSize) /\ d \in Nat /\ d <= n /\ d <= s.dictSize
  BY <1>2, Numbers DEF Smaller
<1>4. r = [s EXCEPT !.dictSize = d]
  BY DEF SaveDict
<1> HIDE DEF d
<1>5. /\ r \in [table : Tables, currentOffset : Nat, dictSize : Nat, tt : {"none", "U16", "U32"},
                dictionary : Nat, dictCtx : {r.dictCtx}]
      /\ r.table = s.table /\ r.currentOffset = s.currentOffset /\ r.tt = s.tt /\ r.dictSize = d
  BY <1>1, <1>3, <1>4
<1>6. Seen(r)
  BY <1>1, <1>5 DEF Seen
<1>7. r.dictSize <= r.currentOffset
  BY <1>1, <1>2, <1>3, <1>5
<1>8. QED  BY <1>2, <1>3, <1>5, <1>6, <1>7 DEF StateTyped

LEMMA WindowMoves ==
  ASSUME NEW c \in Seq(Nat), NEW w \in Seq(Nat)
  PROVE  /\ Tail64(c \o w) \in Seq(Nat) /\ Len(Tail64(c \o w)) \in Nat
         /\ Len(c \o w) = Len(c) + Len(w)
         /\ Len(Tail64(c \o w)) = Smaller(Len(c \o w), Window)
         /\ Len(Tail64(c \o w)) <= Window
         /\ EndsAt(Tail64(c \o w), Larger(0, Len(c \o w) - Window), c \o w)
<1> DEFINE x == c \o w
           t == Tail64(x)
           n == Len(x)
<1>1. x \in Seq(Nat) /\ n = Len(c) + Len(w) /\ n \in Nat
  BY Concatenated
<1>2. EndsAt(t, Larger(0, n - Window), x) /\ Len(t) = Smaller(n, Window)
  BY <1>1, TailEnds, Zenon
<1> HIDE DEF t, x, n
<1>3. t \in Seq(Nat) /\ Len(t) \in Nat
  BY <1>2, EndsMeans
<1>4. Len(t) <= Window
  BY <1>1, <1>2, Numbers DEF Smaller
<1>5. QED  BY <1>1, <1>2, <1>3, <1>4 DEF t, x, n

LEMMA WindowsMove ==
  ASSUME NEW c \in Seq(Nat), NEW h \in Seq(Nat), NEW d, EndsAt(c, d, h), NEW w \in Seq(Nat)
  PROVE  \E e : EndsAt(Tail64(c \o w), e, Tail64(h \o w))
<1> DEFINE x == c \o w
           y == h \o w
           s == Tail64(x)
           t == Tail64(y)
           i == Larger(0, Len(x) - Window)
           j == Larger(0, Len(y) - Window)
<1>1. /\ EndsAt(s, i, x) /\ Len(s) = Smaller(Len(x), Window) /\ Len(x) = Len(c) + Len(w)
      /\ EndsAt(t, j, y) /\ Len(t) = Smaller(Len(y), Window) /\ Len(y) = Len(h) + Len(w)
  BY WindowMoves
<1>2. EndsAt(x, d, y)
  BY EndsJoined
<1>3. Len(h) = d + Len(c) /\ Len(h) \in Nat /\ Len(c) \in Nat /\ d \in Nat /\ Len(w) \in Nat
      /\ i \in Nat /\ j \in Nat
  BY <1>1, EndsMeans
<1> HIDE DEF x, y, i, j, s, t
<1>4. Len(s) <= Len(t)
  BY <1>1, <1>3, Numbers DEF Smaller
<1> DEFINE k == d + i
<1>5. EndsAt(s, k, y)
  BY <1>1, <1>2, EndsThrough
<1> HIDE DEF k
<1>6. EndsAt(s, k - j, t)
  BY <1>1, <1>4, <1>5, EndsWithin
<1>7. QED  BY <1>6 DEF s, t, x, y

LEMMA StoreBlockKeeps ==
  ASSUME HashAssumption, BlocksAssumption, NEW l, Longest(l), FrameInv(l),
         NEW w \in Words, StoreBlock(w)
  PROVE  FrameInv(l)'
<1>1. /\ ~inBlock /\ blocks < MaxBlocks /\ dict' = Tail64(dict \o w) /\ heard' = Tail64(heard \o w)
      /\ stream' = SaveDict(stream, Len(dict')) /\ past' = TRUE /\ blocks' = blocks + 1
      /\ UNCHANGED vars /\ inBlock' = inBlock
  BY DEF StoreBlock, Retained
<1>2. /\ w \in Seq(Nat) /\ dict \in Seq(Nat) /\ heard \in Seq(Nat) /\ blocks \in Nat /\ MaxBlocks \in Nat
      /\ StateTyped(stream) /\ stream.tt = "U32" /\ inBlock = FALSE /\ l \in Nat
  BY <1>1 DEF BlocksAssumption, FrameInv, FrameTyped, Longest
<1>3. /\ dict' \in Seq(Nat) /\ heard' \in Seq(Nat) /\ Len(dict') \in Nat /\ Len(dict') <= Window
  BY <1>1, <1>2, WindowMoves
<1>4. /\ StateTyped(stream') /\ stream'.tt = "U32" /\ stream'.currentOffset = stream.currentOffset
      /\ stream'.dictSize <= Len(dict') /\ stream.currentOffset \in Nat
  BY <1>1, <1>2, <1>3, Saved
<1>5. EncoderInv'
  BY <1>1, CallRests DEF FrameInv
<1>6. FrameTyped'
  <2>1. blocks' \in 0..MaxBlocks
    BY <1>1, <1>2
  <2>2. QED  BY <1>1, <1>2, <1>3, <1>4, <2>1, Zenon DEF FrameTyped
<1>7. AtWork'
  BY <1>1, <1>2 DEF AtWork
<1>8. Takes(l)'
  <2>1. stream.currentOffset + 0 <= Window + blocks * l
    BY <1>2 DEF FrameInv, Takes
  <2>2. blocks * l <= (blocks + 1) * l /\ blocks * l \in Nat
    BY <1>1, <1>2, OneMore
  <2>3. stream.currentOffset + 0 <= Window + (blocks + 1) * l
    <3> DEFINE a == blocks * l
               b == (blocks + 1) * l
    <3>1. b \in Nat
      BY <1>2
    <3>2. stream.currentOffset + 0 <= Window + a /\ a <= b /\ a \in Nat
      BY <2>1, <2>2
    <3> HIDE DEF a, b
    <3>3. stream.currentOffset + 0 <= Window + b
      BY <1>4, <3>1, <3>2, Numbers
    <3>4. QED  BY <3>3 DEF b
  <2>4. QED  BY <1>1, <1>2, <1>4, <2>3 DEF Takes
<1>9. QED  BY <1>1, <1>5, <1>6, <1>7, <1>8 DEF FrameInv

LEMMA BlockMadeKeeps ==
  ASSUME HashAssumption, BlocksAssumption, NEW l, Longest(l), FrameInv(l), BlockMade
  PROVE  FrameInv(l)'
<1>1. /\ inBlock /\ pc \in {"done", "failed"} /\ dict' = Tail64(dict \o src)
      /\ heard' = Tail64(heard \o src) /\ stream' = SaveDict(st, Len(dict')) /\ past' = past
      /\ blocks' = blocks /\ UNCHANGED vars /\ inBlock' = FALSE
  BY DEF BlockMade, Retained
<1>2. /\ job.st = stream /\ job.content = dict /\ src \in Seq(Nat) /\ iend \in Nat /\ iend = Len(src)
      /\ startIndex = stream.currentOffset /\ tt = "U32"
  <2>1. Called(job) /\ job.st = stream /\ job.content = dict /\ stream.tt = "U32"
    BY <1>1 DEF FrameInv, EncoderInv, SizeInv, AtWork, FrameTyped
  <2>2. QED  BY <2>1, CallTyped DEF startIndex, tt, iend
<1>3. dict \in Seq(Nat) /\ heard \in Seq(Nat) /\ Len(dict) <= Window /\ Len(dict) \in Nat
      /\ stream.dictSize <= Len(dict) /\ stream.currentOffset \in Nat /\ stream.dictSize \in Nat
  <2>1. stream.currentOffset \in Nat /\ stream.dictSize \in Nat
    BY DEF FrameInv, FrameTyped, StateTyped
  <2>2. QED  BY <2>1 DEF FrameInv, FrameTyped
<1>4. /\ StateTyped(st) /\ st.tt = "U32" /\ st.currentOffset = stream.currentOffset + iend
      /\ st.dictSize = stream.dictSize + iend
  BY <1>1, <1>2 DEF FrameInv, EncoderInv, Moved, Carried
<1>5. /\ dict' \in Seq(Nat) /\ heard' \in Seq(Nat) /\ Len(dict') \in Nat /\ Len(dict') <= Window
      /\ Len(dict') = Smaller(Len(dict \o src), Window) /\ Len(dict \o src) = Len(dict) + iend
  BY <1>1, <1>2, <1>3, WindowMoves
<1>6. /\ StateTyped(stream') /\ stream'.tt = "U32" /\ stream'.currentOffset = st.currentOffset
      /\ stream'.dictSize <= Len(dict') /\ stream'.table = st.table /\ st.table \in Tables
      /\ stream'.dictSize = Smaller(Len(dict'), st.dictSize)
  BY <1>1, <1>4, <1>5, Saved
<1>7. EncoderInv'
  BY <1>1, CallRests DEF FrameInv
<1>8. FrameTyped'
  BY <1>1, <1>5, <1>6, Zenon DEF FrameInv, FrameTyped
<1>9. AtWork'
  BY <1>1 DEF AtWork
<1>10. Takes(l)'
  <2>1. stream.currentOffset + iend <= Window + blocks * l
    BY <1>1 DEF FrameInv, Takes
  <2>2. stream'.currentOffset + 0 <= Window + blocks * l
    <3> DEFINE a == blocks * l
    <3>1. stream.currentOffset + iend <= Window + a
      BY <2>1
    <3> HIDE DEF a
    <3>2. stream'.currentOffset + 0 <= Window + a
      BY <1>2, <1>3, <1>4, <1>6, <3>1
    <3>3. QED  BY <3>2 DEF a
  <2>3. QED  BY <1>1, <2>2 DEF Takes
<1>11. ASSUME ~past' PROVE Knowing'
  <2>1. Told /\ Primed(job) /\ HistoryWhole
    BY <1>1, <1>11 DEF FrameInv, Knowing
  <2>2. Primed(job)' /\ HistoryWhole'
    BY <1>1, <2>1, Zenon DEF Primed, Truly, HistoryWhole, HistoryOf, HistoryLength, vars
  <2>3. \E e : EndsAt(dict', e, heard')
    <3>1. \E e : EndsAt(Tail64(dict \o src), e, Tail64(heard \o src))
      BY <1>2, <1>3, <2>1, WindowsMove DEF Told
    <3>2. QED  BY <1>1, <3>1
  <2>4. stream'.dictSize = Len(dict')
    <3>1. st.dictSize = Len(dict) + iend
      BY <1>4, <2>1 DEF Told
    <3> DEFINE a == Len(dict)
               b == Len(dict')
               e == stream'.dictSize
               x == Len(dict \o src)
    <3>2. /\ a \in Nat /\ b \in Nat /\ iend \in Nat /\ b = Smaller(x, Window) /\ x = a + iend
          /\ e = Smaller(b, a + iend) /\ Window \in Nat
      BY <1>2, <1>3, <1>5, <1>6, <3>1, Numbers
    <3> HIDE DEF a, b, e, x
    <3>3. e = b
      BY <3>2 DEF Smaller
    <3>4. QED  BY <3>3 DEF b, e
  <2>5. Truly(stream'.table, stream'.currentOffset - Len(dict'), dict', "U32")
    <3>1. Truly(st.table, PastBase, dict \o src, tt)
      <4>1. job.st.dictSize = Len(job.content)
        BY <1>2, <2>1 DEF Told
      <4>2. Truly(st.table, PastBase, job.content \o src, tt)
        BY <1>1, <2>1, <4>1, TrulyJoined DEF FrameInv
      <4>3. QED  BY <1>2, <4>2
    <3>2. PastBase = stream.currentOffset - Len(dict) /\ PastBase \in Nat
      <4>1. PastBase \in Nat /\ PastBase = startIndex - job.st.dictSize
        BY PastTyped DEF FrameInv, EncoderInv, SizeInv, PastBase
      <4>2. QED  BY <1>2, <2>1, <4>1 DEF Told
    <3> DEFINE d == Larger(0, Len(dict \o src) - Window)
               c == stream'.currentOffset - Len(dict')
    <3>3. EndsAt(dict', d, dict \o src)
      BY <1>1, <1>2, <1>3, WindowMoves
    <3>4. c = PastBase + d
      <4> DEFINE a == Len(dict)
                 b == Len(dict')
                 o == stream.currentOffset
                 e == stream'.currentOffset
                 x == Len(dict \o src)
      <4>1. /\ a \in Nat /\ b \in Nat /\ iend \in Nat /\ b = Smaller(x, Window) /\ x = a + iend
            /\ d = Larger(0, x - Window) /\ Window \in Nat
            /\ o \in Nat /\ e = o + iend /\ c = e - b /\ PastBase = o - a
        BY <1>2, <1>3, <1>4, <1>5, <1>6, <3>2, Numbers
      <4> HIDE DEF a, b, c, d, e, o, x
      <4>2. d = a + iend - b
        BY <4>1 DEF Larger, Smaller
      <4>3. QED  BY <4>1, <4>2
    <3> HIDE DEF c, d
    <3>5. Truly(st.table, c, dict', tt)
      BY <1>6, <3>1, <3>2, <3>3, <3>4, TrulyEnd
    <3>6. QED  BY <1>2, <1>6, <3>5 DEF c
  <2>6. QED  BY <2>2, <2>3, <2>4, <2>5 DEF Knowing, Told
<1>12. QED  BY <1>7, <1>8, <1>9, <1>10, <1>11 DEF FrameInv

(* A frame begins.                                                         *)
LEMMA FrameBegins ==
  ASSUME HashAssumption, BlocksAssumption, NEW l, Longest(l), FrameInit
  PROVE  FrameInv(l)
<1>1. PICK d \in FrameDicts, slow \in BOOLEAN :
        LET s == IF d = <<>> THEN [New EXCEPT !.tt = "U32"] ELSE LoadDict(d, slow)
        IN  /\ stream = s /\ dict = SubSeq(d, Len(d) - s.dictSize + 1, Len(d))
            /\ heard = Tail64(d)
  BY Zenon DEF FrameInit
<1>2. inBlock = FALSE /\ past = FALSE /\ blocks = 0 /\ Resting
  BY DEF FrameInit
<1>3. d \in Seq(Nat) /\ Len(d) \in Nat /\ HASH_UNIT <= Window /\ MaxBlocks \in Nat /\ l \in Nat
      /\ Window \in Nat
  BY Numbers DEF BlocksAssumption, Longest
<1>4. EncoderInv /\ Primed(job)
  BY <1>2, NothingYet
<1>5. HistoryWhole
  <2>1. job.content = <<>>
    BY <1>2 DEF Resting, CompressFast, Job
  <2>2. HistoryLength(job) = 0
    <3>1. HistoryLength(job) \in Nat /\ HistoryLength(job) <= Len(job.content)
      BY <1>4, CallTyped DEF EncoderInv, SizeInv
    <3>2. Len(job.content) = 0
      BY <2>1
    <3>3. QED  BY <3>1, <3>2
  <2>3. Len(SubSeq(<<>>, 1, 0)) = 0
    OBVIOUS
  <2>4. QED  BY <2>1, <2>2, <2>3 DEF HistoryWhole, HistoryOf
<1>6. /\ EndsAt(Tail64(d), Larger(0, Len(d) - Window), d)
      /\ Len(Tail64(d)) = Smaller(Len(d), Window) /\ Tail64(d) \in Seq(Nat)
  <2>1. /\ EndsAt(Tail64(d), Larger(0, Len(d) - Window), d)
        /\ Len(Tail64(d)) = Smaller(Len(d), Window)
    BY <1>3, TailEnds
  <2>2. QED  BY <2>1, EndsMeans
<1>7. /\ dict \in Seq(Nat) /\ Len(dict) <= Window /\ StateTyped(stream) /\ stream.tt = "U32"
      /\ stream.currentOffset <= Window /\ Told
  <2>1. CASE d = <<>>
    <3>1. /\ stream = [table |-> Zeros, currentOffset |-> 0, dictSize |-> 0, tt |-> "U32",
                       dictionary |-> 0, dictCtx |-> None]
          /\ dict = SubSeq(<<>>, Len(<<>>) - 0 + 1, Len(<<>>)) /\ heard = Tail64(d)
      BY <1>1, <2>1 DEF New
    <3>2. dict = <<>> /\ Len(dict) = 0 /\ dict \in Seq(Nat)
      <4>1. Len(<<>>) = 0 /\ Len(<<>>) - 0 + 1 > Len(<<>>)
        OBVIOUS
      <4>2. QED  BY <3>1, <4>1
    <3>3. /\ stream.table = Zeros /\ Zeros \in Tables /\ stream.currentOffset = 0
          /\ stream.dictSize = 0 /\ stream.tt = "U32" /\ \A h \in 0..(HashSize - 1) : Zeros[h] = 0
      BY <3>1 DEF Zeros, Tables
    <3>4. StateTyped(stream)
      <4>1. Seen(stream)
        BY <3>3 DEF Seen, Larger, Tables
      <4>2. QED  BY <3>1, <3>3, <4>1 DEF StateTyped
    <3>5. EndsAt(dict, Len(heard), heard)
      <4>1. heard \in Seq(Nat) /\ Len(heard) \in Nat
        BY <1>6, <3>1
      <4>2. Len(heard) = Len(heard) + Len(dict) /\ \A k \in 1..Len(dict) : FALSE
        BY <3>2, <4>1
      <4>3. QED  BY <3>2, <4>1, <4>2 DEF EndsAt
    <3>6. Truly(stream.table, stream.currentOffset - Len(dict), dict, "U32")
      BY <3>3 DEF Truly, Tables
    <3>7. Told
      BY <3>2, <3>3, <3>5, <3>6 DEF Told
    <3>8. QED  BY <1>3, <3>2, <3>3, <3>4, <3>7
  <2>2. CASE d # <<>>
    <3>1. PICK table, e : /\ e \in Seq(Nat) /\ Len(e) <= Window /\ Len(e) <= Len(d)
                          /\ Loaded(table, e) /\ LoadDict(d, slow) = After(table, Len(e))
                          /\ e = SubSeq(d, Len(d) - Len(e) + 1, Len(d))
      BY <1>3, LoadDictIs
    <3>2. stream = After(table, Len(e))
      BY <1>1, <2>2, <3>1
    <3>3. stream.dictSize = Len(e) /\ stream.tt = "U32" /\ stream.table = table
          /\ stream.currentOffset = Window
      BY <3>2 DEF After
    <3>4. dict = e /\ heard = Tail64(d)
      BY <1>1, <2>2, <3>1, <3>2, <3>3, Zenon
    <3>5. StateTyped(stream) /\ Truly(table, Window - Len(e), e, "U32")
      BY <3>1, <3>2, AfterTyped
    <3> DEFINE n == Len(e)
               a == Len(d)
               o == a - n
    <3>6. n \in Nat /\ a \in Nat /\ o \in Nat /\ o + n = a /\ n <= Window /\ n <= a /\ o <= a
      BY <1>3, <3>1
    <3>7. EndsAt(e, o, d)
      <4>1. e = SubSeq(d, o + 1, a) /\ a = Len(d) /\ n = Len(e)
        BY <3>1
      <4> HIDE DEF a, n, o
      <4>2. /\ SubSeq(d, o + 1, a) \in Seq(Nat) /\ Len(SubSeq(d, o + 1, a)) = a - o
            /\ \A k \in 1..(a - o) : SubSeq(d, o + 1, a)[k] = d[o + k]
        <5>1. d \in Seq(Nat) /\ o \in Nat /\ a \in Nat /\ o <= a /\ a <= Len(d)
          BY <1>3, <3>6, <4>1
        <5>2. QED  BY <5>1, Slice
      <4>3. a - o = n
        BY <3>6
      <4>4. \A k \in 1..n : e[k] = d[o + k]
        BY <4>1, <4>2, <4>3
      <4>5. QED  BY <1>3, <3>1, <3>6, <4>1, <4>4, Zenon DEF EndsAt
    <3>8. \E k : EndsAt(dict, k, heard)
      <4> DEFINE x == Larger(0, a - Window)
                 t == Tail64(d)
      <4>1. EndsAt(t, x, d) /\ Len(t) = Smaller(a, Window)
        BY <1>6
      <4> HIDE DEF x, t
      <4>2. Len(e) <= Len(t)
        <5>1. n <= Len(t)
          <6> HIDE DEF n, a
          <6>1. QED  BY <1>3, <3>6, <4>1 DEF Smaller
        <5>2. QED  BY <5>1
      <4> HIDE DEF n, a, o
      <4>3. EndsAt(e, o - x, t)
        BY <3>7, <4>1, <4>2, EndsWithin
      <4>4. QED  BY <3>4, <4>3 DEF t
    <3>9. Told
      BY <3>3, <3>4, <3>5, <3>8 DEF Told
    <3>10. QED  BY <1>3, <3>1, <3>3, <3>4, <3>5, <3>9
  <2>3. QED  BY <2>1, <2>2
<1>8. FrameTyped
  <2>1. heard \in Seq(Nat)
    BY <1>1, <1>6
  <2>2. stream.dictSize <= Len(dict)
    BY <1>7 DEF Told
  <2>3. blocks \in 0..MaxBlocks
    BY <1>2, <1>3
  <2>4. QED  BY <1>2, <1>7, <2>1, <2>2, <2>3, Zenon DEF FrameTyped
<1>9. AtWork
  BY <1>2 DEF AtWork
<1>10. Takes(l)
  <2>1. blocks * l = 0
    BY <1>2, <1>3
  <2>2. stream.currentOffset \in Nat
    BY <1>7 DEF StateTyped
  <2>3. QED  BY <1>2, <1>3, <1>7, <2>1, <2>2 DEF Takes
<1>11. QED  BY <1>4, <1>5, <1>7, <1>8, <1>9, <1>10 DEF FrameInv, Knowing

LEMMA FrameGoesOn ==
  ASSUME HashAssumption, BlocksAssumption, NEW l, Longest(l), FrameInv(l), [FrameNext]_allVars
  PROVE  FrameInv(l)'
<1>1. ASSUME NEW w \in Words, MakeBlock(w) PROVE FrameInv(l)'
  BY <1>1, MakeBlockKeeps
<1>2. ASSUME NEW w \in Words, StoreBlock(w) PROVE FrameInv(l)'
  BY <1>2, StoreBlockKeeps
<1>3. CASE Compress
  BY <1>3, CompressKeeps
<1>4. CASE BlockMade
  BY <1>4, BlockMadeKeeps
<1>5. CASE UNCHANGED allVars
  <2>1. UNCHANGED vars /\ UNCHANGED frameVars
    BY <1>5 DEF allVars
  <2>2. EncoderInv' /\ job' = job
    BY <2>1, CallRests DEF FrameInv
  <2>3. QED  BY <2>1, <2>2, SameFrame
<1>6. QED  BY <1>1, <1>2, <1>3, <1>4, <1>5 DEF FrameNext, FrameEnds

LEMMA FrameMeans ==
  ASSUME NEW l, FrameInv(l)
  PROVE  /\ RoundTrip /\ InRoom /\ Succeeds /\ NothingAhead
         /\ (~past => BlocksFit /\ TableHonest) /\ LinkedDecodable
<1>1. /\ Called(job) /\ InRoom /\ Succeeds /\ NothingAhead /\ RoundTrip
      /\ (HistoryWhole => BlocksFit) /\ (Primed(job) => TableHonest)
  BY Encoded DEF FrameInv
<1>2. ~past => BlocksFit /\ TableHonest
  BY <1>1 DEF FrameInv, Knowing
<1>3. ASSUME ~past, inBlock, pc = "done"
      PROVE  Reaches(heard, Block) /\ Content(heard, Block) = src
  <2>1. Told /\ HistoryWhole /\ job.st = stream /\ job.content = dict /\ job.directive = "prefix"
        /\ ~job.fill /\ dict \in Seq(Nat)
    BY <1>3 DEF FrameInv, Knowing, AtWork, FrameTyped
  <2>2. HistoryOf(job) = dict
    <3>1. HistoryLength(job) = Len(dict)
      BY <2>1 DEF HistoryLength, Told
    <3>2. SubSeq(dict, 1, Len(dict)) = dict
      BY <2>1
    <3>3. QED  BY <2>1, <3>1, <3>2 DEF HistoryOf
  <2>3. Consumed = iend /\ src \in Seq(Nat) /\ iend = Len(src)
    BY <1>1, <2>1, CallTyped DEF Consumed, iend
  <2>4. SubSeq(src, 1, iend) = src
    BY <2>3
  <2>5. Reaches(dict, Block) /\ Content(dict, Block) = src
    BY <1>1, <1>3, <2>1, <2>2, <2>3, <2>4, Zenon DEF RoundTrip
  <2>6. PICK d : EndsAt(dict, d, heard)
    BY <2>1 DEF Told
  <2>7. Block.seqs \in Seq(SequenceSet) /\ Block.last \in Seq(Nat)
    <3>1. Sound
      BY <2>1 DEF FrameInv, EncoderInv, Inv
    <3>2. seqs \in Seq(SequenceSet)
      BY <3>1 DEF Sound, Written
    <3>3. last \in Seq(Nat)
      BY <1>3, <3>1 DEF Sound, Ending
    <3>4. QED  BY <3>2, <3>3 DEF Block
  <2> DEFINE b == Block
  <2>8. b.seqs \in Seq(SequenceSet) /\ b.last \in Seq(Nat) /\ Reaches(dict, b)
    BY <2>5, <2>7
  <2> HIDE DEF b
  <2>9. Reaches(heard, b) /\ Content(heard, b) = Content(dict, b)
    BY <2>6, <2>8, MoreHistory
  <2>10. QED  BY <2>5, <2>9 DEF b
<1>4. LinkedDecodable
  BY <1>3 DEF LinkedDecodable, FrameDecodable
<1>5. QED  BY <1>1, <1>2, <1>4

LEMMA SomeLongest ==
  ASSUME BlocksAssumption, ShorterThanIndex
  PROVE  \E l : Longest(l)
<1>1. PICK l \in {Len(w) : w \in Words} :
        /\ \A w \in Words : Len(w) <= l
        /\ Window + MaxBlocks * l < Wrap
  BY DEF ShorterThanIndex
<1>2. l \in Nat
  BY <1>1 DEF BlocksAssumption
<1>3. QED  BY <1>1, <1>2 DEF Longest

(* Every block of a frame of linked blocks fits its room, is compressed    *)
(* with a table that speaks of no byte it was not made from, and decodes   *)
(* after the window that a decoder of the frame has, which is longer than  *)
(* the compressor's: as long as all the blocks went through the codec, and *)
(* all that did comes to less than an index is wide (src/frame.rs 512-636, *)
(* src/block.rs 430-489, 1383-1430).                                       *)
THEOREM LinkedBlocksDecode ==
  ASSUME HashAssumption, BlocksAssumption, ShorterThanIndex
  PROVE  FrameSpec => [](/\ RoundTrip /\ InRoom /\ Succeeds /\ NothingAhead
                         /\ (~past => BlocksFit /\ TableHonest) /\ LinkedDecodable)
<1> PICK l : Longest(l)
  BY SomeLongest
<1>1. FrameInit => FrameInv(l)
  BY FrameBegins
<1>2. FrameInv(l) /\ [FrameNext]_allVars => FrameInv(l)'
  BY FrameGoesOn
<1>3. FrameInv(l) => /\ RoundTrip /\ InRoom /\ Succeeds /\ NothingAhead
                     /\ (~past => BlocksFit /\ TableHonest) /\ LinkedDecodable
  BY FrameMeans
<1>4. QED  BY <1>1, <1>2, <1>3, PTL DEF FrameSpec

-----------------------------------------------------------------------------
(* What an input puts in the table stays in it.                            *)
Holds(table, p) == p + MFLIMIT <= iend => table[HashPosition(src, p, tt)] >= startIndex
Recalls == pc # "begin" /\ iend >= MinLength => Holds(st.table, 0) /\ Holds(st.table, anchor)

LEMMA PutHolds ==
  ASSUME Called(job), HashAssumption, NEW table \in Tables, NEW q \in Nat, q + MFLIMIT <= iend,
         NEW t, t = Put(table, tt, HashPosition(src, q, tt), IndexOf(q))
  PROVE  t \in Tables /\ Holds(t, q) /\ \A p \in Nat : Holds(table, p) => Holds(t, p)
<1> DEFINE h == HashPosition(src, q, tt)
<1>1. /\ iend \in Nat /\ startIndex \in Nat /\ startIndex + q >= startIndex
      /\ q + HASH_UNIT <= iend /\ q <= iend
  BY CallTyped DEF MFLIMIT, HASH_UNIT
<1>2. h \in 0..(HashSize - 1) /\ IndexOf(q) = startIndex + q
  BY <1>1, Hashed, Index
<1> HIDE DEF h
<1>3. t = Put(table, tt, h, startIndex + q)
  BY <1>2 DEF h
<1>4. /\ t \in Tables
      /\ \A g \in 0..(HashSize - 1) : t[g] = IF g = h THEN startIndex + q ELSE table[g]
  BY <1>2, <1>3, PutTyped
<1>5. ASSUME NEW p \in Nat, Holds(table, p), p + MFLIMIT <= iend
      PROVE  t[HashPosition(src, p, tt)] >= startIndex
  <2> DEFINE g == HashPosition(src, p, tt)
  <2>1. p + HASH_UNIT <= iend
    BY <1>1, <1>5 DEF MFLIMIT, HASH_UNIT
  <2>2. g \in 0..(HashSize - 1) /\ table[g] >= startIndex
    BY <1>5, <2>1, Hashed DEF Holds
  <2> HIDE DEF g
  <2>3. t[g] >= startIndex
    BY <1>1, <1>4, <2>2
  <2>4. QED  BY <2>3 DEF g
<1>6. Holds(t, q)
  BY <1>1, <1>2, <1>4 DEF Holds, h
<1>7. QED  BY <1>4, <1>5, <1>6 DEF Holds

LEMMA SameHolds ==
  ASSUME job' = job
  PROVE  \A table, p : Holds(table, p)' <=> Holds(table, p)
BY SameCall DEF Holds

LEMMA StepRecalls ==
  ASSUME SizeInv, Moved, ~job.fill, Recalls, HashAssumption, Step
  PROVE  Recalls'
<1>1. Called(job) /\ (pc # "begin" => st.table \in Tables) /\ job' = job
  BY JobKept DEF SizeInv, Moved, Table, Next
<1>2. /\ src' = src /\ iend' = iend /\ startIndex' = startIndex /\ tt' = tt
  BY <1>1, SameCall
<1>3. SUFFICES ASSUME iend >= MinLength
               PROVE  \A p \in {0, anchor'} : p + MFLIMIT <= iend =>
                        st'.table[HashPosition(src, p, tt)] >= startIndex
  BY <1>2 DEF Recalls, Holds
<1>4. iend \in Nat /\ iend >= 13
  BY <1>1, <1>3, CallTyped DEF MinLength, MFLIMIT
<1>5. ASSUME NEW t, st'.table = t, Holds(t, 0), Holds(t, anchor')
      PROVE  \A p \in {0, anchor'} : p + MFLIMIT <= iend =>
               st'.table[HashPosition(src, p, tt)] >= startIndex
  BY <1>5 DEF Holds
<1>6. CASE Empty
  BY <1>4, <1>6 DEF Empty
<1>7. CASE Begin
  <2> DEFINE t == Put(st.table, tt, HashPosition(src, 0, tt), IndexOf(0))
  <2>1. /\ pc = "begin" /\ st = job.st /\ StateTyped(st) /\ st.table \in Tables
    BY <1>1, <1>7 DEF Begin, Moved, Called, StateTyped
  <2>2. anchor = 0 /\ anchor' = anchor
    BY <1>7, <2>1 DEF Begin, SizeInv, Sized, Untouched
  <2>3. IndexOf(0) = startIndex
    <3>1. IndexOf(0) = startIndex + 0 /\ startIndex \in Nat
      BY <1>1, <1>4, Index, CallTyped
    <3>2. QED  BY <3>1
  <2>4. Advanced(st).table = st.table
    BY <2>1 DEF Advanced, StateTyped
  <2>5. st' = [Advanced(st) EXCEPT !.table = Put(Advanced(st).table, tt, HashPosition(src, 0, tt), startIndex)]
    <3>1. ~(iend < MinLength)
      BY <1>3, <1>4 DEF MinLength, MFLIMIT
    <3>2. QED  BY <1>7, <3>1 DEF Begin
  <2>6. st'.table = t
    <3>1. st' = [Advanced(st) EXCEPT !.table = t]
      BY <2>3, <2>4, <2>5
    <3> HIDE DEF t
    <3>2. QED  BY <2>1, <3>1 DEF Advanced, StateTyped
  <2>7. Holds(t, 0)
    <3>1. 0 \in Nat /\ 0 + MFLIMIT <= iend
      BY <1>4 DEF MFLIMIT
    <3>2. QED  BY <1>1, <2>1, <3>1, PutHolds
  <2> HIDE DEF t
  <2>8. QED  BY <1>5, <2>2, <2>6, <2>7
<1>8. CASE Search
  <2> DEFINE t == Put(st.table, tt, HashPosition(src, fwd.ip, tt), IndexOf(fwd.ip))
  <2>1. /\ pc = "search" /\ fwd.ip + fwd.step <= mflimitPlusOne
        /\ st' = [st EXCEPT !.table = t] /\ anchor' = anchor
    BY <1>8 DEF Search
  <2>2. /\ fwd.ip \in Nat /\ fwd.step \in Nat \ {0} /\ StateTyped(st) /\ anchor \in Nat
    BY <1>4, <2>1 DEF SizeInv, Sized, Paid, Probing, Moved, Carried
  <2>3. fwd.ip + MFLIMIT <= iend
    BY <1>4, <2>1, <2>2 DEF mflimitPlusOne, MFLIMIT
  <2>4. Holds(st.table, 0) /\ Holds(st.table, anchor) /\ st.table \in Tables
    BY <1>1, <1>3, <2>1 DEF Recalls
  <2>5. Holds(t, 0) /\ Holds(t, anchor)
    BY <1>1, <2>2, <2>3, <2>4, PutHolds
  <2> HIDE DEF t
  <2>6. st'.table = t
    BY <2>1, <2>2 DEF StateTyped
  <2>7. QED  BY <1>5, <2>1, <2>5, <2>6
<1>9. CASE EncodeMatch
  <2> DEFINE n    == MatchCodeWritten(MatchCode)
             end  == MatchEnd(n)
             k    == HashPosition(src, end - 2, tt)
             h    == HashPosition(src, end, tt)
             held == FillTable(st.table, end)
             t    == Put(held, tt, h, IndexOf(end))
  <2>1. /\ pc = "match" /\ ~NoRoomForLength(MatchCode) /\ anchor' = end
        /\ \/ end >= mflimitPlusOne /\ st' = [st EXCEPT !.table = st.table]
           \/ ~(end >= mflimitPlusOne) /\ st' = [st EXCEPT !.table = t]
    BY <1>9, Zenon DEF EncodeMatch
  <2>2. /\ m \in Hands /\ ip \in Nat /\ ip + MFLIMIT <= iend /\ StateTyped(st)
        /\ anchor \in Nat
    BY <1>4, <2>1 DEF SizeInv, Sized, Paid, Opened, Moved, Carried
  <2>3. n \in Nat
    <3>1. n = MatchCode
      BY <2>1 DEF MatchCodeWritten
    <3>2. QED  BY <1>1, <2>2, <3>1, MatchCodeFits
  <2> HIDE DEF n
  <2>4. end = ip + 4 + n /\ end \in Nat /\ end >= 4
    BY <2>2, <2>3 DEF MatchEnd, MINMATCH
  <2> HIDE DEF end
  <2>5. Holds(st.table, 0) /\ st.table \in Tables
    BY <1>1, <1>3, <2>1 DEF Recalls
  <2>6. CASE end >= mflimitPlusOne /\ st' = [st EXCEPT !.table = st.table]
    <3>1. st'.table = st.table
      BY <2>2, <2>6 DEF StateTyped
    <3>2. ~(end + MFLIMIT <= iend)
      BY <1>4, <2>4, <2>6 DEF mflimitPlusOne, MFLIMIT
    <3>3. QED  BY <1>5, <2>1, <2>5, <3>1, <3>2 DEF Holds
  <2>7. CASE ~(end >= mflimitPlusOne) /\ st' = [st EXCEPT !.table = t]
    <3>1. /\ end + MFLIMIT <= iend /\ end - 2 \in Nat /\ (end - 2) + MFLIMIT <= iend
      BY <1>4, <2>4, <2>7 DEF mflimitPlusOne, MFLIMIT
    <3> DEFINE q == end - 2
    <3>2. held = Put(st.table, tt, HashPosition(src, q, tt), IndexOf(q)) /\ q \in Nat
          /\ q + MFLIMIT <= iend
      BY <3>1 DEF FillTable
    <3> HIDE DEF q, held
    <3>3. held \in Tables /\ Holds(held, 0)
      BY <1>1, <2>5, <3>2, PutHolds
    <3>4. Holds(t, end) /\ Holds(t, 0)
      BY <1>1, <2>4, <3>1, <3>3, PutHolds
    <3> HIDE DEF t
    <3>5. st'.table = t
      BY <2>2, <2>7 DEF StateTyped
    <3>6. QED  BY <1>5, <2>1, <3>4, <3>5
  <2>8. QED  BY <2>1, <2>6, <2>7
<1>10. CASE SearchEnds \/ EncodeLiterals \/ NoRoomForMatch \/ LastLiterals
  <2>1. pc # "begin" /\ st' = st /\ anchor' = anchor
    BY <1>10 DEF SearchEnds, EncodeLiterals, NoRoomForMatch, LastLiterals, Stop
  <2>2. Holds(st.table, 0) /\ Holds(st.table, anchor)
    BY <1>3, <2>1 DEF Recalls
  <2>3. QED  BY <1>5, <2>1, <2>2
<1>11. QED  BY <1>6, <1>7, <1>8, <1>9, <1>10 DEF Step

-----------------------------------------------------------------------------
(* One state, call after call.                                             *)

KeptTyped == StateTyped(kept) /\ (kept.tt = "none" => kept.currentOffset = 0)
NoPast(j) == j.directive = "none" /\ j.st.dictSize = 0 /\ j.content = <<>> /\ ~j.fill
ReuseInv == EncoderInv /\ KeptTyped /\ NoPast(job) /\ Recalls

LEMMA NoPastMeans ==
  ASSUME Called(job), NoPast(job)
  PROVE  Primed(job) /\ HistoryWhole
<1>1. /\ job.st.dictSize = 0 /\ job.content = <<>> /\ HistoryLength(job) = 0
      /\ job.st.table \in Tables /\ job.st.currentOffset \in Nat
      /\ \A h \in 0..(HashSize - 1) : job.st.table[h] < Larger(1, job.st.currentOffset)
  BY Zenon DEF NoPast, HistoryLength, Called, StateTyped, Seen, Tables
<1>2. HistoryWhole
  <2>1. Len(SubSeq(<<>>, 1, 0)) = 0
    OBVIOUS
  <2>2. QED  BY <1>1, <2>1 DEF HistoryWhole, HistoryOf
<1>3. Primed(job)
  <2> DEFINE o == job.st.currentOffset
             table == job.st.table
  <2>1. ASSUME NEW h \in DOMAIN table, table[h] > 0, table[h] >= o PROVE FALSE
    <3> DEFINE e == table[h]
    <3>1. e \in Nat /\ o \in Nat /\ e < Larger(1, o) /\ e > 0 /\ e >= o
      BY <1>1, <2>1, Zenon DEF Tables
    <3> HIDE DEF e, o
    <3>2. QED  BY <3>1 DEF Larger
  <2>2. o - job.st.dictSize = o
    BY <1>1
  <2> HIDE DEF o, table
  <2>3. \A text : Truly(table, o, text, job.st.tt)
    BY <2>1 DEF Truly
  <2>4. QED  BY <2>2, <2>3 DEF Primed, o, table
<1>4. QED  BY <1>2, <1>3

(* A state that is prepared for an input has room for its indices.         *)
Fitting(o, n, type) == o \in Nat /\ o + n < Wrap /\ (type = "U16" => o + n < Window + MFLIMIT - 1)

LEMMA Cleared ==
  ASSUME KeptTyped, NEW n \in Nat, NEW type \in {"U16", "U32"}, NEW c,
         c = IF kept.tt # "none" /\ Stale(kept, n, type) THEN Clear(kept) ELSE kept
  PROVE  /\ c \in [table : Tables, currentOffset : Nat, dictSize : Nat, tt : {"none", "U16", "U32"},
                   dictionary : Nat, dictCtx : {c.dictCtx}]
         /\ Seen(c)
         /\ \/ c.currentOffset = 0
            \/ type = "U16" /\ c.currentOffset + n < Window - 1
            \/ type = "U32" /\ c.currentOffset <= Fast
<1>1. /\ kept \in [table : Tables, currentOffset : Nat, dictSize : Nat, tt : {"none", "U16", "U32"},
                   dictionary : Nat, dictCtx : {kept.dictCtx}]
      /\ Seen(kept) /\ (kept.tt = "none" => kept.currentOffset = 0)
  BY DEF KeptTyped, StateTyped
<1>2. CASE kept.tt # "none" /\ Stale(kept, n, type)
  <2>1. c = [kept EXCEPT !.table = Zeros, !.currentOffset = 0, !.tt = "none"]
    BY <1>2 DEF Clear
  <2>2. Zeros \in Tables /\ \A h \in DOMAIN Zeros : Zeros[h] = 0
    BY DEF Zeros, Tables
  <2>3. /\ c \in [table : Tables, currentOffset : Nat, dictSize : Nat, tt : {"none", "U16", "U32"},
                  dictionary : Nat, dictCtx : {c.dictCtx}]
        /\ c.table = Zeros /\ c.currentOffset = 0
    <3>1. c = [table |-> Zeros, currentOffset |-> 0, dictSize |-> kept.dictSize, tt |-> "none",
               dictionary |-> kept.dictionary, dictCtx |-> kept.dictCtx]
      BY <1>1, <2>1, Zenon
    <3>2. kept.dictSize \in Nat /\ kept.dictionary \in Nat
      BY <1>1
    <3> DEFINE d == kept.dictSize
               a == kept.dictionary
               x == kept.dictCtx
    <3>3. c = [table |-> Zeros, currentOffset |-> 0, dictSize |-> d, tt |-> "none",
               dictionary |-> a, dictCtx |-> x] /\ d \in Nat /\ a \in Nat
      BY <3>1, <3>2
    <3> HIDE DEF a, d, x
    <3>4. QED  BY <2>2, <3>3
  <2>4. Seen(c)
    BY <2>2, <2>3 DEF Seen, Larger
  <2>5. QED  BY <2>3, <2>4
<1>3. CASE kept.tt = "none"
  BY <1>1, <1>3
<1>4. CASE kept.tt # "none" /\ ~Stale(kept, n, type)
  <2>1. c = kept /\ kept.currentOffset \in Nat
    BY <1>1, <1>4
  <2>2. /\ type = "U16" => kept.currentOffset + n < Window - 1
        /\ type = "U32" => kept.currentOffset <= Fast
    <3> DEFINE o == kept.currentOffset
    <3>1. /\ ~(type = "U16" /\ o + n >= Window - 1)
          /\ ~(type = "U32" /\ o > Fast)
      BY <1>4 DEF Stale
    <3>2. o \in Nat /\ Window \in Nat /\ Fast \in Nat
      BY <2>1, SizesAssumption
    <3> HIDE DEF o
    <3>3. /\ type = "U16" => o + n < Window - 1
          /\ type = "U32" => o <= Fast
      BY <3>1, <3>2
    <3>4. QED  BY <3>3 DEF o
  <2>3. QED  BY <1>1, <2>1, <2>2
<1>5. QED  BY <1>2, <1>3, <1>4

ReadyFor(r, s, n, type) ==
  type = TableTypeFor(n) /\ s \in {Prepare(kept, n, type), New} /\ r = [s EXCEPT !.tt = type]

LEMMA Prepared ==
  ASSUME KeptTyped, NEW n \in Nat, Fast + Window + n < Wrap, NEW type, NEW s, NEW r,
         ReadyFor(r, s, n, type)
  PROVE  /\ StateTyped(r) /\ r.dictSize = 0 /\ r.tt = type /\ type \in {"U16", "U32"}
         /\ Fitting(r.currentOffset, n, type)
<1> USE DEF ReadyFor
<1>1. /\ Window \in Nat /\ Fast \in Nat /\ Wrap \in Nat /\ 0 < Window
      /\ type \in {"U16", "U32"} /\ (type = "U16" => n < Window + MFLIMIT - 1)
  BY SizesAssumption DEF TableTypeFor
<1>2. PICK table, o, dictCtx :
        /\ s = [table |-> table, currentOffset |-> o, dictSize |-> 0, tt |-> s.tt,
                dictionary |-> 0, dictCtx |-> dictCtx]
        /\ table \in Tables /\ (\A h \in DOMAIN table : table[h] < Larger(1, o))
        /\ Fitting(o, n, type)
  <2>1. CASE s = New
    <3>1. /\ s = [table |-> Zeros, currentOffset |-> 0, dictSize |-> 0, tt |-> s.tt,
                  dictionary |-> 0, dictCtx |-> None]
      BY <2>1 DEF New
    <3>2. Zeros \in Tables /\ \A h \in DOMAIN Zeros : Zeros[h] < Larger(1, 0)
      BY DEF Zeros, Tables, Larger
    <3>3. Fitting(0, n, type)
      BY <1>1 DEF Fitting
    <3>4. QED  BY <3>1, <3>2, <3>3
  <2>2. CASE s = Prepare(kept, n, type)
    <3> DEFINE c == IF kept.tt # "none" /\ Stale(kept, n, type) THEN Clear(kept) ELSE kept
               p == c.currentOffset
               o == IF p # 0 /\ type = "U32" THEN (p + Window) % Wrap ELSE p
    <3>1. /\ c \in [table : Tables, currentOffset : Nat, dictSize : Nat, tt : {"none", "U16", "U32"},
                    dictionary : Nat, dictCtx : {c.dictCtx}]
          /\ Seen(c)
          /\ \/ p = 0
             \/ type = "U16" /\ p + n < Window - 1
             \/ type = "U32" /\ p <= Fast
      <4> DEFINE q == IF kept.tt # "none" /\ Stale(kept, n, type) THEN Clear(kept) ELSE kept
      <4>1. q = IF kept.tt # "none" /\ Stale(kept, n, type) THEN Clear(kept) ELSE kept
        OBVIOUS
      <4> HIDE DEF q
      <4>2. /\ q \in [table : Tables, currentOffset : Nat, dictSize : Nat, tt : {"none", "U16", "U32"},
                      dictionary : Nat, dictCtx : {q.dictCtx}]
            /\ Seen(q)
            /\ \/ q.currentOffset = 0
               \/ type = "U16" /\ q.currentOffset + n < Window - 1
               \/ type = "U32" /\ q.currentOffset <= Fast
        BY <1>1, <4>1, Cleared
      <4>3. QED  BY <4>2 DEF q
    <3>2. s = [c EXCEPT !.currentOffset = o, !.dictionary = 0, !.dictCtx = None, !.dictSize = 0]
      BY <2>2 DEF Prepare
    <3> HIDE DEF c
    <3>3. p \in Nat
      BY <3>1
    <3>4. o \in Nat /\ o >= p /\ Fitting(o, n, type)
      <4>1. CASE p # 0 /\ type = "U32"
        <5> DEFINE x == p + Window
        <5>1. x \in Nat /\ x < Wrap /\ p <= x /\ x + n < Wrap
          BY <1>1, <3>1, <3>3, <4>1
        <5> HIDE DEF x
        <5>2. x % Wrap = x
          BY <5>1, Small
        <5>3. o = x
          BY <4>1, <5>2 DEF x
        <5>4. QED  BY <4>1, <5>1, <5>3 DEF Fitting
      <4>2. CASE ~(p # 0 /\ type = "U32")
        <5>1. o = p
          BY <4>2
        <5> HIDE DEF o, p
        <5>2. o = 0 \/ (type = "U16" /\ o + n < Window - 1)
          BY <1>1, <3>1, <4>2, <5>1
        <5>3. QED  BY <1>1, <3>3, <5>1, <5>2 DEF Fitting, MFLIMIT
      <4>3. QED  BY <4>1, <4>2
    <3> DEFINE table == c.table
    <3>5. table \in Tables /\ \A h \in DOMAIN table : table[h] < Larger(1, o)
      <4>1. table \in Tables /\ \A h \in DOMAIN table : table[h] < Larger(1, p)
        BY <3>1 DEF Seen
      <4> HIDE DEF table, o, p
      <4>2. ASSUME NEW h \in DOMAIN table PROVE table[h] < Larger(1, o)
        <5> DEFINE e == table[h]
        <5>1. e \in Nat /\ e < Larger(1, p)
          BY <4>1 DEF Tables
        <5> HIDE DEF e
        <5>2. e < Larger(1, o)
          BY <3>3, <3>4, <5>1 DEF Larger
        <5>3. QED  BY <5>2 DEF e
      <4>3. QED  BY <4>1, <4>2
    <3>6. s = [table |-> table, currentOffset |-> o, dictSize |-> 0, tt |-> s.tt,
               dictionary |-> 0, dictCtx |-> None]
      <4> HIDE DEF o, p
      <4>1. QED  BY <3>1, <3>2, Zenon
    <3> HIDE DEF table, o
    <3>7. QED  BY <3>4, <3>5, <3>6
  <2>3. QED  BY <2>1, <2>2
<1>3. r = [table |-> table, currentOffset |-> o, dictSize |-> 0, tt |-> type,
           dictionary |-> 0, dictCtx |-> dictCtx]
  BY <1>2
<1>4. /\ r.table = table /\ r.currentOffset = o /\ r.dictSize = 0 /\ r.tt = type
      /\ r.dictionary = 0 /\ r.dictCtx = dictCtx
  BY <1>3
<1>5. o \in Nat
  BY <1>2 DEF Fitting
<1>6. Seen(r)
  BY <1>2, <1>4 DEF Seen
<1>7. StateTyped(r)
  <2>1. r \in [table : Tables, currentOffset : Nat, dictSize : Nat, tt : {"none", "U16", "U32"},
               dictionary : Nat, dictCtx : {r.dictCtx}]
    BY <1>1, <1>2, <1>3, <1>4, <1>5
  <2>2. QED  BY <1>4, <1>5, <1>6, <2>1 DEF StateTyped
<1>8. QED  BY <1>1, <1>2, <1>4, <1>7

(* What a call is made with.                                               *)
LEMMA ExtStateCalled ==
  ASSUME KeptTyped, NEW s \in Seq(Nat), Fast + Window + Len(s) < Wrap, NEW room \in Nat,
         NEW fastReset \in BOOLEAN
  PROVE  LET j == CompressExtState(kept, s, room, 1, fastReset)
         IN  Called(j) /\ NoPast(j)
<1> DEFINE n == Len(s)
           type == TableTypeFor(n)
           q == IF fastReset THEN Prepare(kept, n, type) ELSE New
           r == [q EXCEPT !.tt = type]
           none == "none"
           small == FALSE
           limited == room < CompressBound(n)
           fill == FALSE
           c == <<>>
           j == CompressExtState(kept, s, room, 1, fastReset)
<1>1. n \in Nat /\ n = Len(s) /\ c \in Seq(Nat) /\ Len(c) = 0
  OBVIOUS
<1>2. /\ StateTyped(r) /\ r.dictSize = 0 /\ r.tt = type /\ type \in {"U16", "U32"}
      /\ Fitting(r.currentOffset, n, type)
  <2>1. ReadyFor(r, q, n, type)
    BY Zenon DEF ReadyFor
  <2>2. Fast + Window + n < Wrap
    OBVIOUS
  <2> HIDE DEF n, type, q, r
  <2>3. QED  BY <1>1, <2>1, <2>2, Prepared
<1>3. j = Job(r, s, room, c, none, small, limited, fill, 1, None)
  BY Zenon DEF CompressExtState
<1>4. {small, limited, fill} \subseteq BOOLEAN /\ none = "none"
  OBVIOUS
<1>5. CompressBound(n) \in Nat
  <2>1. n \div 255 \in Nat
    <3>1. n \in Nat /\ 255 \in Nat \ {0}
      BY <1>1
    <3> HIDE DEF n
    <3>2. QED  BY <3>1, DivMod
  <2> HIDE DEF n
  <2>2. QED  BY <1>1, <2>1 DEF CompressBound
<1>6. ~limited => room >= CompressBound(n)
  <2> DEFINE b == CompressBound(n)
  <2>1. b \in Nat /\ (limited <=> room < b)
    BY <1>5
  <2> HIDE DEF b, limited, n
  <2>2. ~limited => room >= b
    BY <2>1
  <2>3. QED  BY <2>2 DEF b
<1> HIDE DEF small, limited, fill, c, j, r, none
<1>7. /\ j.st = r /\ j.src = s /\ j.room = room /\ j.content = c /\ j.directive = none
      /\ j.small = small /\ j.limited = limited /\ j.fill = fill /\ j.acc = 1
  BY <1>3, JobIs
<1>8. {j.small, j.limited, j.fill} \subseteq BOOLEAN
  BY <1>4, <1>7
<1>9. ~j.fill
  BY <1>7, Zenon DEF fill
<1>10. ~j.limited => j.room >= CompressBound(Len(j.src))
  <2>1. ~j.limited => ~limited
    BY <1>7, Zenon
  <2>2. QED  BY <1>6, <1>7, <2>1
<1>11. /\ j.src \in Seq(Nat) /\ j.content \in Seq(Nat) /\ j.room \in Nat /\ j.acc \in Nat \ {0}
       /\ StateTyped(j.st) /\ j.st.tt \in {"U16", "U32"} /\ j.directive = "none"
       /\ j.st.dictSize = 0 /\ Len(j.content) = 0
  BY <1>1, <1>2, <1>4, <1>7
<1>12. /\ j.st.currentOffset + Len(j.src) < Wrap
       /\ j.st.tt = "U16" => j.st.currentOffset + Len(j.src) < Window + MFLIMIT - 1
  BY <1>1, <1>2, <1>7 DEF Fitting
<1>13. HistoryLength(j) <= Len(j.content)
  BY <1>11 DEF HistoryLength
<1>14. Called(j)
  BY <1>8, <1>9, <1>10, <1>11, <1>12, <1>13 DEF Called
<1>15. NoPast(j)
  BY <1>7, <1>9, <1>11 DEF NoPast, c
<1>16. QED  BY <1>14, <1>15 DEF j

LEMMA UseStateKeeps ==
  ASSUME InputsAssumption, ReuseInv, NEW s \in Inputs, NEW fastReset \in BOOLEAN, NEW room \in Nat,
         UseState(s, room, fastReset)
  PROVE  ReuseInv'
<1> DEFINE j == CompressExtState(kept, s, room, 1, fastReset)
<1>1. Start(j) /\ kept' = kept
  BY DEF UseState
<1>2. Called(j) /\ NoPast(j)
  BY ExtStateCalled DEF ReuseInv, InputsAssumption
<1> HIDE DEF j
<1>3. job' = j /\ Ready(job)' /\ Called(job)'
  <2>1. job' = j
    BY <1>1 DEF Start
  <2>2. Ready(job)'
    BY <1>1 DEF Start, Ready
  <2>3. QED  BY <1>2, <2>1, <2>2
<1>4. EncoderInv'
  BY <1>3, CallBegun
<1>5. KeptTyped'
  BY <1>1 DEF ReuseInv, KeptTyped
<1>6. NoPast(job)'
  BY <1>2, <1>3
<1>7. Recalls'
  BY <1>1 DEF Start, Recalls
<1>8. QED  BY <1>4, <1>5, <1>6, <1>7 DEF ReuseInv

LEMMA CompressedKeeps ==
  ASSUME HashAssumption, ReuseInv, Compressed
  PROVE  ReuseInv'
<1>1. Step /\ kept' = st'
  BY DEF Compressed
<1>2. EncoderInv' /\ job' = job
  BY <1>1, CallGoesOn DEF ReuseInv
<1>3. Recalls'
  BY <1>1, StepRecalls DEF ReuseInv, EncoderInv, NoPast
<1>4. Called(job)' /\ Moved'
  BY <1>2 DEF EncoderInv, SizeInv
<1>5. StateTyped(st') /\ st'.tt \in {"U16", "U32"}
  <2>1. StateTyped(job'.st) /\ job'.st.tt \in {"U16", "U32"}
    BY <1>4 DEF Called
  <2>2. QED  BY <1>4, <2>1 DEF Moved, Carried, tt
<1>6. KeptTyped'
  BY <1>1, <1>5 DEF KeptTyped
<1>7. NoPast(job)'
  BY <1>2 DEF ReuseInv, NoPast
<1>8. QED  BY <1>2, <1>3, <1>6, <1>7 DEF ReuseInv

LEMMA ReuseRests ==
  ASSUME HashAssumption, ReuseInv, UNCHANGED <<vars, reuseVars>>
  PROVE  ReuseInv'
<1>1. UNCHANGED vars /\ kept' = kept /\ st' = st /\ pc' = pc /\ anchor' = anchor
  BY DEF reuseVars, vars
<1>2. EncoderInv' /\ job' = job
  BY <1>1, CallRests DEF ReuseInv
<1>3. KeptTyped'
  BY <1>1 DEF ReuseInv, KeptTyped
<1>4. NoPast(job)'
  BY <1>2 DEF ReuseInv, NoPast
<1>5. Recalls'
  BY <1>1, <1>2, SameCall DEF ReuseInv, Recalls, Holds
<1>6. QED  BY <1>2, <1>3, <1>4, <1>5 DEF ReuseInv

LEMMA ReuseBegins ==
  ASSUME ReuseInit
  PROVE  ReuseInv
<1>1. Resting /\ kept = New
  BY DEF ReuseInit
<1>2. EncoderInv
  BY <1>1, NothingYet
<1>3. KeptTyped
  <2>1. Zeros \in Tables /\ \A h \in DOMAIN Zeros : Zeros[h] = 0
    BY DEF Zeros, Tables
  <2>2. kept = [table |-> Zeros, currentOffset |-> 0, dictSize |-> 0, tt |-> "none",
                dictionary |-> 0, dictCtx |-> None]
    BY <1>1 DEF New
  <2>3. kept.table = Zeros /\ kept.currentOffset = 0 /\ kept.dictSize = 0
    BY <2>2
  <2>4. Seen(kept)
    BY <2>1, <2>3 DEF Seen, Larger
  <2>5. StateTyped(kept)
    BY <2>1, <2>2, <2>3, <2>4 DEF StateTyped
  <2>6. QED  BY <2>3, <2>5 DEF KeptTyped
<1>4. NoPast(job)
  BY <1>1 DEF Resting, CompressFast, Job, NoPast, Fresh, New
<1>5. Recalls
  <2>1. src = <<>>
    BY <1>1 DEF Resting, CompressFast, Job, src
  <2>2. iend = 0
    BY <2>1 DEF iend
  <2>3. QED  BY <2>2 DEF Recalls, MinLength, MFLIMIT
<1>6. QED  BY <1>2, <1>3, <1>4, <1>5 DEF ReuseInv

LEMMA ReuseGoesOn ==
  ASSUME HashAssumption, InputsAssumption, ReuseInv, [ReuseNext]_<<vars, reuseVars>>
  PROVE  ReuseInv'
<1>1. ASSUME NEW s \in Inputs, NEW fastReset \in BOOLEAN, NEW enough \in BOOLEAN,
             UseState(s, IF enough THEN CompressBound(Len(s)) ELSE 8, fastReset)
      PROVE  ReuseInv'
  <2> DEFINE room == IF enough THEN CompressBound(Len(s)) ELSE 8
  <2>1. room \in Nat
    <3> DEFINE n == Len(s)
    <3>1. n \in Nat
      BY DEF InputsAssumption
    <3> HIDE DEF n
    <3>2. n \div 255 \in Nat
      BY <3>1, DivMod
    <3>3. CompressBound(n) \in Nat
      BY <3>1, <3>2 DEF CompressBound
    <3>4. QED  BY <3>3 DEF n
  <2>2. UseState(s, room, fastReset)
    BY <1>1
  <2> HIDE DEF room
  <2>3. QED  BY <2>1, <2>2, UseStateKeeps
<1>2. CASE Compressed
  BY <1>2, CompressedKeeps
<1>3. CASE UNCHANGED <<vars, reuseVars>>
  BY <1>3, ReuseRests
<1>4. QED  BY <1>1, <1>2, <1>3 DEF ReuseNext, UsedUp

LEMMA ReuseMeans ==
  ASSUME ReuseInv
  PROVE  RoundTrip /\ BlocksFit /\ TableHonest /\ NothingAhead /\ Remembered
<1>1. Called(job) /\ NoPast(job)
  BY DEF ReuseInv, EncoderInv, SizeInv
<1>2. Primed(job) /\ HistoryWhole
  BY <1>1, NoPastMeans
<1>3. RoundTrip /\ BlocksFit /\ TableHonest /\ NothingAhead
  BY <1>2, Encoded DEF ReuseInv
<1>4. Remembered
  <2> SUFFICES ASSUME pc # "begin", iend >= MinLength, NEW p \in {0, anchor}, p < mflimitPlusOne
               PROVE  st.table[HashPosition(src, p, tt)] >= startIndex
    BY DEF Remembered
  <2>1. Holds(st.table, p)
    BY DEF ReuseInv, Recalls
  <2>2. iend \in Nat /\ anchor \in Nat
    BY <1>1, CallTyped DEF ReuseInv, EncoderInv, SizeInv, Sized, Paid
  <2>3. p + MFLIMIT <= iend
    BY <2>2 DEF mflimitPlusOne, MFLIMIT
  <2>4. QED  BY <2>1, <2>3 DEF Holds
<1>5. QED  BY <1>3, <1>4

(* One state may be used for any number of inputs, reset or not, also      *)
(* after a call that failed: every block decodes by itself, fits its room, *)
(* and is compressed with a table whose entries of this input are found    *)
(* again and whose others are never believed (src/block.rs 563-583,        *)
(* 1490-1531).                                                             *)
THEOREM ReusedStatesCompress ==
  ASSUME HashAssumption, InputsAssumption
  PROVE  ReuseSpec => [](RoundTrip /\ BlocksFit /\ TableHonest /\ NothingAhead /\ Remembered)
<1>1. ReuseInit => ReuseInv
  BY ReuseBegins
<1>2. ReuseInv /\ [ReuseNext]_<<vars, reuseVars>> => ReuseInv'
  BY ReuseGoesOn
<1>3. ReuseInv => RoundTrip /\ BlocksFit /\ TableHonest /\ NothingAhead /\ Remembered
  BY ReuseMeans
<1>4. QED  BY <1>1, <1>2, <1>3, PTL DEF ReuseSpec
==============================================================================
