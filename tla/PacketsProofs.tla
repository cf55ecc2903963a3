--------------------------- MODULE PacketsProofs ---------------------------
(***************************************************************************)
(* Packets for any number and size of blocks: every block that was made is   *)
(* in one packet or free, a packet is the sequence of bytes that was         *)
(* written, and whole frames leave the server.  MemOK gives each packet the  *)
(* sequence of its blocks, and the free list one too; the i-th cell of a     *)
(* packet is in block K(i) at P(i).  First comes what each function of       *)
(* mblock.c does to this, then the functions of packet.c and the references  *)
(* of the queue, then the wire and the turns of write_data.                  *)
(***************************************************************************)
EXTENDS Packets, ListLemmas, FiniteSetTheorems, TLAPS

\* In which block of a packet a cell is, counted from 0, and where in this block.
K(i) == (Taken + i) \div BlockSize
P(i) == (Taken + i) % BlockSize

\* The constants.
LEMMA Sizes ==
    /\ NumBlocks \in Nat \ {0} /\ BlockSize \in Nat \ {0} /\ Taken \in 0 .. BlockSize - 1
    /\ MaxSends \in Nat /\ MaxSeq \in Nat \ {0} /\ KeyOffset \in Nat /\ Accepted \subseteq Nat
  BY PacketAssumption DEF PacketAssumption

\* The one fact of division that is needed.
LEMMA Quotient ==
    ASSUME NEW b \in Nat \ {0}, NEW q \in Nat, NEW r \in Nat, NEW s \in 0 .. b - 1, NEW t \in 0 .. b - 1,
           b * q + s <= b * r + t
    PROVE q <= r
  <1> SUFFICES ASSUME q >= r + 1 PROVE FALSE
    OBVIOUS
  <1>1. PICK d \in Nat : q = r + 1 + d
    <2>1. q - r - 1 \in Nat /\ q = r + 1 + (q - r - 1)
      OBVIOUS
    <2> QED
      BY <2>1
  <1>2. b * q = b * r + b + b * d
    BY <1>1
  <1>3. b * d >= 0
    OBVIOUS
  <1> QED
    BY <1>2, <1>3

\* Of the spots the proofs use no more than this: where they begin, how they go on,
\* and that no two are the same.
LEMMA Spots ==
    /\ K(0) = 0 /\ P(0) = Taken
    /\ \A i \in Nat : K(i) \in Nat /\ P(i) \in 0 .. BlockSize - 1
    /\ \A i \in Nat : IF P(i) + 1 = BlockSize THEN K(i + 1) = K(i) + 1 /\ P(i + 1) = 0
                      ELSE K(i + 1) = K(i) /\ P(i + 1) = P(i) + 1
    /\ \A i, j \in Nat : K(i) = K(j) /\ P(i) = P(j) => i = j
    /\ \A i, j \in Nat : i <= j => K(i) <= K(j)
  <1> DEFINE B == BlockSize
  <1>0. B \in Nat \ {0} /\ Taken \in 0 .. B - 1
    BY Sizes
  <1>1. \A i \in Nat : K(i) \in Nat /\ P(i) \in 0 .. B - 1 /\ Taken + i = B * K(i) + P(i)
    <2> TAKE i \in Nat
    <2>1. Taken + i \in Nat
      BY <1>0
    <2> HIDE DEF B
    <2>2. \A x \in Nat : x \div B \in Nat /\ x % B \in 0 .. B - 1 /\ x = B * (x \div B) + (x % B)
      BY <1>0
    <2> QED
      BY <2>1, <2>2 DEF K, P, B
  <1>2. ASSUME NEW q \in Nat, NEW r \in Nat, NEW s \in 0 .. B - 1, NEW t \in 0 .. B - 1, B * q + s = B * r + t
        PROVE q = r /\ s = t
    <2> HIDE DEF B
    <2>0. B * q + s \in Nat /\ B * r + t \in Nat
      BY <1>0
    <2>1. B * q + s <= B * r + t /\ B * r + t <= B * q + s
      BY <1>2, <2>0
    <2>2. q <= r
      BY <1>0, <2>1, Quotient
    <2>3. r <= q
      BY <1>0, <2>1, Quotient
    <2>4. q = r
      BY <2>2, <2>3
    <2> QED
      BY <1>0, <1>2, <2>4
  <1>3. K(0) = 0 /\ P(0) = Taken
    <2>1. K(0) \in Nat /\ P(0) \in 0 .. B - 1 /\ Taken = B * K(0) + P(0)
      BY <1>0, <1>1
    <2>2. B * K(0) + P(0) = B * 0 + Taken
      BY <1>0, <2>1
    <2> HIDE DEF B
    <2> QED
      BY <1>0, <1>2, <2>1, <2>2
  <1>4. ASSUME NEW i \in Nat
        PROVE IF P(i) + 1 = B THEN K(i + 1) = K(i) + 1 /\ P(i + 1) = 0
              ELSE K(i + 1) = K(i) /\ P(i + 1) = P(i) + 1
    <2> DEFINE k == K(i)  p == P(i)  k1 == K(i + 1)  p1 == P(i + 1)
    <2>1. k \in Nat /\ p \in 0 .. B - 1 /\ k1 \in Nat /\ p1 \in 0 .. B - 1
      BY <1>1
    <2>2. Taken + i = B * k + p /\ Taken + (i + 1) = B * k1 + p1
      BY <1>1
    <2> HIDE DEF k, p, k1, p1, B
    <2>3. B * k1 + p1 = B * k + p + 1
      BY <1>0, <2>1, <2>2
    <2>4. CASE p + 1 = B
      <3>1. B * (k + 1) = B * k + B
        BY <1>0, <2>1
      <3>2. B * k1 + p1 = B * (k + 1) + 0
        BY <1>0, <2>1, <2>3, <2>4, <3>1
      <3>3. k + 1 \in Nat /\ 0 \in 0 .. B - 1
        BY <1>0, <2>1
      <3>4. k1 = k + 1 /\ p1 = 0
        BY <1>2, <2>1, <3>2, <3>3
      <3> QED
        BY <2>4, <3>4 DEF k, p, k1, p1
    <2>5. CASE p + 1 # B
      <3>1. p + 1 \in 0 .. B - 1
        BY <1>0, <2>1, <2>5
      <3>2. B * k1 + p1 = B * k + (p + 1)
        BY <1>0, <2>1, <2>3
      <3>3. k1 = k /\ p1 = p + 1
        BY <1>2, <2>1, <3>1, <3>2
      <3> QED
        BY <2>5, <3>3 DEF k, p, k1, p1
    <2> QED
      BY <2>4, <2>5
  <1>5. \A i, j \in Nat : K(i) = K(j) /\ P(i) = P(j) => i = j
    <2> TAKE i, j \in Nat
    <2> HAVE K(i) = K(j) /\ P(i) = P(j)
    <2>1. Taken + i = B * K(i) + P(i) /\ Taken + j = B * K(i) + P(i)
      BY <1>1
    <2> DEFINE z == B * K(i) + P(i)
    <2>2. Taken + i = z /\ Taken + j = z
      BY <2>1
    <2> HIDE DEF z
    <2> QED
      BY <1>0, <2>2
  <1>6. ASSUME NEW i \in Nat, NEW j \in Nat, i <= j PROVE K(i) <= K(j)
    <2> DEFINE k == K(i)  p == P(i)  k1 == K(j)  p1 == P(j)
    <2>1. k \in Nat /\ p \in 0 .. B - 1 /\ k1 \in Nat /\ p1 \in 0 .. B - 1
      BY <1>1
    <2>2. Taken + i = B * k + p /\ Taken + j = B * k1 + p1
      BY <1>1
    <2> HIDE DEF k, p, k1, p1, B
    <2>3. B * k + p <= B * k1 + p1
      BY <1>0, <1>6, <2>2
    <2>4. k <= k1
      BY <1>0, <2>1, <2>3, Quotient
    <2> QED
      BY <2>4 DEF k, k1
  <1> QED
    BY <1>1, <1>3, <1>4, <1>5, <1>6
-----------------------------------------------------------------------------
(* Lists of blocks. *)

\* q is the way from first along nx.
Threaded(q, first, nx) ==
    /\ first = IF q = <<>> THEN 0 ELSE q[1]
    /\ \A i \in 1 .. Len(q) : nx[q[i]] = IF i = Len(q) THEN 0 ELSE q[i + 1]

\* Nobody is in a list twice, so that a list is not longer than there are blocks.
LEMMA NoLonger ==
    ASSUME NEW q \in Seq(Blocks), IsInjective(q)
    PROVE Len(q) \in 0 .. NumBlocks /\ Cardinality({q[i] : i \in 1 .. Len(q)}) = Len(q)
  <1> DEFINE l == Len(q)
  <1>1. q \in [1 .. l -> Blocks] /\ l \in Nat /\ NumBlocks \in Nat
    BY Sizes
  <1>2. q \in Injection(1 .. l, Blocks)
    BY <1>1 DEF Injection, IsInjective
  <1> HIDE DEF l
  <1>3. \A n \in Nat : IsFiniteSet(1 .. n) /\ Cardinality(1 .. n) = n
    <2> TAKE n \in Nat
    <2>1. 1 \in Int /\ n \in Int /\ IsFiniteSet(1 .. n) /\ Cardinality(1 .. n) = IF 1 > n THEN 0 ELSE n - 1 + 1
      BY FS_Interval
    <2> QED
      BY <2>1
  <1>4. Cardinality(1 .. l) <= Cardinality(Blocks)
    BY <1>1, <1>2, <1>3, FS_Injection DEF Blocks
  <1>5. Cardinality(1 .. l) = l /\ Cardinality(Blocks) = NumBlocks
    BY <1>1, <1>3 DEF Blocks
  <1>6. q \in Surjection(1 .. l, {q[i] : i \in 1 .. l}) /\ q \in Injection(1 .. l, {q[i] : i \in 1 .. l})
    BY <1>2, <1>1 DEF Surjection, Injection
  <1>7. q \in Bijection(1 .. l, {q[i] : i \in 1 .. l})
    BY <1>6 DEF Bijection
  <1>8. ExistsBijection(1 .. l, {q[i] : i \in 1 .. l})
    BY <1>7 DEF ExistsBijection
  <1>9. IsFiniteSet({q[i] : i \in 1 .. l}) /\ Cardinality({q[i] : i \in 1 .. l}) = Cardinality(1 .. l)
    BY <1>1, <1>3, <1>8, FS_Bijection
  <1> QED
    BY <1>1, <1>4, <1>5, <1>9 DEF l

\* What a loop along the pointers of a list meets: the list, and then NULL.
LEMMA BehindIs ==
    ASSUME NEW m, NEW b, NEW q \in Seq(Blocks), IsInjective(q), Threaded(q, b, m.next)
    PROVE /\ \A i \in 0 .. NumBlocks : Behind(m, b)[i] = IF i < Len(q) THEN q[i + 1] ELSE 0
          /\ ListOf(m, b) = {q[i] : i \in 1 .. Len(q)} /\ Len(q) \in 0 .. NumBlocks
          /\ Cardinality(ListOf(m, b)) = Len(q)
  <1> DEFINE N == NumBlocks
             L == Len(q)
             nx == m.next
             Once(f) == [i \in 0 .. N |-> IF i = 0 THEN b
                                          ELSE IF f[i - 1] = 0 THEN 0 ELSE nx[f[i - 1]]]
             F == [i \in 0 .. N |-> IF i < L THEN q[i + 1] ELSE 0]
             n == CHOOSE f : f = Once(f)
  <1>1. N \in Nat /\ L \in 0 .. N /\ Cardinality({q[i] : i \in 1 .. L}) = L
    BY NoLonger, Sizes
  <1>2. \A i \in 1 .. L : q[i] \in Blocks /\ q[i] # 0
    <2>1. \A i \in 1 .. L : q[i] \in Blocks
      OBVIOUS
    <2>2. 0 \notin Blocks
      BY Sizes DEF Blocks
    <2> QED
      BY <2>1, <2>2
  <1>3. b = (IF L = 0 THEN 0 ELSE q[1]) /\ \A i \in 1 .. L : nx[q[i]] = IF i = L THEN 0 ELSE q[i + 1]
    <2>1. q = <<>> <=> L = 0
      OBVIOUS
    <2> QED
      BY <2>1 DEF Threaded
  <1> HIDE DEF N, L, nx
  <1>4. F = Once(F)
    <2> SUFFICES ASSUME NEW i \in 0 .. N PROVE F[i] = Once(F)[i]
      OBVIOUS
    <2>1. CASE i = 0
      BY <1>1, <1>3, <2>1
    <2>2. CASE i # 0
      <3>1. i - 1 \in 0 .. N /\ F[i - 1] = IF i - 1 < L THEN q[(i - 1) + 1] ELSE 0
        BY <1>1, <2>2
      <3>2. (i - 1) + 1 = i
        BY <2>2
      <3>3. Once(F)[i] = IF F[i - 1] = 0 THEN 0 ELSE nx[F[i - 1]]
        BY <2>2
      <3>4. CASE i - 1 < L
        <4>1. i \in 1 .. L
          BY <1>1, <2>2, <3>4
        <4>2. F[i - 1] = q[i]
          BY <3>1, <3>2, <3>4
        <4>3. Once(F)[i] = nx[q[i]]
          BY <1>2, <3>3, <4>1, <4>2
        <4> QED
          BY <1>1, <1>3, <4>1, <4>3
      <3>5. CASE ~(i - 1 < L)
        BY <1>1, <2>2, <3>1, <3>3, <3>5
      <3> QED
        BY <3>4, <3>5
    <2> QED
      BY <2>1, <2>2
  <1> HIDE DEF F
  <1>5. n = Once(n)
    BY <1>4
  <1>n. Behind(m, b) = n
    BY DEF Behind, N, nx
  <1> HIDE DEF n
  <1>6. 0 .. N \subseteq {i \in 0 .. N : n[i] = F[i]}
    <2> DEFINE T == {i \in 0 .. N : n[i] = F[i]}
    <2>0. \A i \in 0 .. N : n[i] = Once(n)[i] /\ F[i] = Once(F)[i]
      BY <1>4, <1>5
    <2>1. 0 \in T
      BY <1>1, <2>0
    <2>2. \A i \in 0 .. N - 1 : i \in T => i + 1 \in T
      <3> SUFFICES ASSUME NEW i \in 0 .. N - 1, n[i] = F[i] PROVE n[i + 1] = F[i + 1]
        BY <1>1
      <3>1. i + 1 \in 0 .. N /\ i + 1 # 0 /\ (i + 1) - 1 = i
        BY <1>1
      <3>2. n[i + 1] = IF n[i] = 0 THEN 0 ELSE nx[n[i]]
        BY <2>0, <3>1, Zenon
      <3>3. F[i + 1] = IF F[i] = 0 THEN 0 ELSE nx[F[i]]
        BY <2>0, <3>1, Zenon
      <3> QED
        BY <3>2, <3>3
    <2> HIDE DEF T
    <2> QED
      BY <1>1, <2>1, <2>2, IntervalInduction DEF T
  <1>7. DOMAIN n = 0 .. N /\ \A i \in 0 .. N : n[i] = IF i < L THEN q[i + 1] ELSE 0
    BY <1>5, <1>6 DEF F
  <1>8. {n[i] : i \in 0 .. N} \ {0} = {q[i] : i \in 1 .. L}
    <2>1. ASSUME NEW i \in 1 .. L PROVE q[i] \in {n[j] : j \in 0 .. N} \ {0}
      <3>2. i - 1 \in 0 .. N /\ i - 1 < L /\ (i - 1) + 1 = i
        BY <1>1
      <3>3. n[i - 1] = q[i]
        BY <1>7, <3>2
      <3> QED
        BY <1>2, <3>2, <3>3
    <2>2. ASSUME NEW i \in 0 .. N, n[i] # 0 PROVE n[i] \in {q[j] : j \in 1 .. L}
      <3>2. i < L /\ n[i] = q[i + 1]
        BY <1>7, <2>2
      <3>3. i + 1 \in 1 .. L
        BY <1>1, <3>2
      <3> QED
        BY <3>2, <3>3
    <2> QED
      BY <2>1, <2>2
  <1> QED
    BY <1>1, <1>7, <1>8, <1>n DEF ListOf, N, L

-----------------------------------------------------------------------------
(* Memory: which blocks belong to whom, and what is in them. *)

IORecord == [block : 0 .. NumBlocks, pos : 0 .. BlockSize, ptr : Nat, size : Nat, count : Nat, mine : Nat]
Memory == [cell : [Blocks -> [0 .. BlockSize - 1 -> Nat]], next : [Blocks -> 0 .. NumBlocks],
           free : 0 .. NumBlocks, made : 0 .. NumBlocks, io : [Blocks -> IORecord]]
Owners == 0 .. NumBlocks

\* No block is in two places.
Apart(own) ==
    \A x, y \in Owners : \A i \in 1 .. Len(own[x]), j \in 1 .. Len(own[y]) :
        own[x][i] = own[y][j] => x = y /\ i = j

\* The blocks of all lists are those that were made.
Covers(own, made) ==
    /\ \A x \in Owners : \A i \in 1 .. Len(own[x]) : own[x][i] \in 1 .. made
    /\ \A b \in 1 .. made : \E x \in Owners : \E i \in 1 .. Len(own[x]) : own[x][i] = b
Linked(m, own) ==
    /\ Threaded(own[0], m.free, m.next)
    /\ \A p \in Blocks : IF m.io[p].count > 0 THEN own[p] # <<>> /\ Threaded(own[p], p, m.next)
                         ELSE own[p] = <<>>
Chains(m, own) == own \in [Owners -> Seq(Blocks)] /\ Apart(own) /\ Covers(own, m.made) /\ Linked(m, own)

\* The place of a packet is that of the cell that comes next, or the one behind the cell before.
OnSpot(io, q) ==
    \/ K(io.ptr) < Len(q) /\ io.block = q[K(io.ptr) + 1] /\ io.pos = P(io.ptr)
    \/ /\ io.ptr > 0 /\ K(io.ptr - 1) < Len(q)
       /\ io.block = q[K(io.ptr - 1) + 1] /\ io.pos = P(io.ptr - 1) + 1
PacketOK(cell, q, io, d) ==
    /\ io.ptr <= io.size /\ Len(d) = io.size /\ (io.size > 0 => K(io.size - 1) < Len(q))
    /\ OnSpot(io, q)
    /\ \A i \in 0 .. io.size - 1 : cell[q[K(i) + 1]][P(i)] = d[i + 1]
MemOK(m, own, data) ==
    /\ m \in Memory /\ Chains(m, own) /\ data \in [Blocks -> Seq(Nat)]
    /\ \A p \in Blocks : m.io[p].count > 0 => PacketOK(m.cell, own[p], m.io[p], data[p])

Spare(m, own) == NumBlocks - m.made + Len(own[0])

\* The fields of the memory.
LEMMA MemoryIs ==
    ASSUME NEW m \in Memory
    PROVE /\ m = [cell |-> m.cell, next |-> m.next, free |-> m.free, made |-> m.made, io |-> m.io]
          /\ m.cell \in [Blocks -> [0 .. BlockSize - 1 -> Nat]] /\ m.next \in [Blocks -> 0 .. NumBlocks]
          /\ m.free \in 0 .. NumBlocks /\ m.made \in 0 .. NumBlocks /\ m.io \in [Blocks -> IORecord]
  BY DEF Memory

\* The same the other way round.
LEMMA MemoryOf ==
    ASSUME NEW m, m = [cell |-> m.cell, next |-> m.next, free |-> m.free, made |-> m.made, io |-> m.io],
           m.cell \in [Blocks -> [0 .. BlockSize - 1 -> Nat]], m.next \in [Blocks -> 0 .. NumBlocks],
           m.free \in 0 .. NumBlocks, m.made \in 0 .. NumBlocks, m.io \in [Blocks -> IORecord]
    PROVE m \in Memory
  BY DEF Memory

\* What is left of a record when one field is replaced.
LEMMA WithFree ==
    ASSUME NEW m \in Memory, NEW x \in 0 .. NumBlocks
    PROVE [m EXCEPT !.free = x] \in Memory
          /\ [m EXCEPT !.free = x] = [cell |-> m.cell, next |-> m.next, free |-> x, made |-> m.made, io |-> m.io]
  <1>1. m = [cell |-> m.cell, next |-> m.next, free |-> m.free, made |-> m.made, io |-> m.io]
    BY MemoryIs
  <1>2. [m EXCEPT !.free = x] = [cell |-> m.cell, next |-> m.next, free |-> x, made |-> m.made, io |-> m.io]
    BY <1>1
  <1> QED
    BY <1>2, MemoryIs, MemoryOf

LEMMA WithNext ==
    ASSUME NEW m \in Memory, NEW b \in Blocks, NEW x \in 0 .. NumBlocks
    PROVE [m EXCEPT !.next[b] = x] \in Memory
          /\ [m EXCEPT !.next[b] = x] = [cell |-> m.cell, next |-> [m.next EXCEPT ![b] = x], free |-> m.free,
                                         made |-> m.made, io |-> m.io]
  <1>1. m = [cell |-> m.cell, next |-> m.next, free |-> m.free, made |-> m.made, io |-> m.io]
    BY MemoryIs
  <1>2. [m EXCEPT !.next[b] = x] = [cell |-> m.cell, next |-> [m.next EXCEPT ![b] = x], free |-> m.free,
                                   made |-> m.made, io |-> m.io]
    BY <1>1
  <1> DEFINE r == [m EXCEPT !.next[b] = x]
             nx == [m.next EXCEPT ![b] = x]
  <1>3. nx \in [Blocks -> 0 .. NumBlocks]
    BY MemoryIs
  <1>4. r = [cell |-> m.cell, next |-> nx, free |-> m.free, made |-> m.made, io |-> m.io]
    BY <1>2
  <1>5. r.cell = m.cell /\ r.next = nx /\ r.free = m.free /\ r.made = m.made /\ r.io = m.io
    BY <1>4
  <1> HIDE DEF r, nx
  <1>6. r \in Memory
    BY <1>3, <1>4, <1>5, MemoryIs, MemoryOf
  <1> QED
    BY <1>2, <1>6 DEF r

LEMMA WithCell ==
    ASSUME NEW m \in Memory, NEW cells \in [Blocks -> [0 .. BlockSize - 1 -> Nat]]
    PROVE [m EXCEPT !.cell = cells] \in Memory
          /\ [m EXCEPT !.cell = cells] = [cell |-> cells, next |-> m.next, free |-> m.free, made |-> m.made, io |-> m.io]
  <1>1. m = [cell |-> m.cell, next |-> m.next, free |-> m.free, made |-> m.made, io |-> m.io]
    BY MemoryIs
  <1>2. [m EXCEPT !.cell = cells] = [cell |-> cells, next |-> m.next, free |-> m.free, made |-> m.made, io |-> m.io]
    BY <1>1
  <1> QED
    BY <1>2, MemoryIs, MemoryOf

LEMMA WithIO ==
    ASSUME NEW m \in Memory, NEW p \in Blocks, NEW io \in IORecord
    PROVE [m EXCEPT !.io[p] = io] \in Memory
          /\ [m EXCEPT !.io[p] = io] = [cell |-> m.cell, next |-> m.next, free |-> m.free, made |-> m.made,
                                        io |-> [m.io EXCEPT ![p] = io]]
  <1>1. m = [cell |-> m.cell, next |-> m.next, free |-> m.free, made |-> m.made, io |-> m.io]
    BY MemoryIs
  <1> DEFINE r == [m EXCEPT !.io[p] = io]
             ios == [m.io EXCEPT ![p] = io]
  <1>3. ios \in [Blocks -> IORecord]
    BY MemoryIs
  <1>4. r = [cell |-> m.cell, next |-> m.next, free |-> m.free, made |-> m.made, io |-> ios]
    BY <1>1
  <1>5. r.cell = m.cell /\ r.next = m.next /\ r.free = m.free /\ r.made = m.made /\ r.io = ios
    BY <1>4
  <1>7. m.cell \in [Blocks -> [0 .. BlockSize - 1 -> Nat]] /\ m.next \in [Blocks -> 0 .. NumBlocks]
        /\ m.free \in 0 .. NumBlocks /\ m.made \in 0 .. NumBlocks
    BY MemoryIs
  <1> HIDE DEF r, ios
  <1>6. r \in Memory
    BY <1>3, <1>4, <1>5, <1>7, MemoryOf
  <1> QED
    BY <1>4, <1>6 DEF r, ios

LEMMA NoneIs == ASSUME NEW S, NEW q \in Seq(S) PROVE q = <<>> <=> Len(q) = 0
  OBVIOUS

\* One of the lists.
LEMMA OwnIs ==
    ASSUME NEW m, NEW own, Chains(m, own), NEW x \in Owners
    PROVE own[x] \in Seq(Blocks) /\ IsInjective(own[x]) /\ Len(own[x]) \in 0 .. NumBlocks
          /\ \A i \in 1 .. Len(own[x]) : own[x][i] \in Blocks
  <1>1. own[x] \in Seq(Blocks)
    BY DEF Chains
  <1>2. IsInjective(own[x])
    BY <1>1 DEF Chains, Apart, IsInjective
  <1>3. Len(own[x]) \in 0 .. NumBlocks
    BY <1>1, <1>2, NoLonger
  <1>4. \A i \in 1 .. Len(own[x]) : own[x][i] \in Blocks
    BY <1>1
  <1> QED
    BY <1>1, <1>2, <1>3, <1>4

\* A list whose pointers stay as they are stays.
LEMMA ThreadedSame ==
    ASSUME NEW q, NEW first, NEW nx, NEW nx2, Threaded(q, first, nx),
           \A i \in 1 .. Len(q) : nx2[q[i]] = nx[q[i]]
    PROVE Threaded(q, first, nx2)
  BY DEF Threaded

\* The first of a list is taken.
LEMMA ThreadedTail ==
    ASSUME NEW q \in Seq(Blocks), NEW first, NEW nx, NEW nx2, Threaded(q, first, nx), q # <<>>,
           \A i \in 2 .. Len(q) : nx2[q[i]] = nx[q[i]]
    PROVE Threaded(Tail(q), nx[first], nx2) /\ first = q[1] /\ Len(Tail(q)) = Len(q) - 1
          /\ \A i \in 1 .. Len(Tail(q)) : Tail(q)[i] = q[i + 1]
  <1> DEFINE t == Tail(q)
  <1>1. Len(q) \in Nat \ {0} /\ Len(t) = Len(q) - 1 /\ \A i \in 1 .. Len(t) : t[i] = q[i + 1]
    OBVIOUS
  <1>2. t = <<>> <=> Len(q) = 1
    <2>1. t \in Seq(Blocks)
      OBVIOUS
    <2>2. t = <<>> <=> Len(t) = 0
      BY <2>1, NoneIs
    <2> QED
      BY <1>1, <2>2
  <1>3. first = q[1] /\ \A i \in 1 .. Len(q) : nx[q[i]] = IF i = Len(q) THEN 0 ELSE q[i + 1]
    BY DEF Threaded
  <1> HIDE DEF t
  <1>4. nx[first] = IF t = <<>> THEN 0 ELSE t[1]
    BY <1>1, <1>2, <1>3
  <1>5. ASSUME NEW i \in 1 .. Len(t) PROVE nx2[t[i]] = IF i = Len(t) THEN 0 ELSE t[i + 1]
    <2>1. i + 1 \in 2 .. Len(q) /\ i + 1 \in 1 .. Len(q) /\ t[i] = q[i + 1]
      BY <1>1
    <2>2. nx2[t[i]] = nx[q[i + 1]]
      BY <2>1
    <2>3. nx[q[i + 1]] = IF i + 1 = Len(q) THEN 0 ELSE q[i + 1 + 1]
      BY <1>3, <2>1
    <2>4. i # Len(t) => i + 1 \in 1 .. Len(t) /\ t[i + 1] = q[i + 1 + 1]
      BY <1>1
    <2> QED
      BY <1>1, <2>2, <2>3, <2>4
  <1>6. Threaded(t, nx[first], nx2)
    BY <1>4, <1>5 DEF Threaded
  <1> QED
    BY <1>1, <1>3, <1>6 DEF t

\* A block is put behind the last of a list.
LEMMA ThreadedAppend ==
    ASSUME NEW q \in Seq(Blocks), NEW first, NEW nx, NEW nx2, Threaded(q, first, nx), q # <<>>, NEW b,
           \A i \in 1 .. Len(q) - 1 : nx2[q[i]] = nx[q[i]], nx2[q[Len(q)]] = b, nx2[b] = 0
    PROVE Threaded(Append(q, b), first, nx2)
  <1> DEFINE t == Append(q, b)
             L == Len(q)
  <1>1. L \in Nat \ {0} /\ Len(t) = L + 1 /\ t # <<>> /\ t[L + 1] = b /\ \A i \in 1 .. L : t[i] = q[i]
    OBVIOUS
  <1>2. first = q[1] /\ \A i \in 1 .. L : nx[q[i]] = IF i = L THEN 0 ELSE q[i + 1]
    BY DEF Threaded
  <1>3. \A i \in 1 .. L - 1 : nx2[q[i]] = nx[q[i]]
    OBVIOUS
  <1>4. nx2[q[L]] = b
    OBVIOUS
  <1> HIDE DEF t, L
  <1>5. ASSUME NEW i \in 1 .. Len(t) PROVE nx2[t[i]] = IF i = Len(t) THEN 0 ELSE t[i + 1]
    <2>1. CASE i = L + 1
      BY <1>1, <2>1
    <2>2. CASE i = L
      BY <1>1, <1>4, <2>2
    <2>3. CASE i \in 1 .. L - 1
      <3>1. i \in 1 .. L /\ i + 1 \in 1 .. L /\ i # L /\ i # Len(t)
        BY <1>1, <2>3
      <3>2. t[i] = q[i] /\ t[i + 1] = q[i + 1] /\ nx2[q[i]] = q[i + 1]
        BY <1>1, <1>2, <1>3, <2>3, <3>1
      <3> QED
        BY <3>1, <3>2
    <2> QED
      BY <1>1, <2>1, <2>2, <2>3
  <1>6. first = t[1]
    BY <1>1, <1>2
  <1> QED
    BY <1>1, <1>5, <1>6 DEF Threaded, t

\* mblock_create: a block that is in no list.
OwnLess(m, own) == IF m.free = 0 THEN own ELSE [own EXCEPT ![0] = Tail(@)]
Loose(own, made, b) ==
    /\ own \in [Owners -> Seq(Blocks)] /\ Apart(own) /\ b \in 1 .. made
    /\ \A x \in Owners : \A i \in 1 .. Len(own[x]) : own[x][i] \in 1 .. made /\ own[x][i] # b
    /\ \A c \in 1 .. made : c = b \/ \E x \in Owners : \E i \in 1 .. Len(own[x]) : own[x][i] = c

\* mblock_create: a block that is in no list any more, or was in none yet.
LEMMA CreateIs ==
    ASSUME NEW m \in Memory, NEW own, Chains(m, own), Spare(m, own) > 0,
           NEW b, b = NewBlock(m), NEW m1, m1 = Create(m), NEW own1, own1 = OwnLess(m, own)
    PROVE /\ b \in Blocks /\ m1 \in Memory /\ m1.cell = m.cell /\ m1.io = m.io
          /\ m1.next = [m.next EXCEPT ![b] = 0]
          /\ Loose(own1, m1.made, b) /\ Threaded(own1[0], m1.free, m1.next)
          /\ \A x \in Blocks : own1[x] = own[x]
          /\ NumBlocks - m1.made + Len(own1[0]) = Spare(m, own) - 1
  <1>0. NumBlocks \in Nat /\ 0 \in Owners /\ Blocks \subseteq Owners /\ 0 \notin Blocks
        /\ \A n \in 0 .. NumBlocks : n = 0 \/ n \in Blocks
    BY Sizes DEF Owners, Blocks
  <1>1. /\ own \in [Owners -> Seq(Blocks)] /\ Apart(own) /\ Covers(own, m.made)
        /\ Threaded(own[0], m.free, m.next)
    BY DEF Chains, Linked
  <1>2. own[0] \in Seq(Blocks) /\ Len(own[0]) \in Nat /\ \A i \in 1 .. Len(own[0]) : own[0][i] \in Blocks
    BY <1>0, <1>1
  <1>3. /\ m.made \in 0 .. NumBlocks /\ m.free \in 0 .. NumBlocks /\ m.next \in [Blocks -> 0 .. NumBlocks]
        /\ m.cell \in [Blocks -> [0 .. BlockSize - 1 -> Nat]] /\ m.io \in [Blocks -> IORecord]
        /\ m = [cell |-> m.cell, next |-> m.next, free |-> m.free, made |-> m.made, io |-> m.io]
    BY MemoryIs, Zenon
  <1>4. CASE m.free = 0
    <2>1. own[0] = <<>> /\ Len(own[0]) = 0
      BY <1>0, <1>1, <1>2, <1>4 DEF Threaded
    <2>2. own1 = own /\ b = m.made + 1 /\ m1 = [m EXCEPT !.made = @ + 1, !.next[m.made + 1] = 0]
      BY <1>4 DEF OwnLess, NewBlock, Create
    <2>3. m.made < NumBlocks
      BY <1>0, <1>3, <2>1 DEF Spare
    <2>4. b \in Blocks /\ b \in 1 .. m.made + 1
      BY <1>0, <1>3, <2>2, <2>3 DEF Blocks
    <2>5. /\ m1.cell = m.cell /\ m1.io = m.io /\ m1.next = [m.next EXCEPT ![b] = 0]
          /\ m1.made = m.made + 1 /\ m1.free = 0 /\ m1 \in Memory
      <3>1. m1 = [cell |-> m.cell, next |-> [m.next EXCEPT ![b] = 0], free |-> 0, made |-> m.made + 1, io |-> m.io]
        BY <1>4, <2>2, MemoryIs
      <3>2. m.made + 1 \in 0 .. NumBlocks /\ 0 \in 0 .. NumBlocks
        BY <1>0, <1>3, <2>3
      <3>3. [m.next EXCEPT ![b] = 0] \in [Blocks -> 0 .. NumBlocks]
        BY <1>3, <3>2
      <3>4. m1 \in Memory
        BY <1>3, <3>1, <3>2, <3>3, MemoryOf
      <3> QED
        BY <3>1, <3>4
    <2>6. Loose(own1, m1.made, b)
      <3>1. \A x \in Owners : \A i \in 1 .. Len(own[x]) : own[x][i] \in 1 .. m.made
        BY <1>1 DEF Covers
      <3>2. \A c \in 1 .. m.made : \E x \in Owners : \E i \in 1 .. Len(own[x]) : own[x][i] = c
        BY <1>1 DEF Covers
      <3>3. \A c \in 1 .. m.made : c \in 1 .. m.made + 1 /\ c # m.made + 1
        BY <1>3
      <3>4. \A c \in 1 .. m.made + 1 : c = m.made + 1 \/ c \in 1 .. m.made
        BY <1>3
      <3>5. \A x \in Owners : \A i \in 1 .. Len(own[x]) : own[x][i] \in 1 .. m.made + 1 /\ own[x][i] # b
        BY <2>2, <3>1, <3>3
      <3>6. \A c \in 1 .. m.made + 1 : c = b \/ \E x \in Owners : \E i \in 1 .. Len(own[x]) : own[x][i] = c
        BY <2>2, <3>2, <3>4
      <3> QED
        BY <1>1, <2>2, <2>4, <2>5, <3>5, <3>6 DEF Loose
    <2>7. Threaded(own1[0], m1.free, m1.next)
      BY <2>1, <2>2, <2>5 DEF Threaded
    <2>8. NumBlocks - m1.made + Len(own1[0]) = Spare(m, own) - 1
      BY <1>0, <1>3, <2>1, <2>2, <2>5 DEF Spare
    <2> QED
      BY <2>2, <2>4, <2>5, <2>6, <2>7, <2>8
  <1>5. CASE m.free # 0
    <2> DEFINE f == own[0]  t == Tail(f)
    <2>1. f # <<>> /\ f \in Seq(Blocks) /\ m.free \in Blocks
      BY <1>0, <1>1, <1>2, <1>3, <1>5 DEF Threaded
    <2>2. own1 = [own EXCEPT ![0] = t] /\ b = m.free /\ m1 = [m EXCEPT !.free = m.next[m.free], !.next[m.free] = 0]
      BY <1>5 DEF OwnLess, NewBlock, Create
    <2>3. /\ m1.cell = m.cell /\ m1.io = m.io /\ m1.next = [m.next EXCEPT ![b] = 0]
          /\ m1.made = m.made /\ m1.free = m.next[b] /\ m1 \in Memory
      <3>1. m1 = [cell |-> m.cell, next |-> [m.next EXCEPT ![b] = 0], free |-> m.next[b], made |-> m.made, io |-> m.io]
        <4> DEFINE x == m.next[m.free]
        <4>1. m1 = [m EXCEPT !.free = x, !.next[b] = 0]
          BY <2>2
        <4>3. x \in 0 .. NumBlocks /\ b \in Blocks
          BY <1>3, <2>1, <2>2
        <4> HIDE DEF x
        <4> DEFINE r == [m EXCEPT !.free = x]
        <4>6. m1 = [r EXCEPT !.next[b] = 0]
          BY <4>1
        <4>7. r \in Memory /\ r = [cell |-> m.cell, next |-> m.next, free |-> x, made |-> m.made, io |-> m.io]
          BY <4>3, WithFree
        <4>8. r.cell = m.cell /\ r.next = m.next /\ r.free = x /\ r.made = m.made /\ r.io = m.io
          BY <4>7
        <4> HIDE DEF r
        <4>2. m1 = [cell |-> m.cell, next |-> [m.next EXCEPT ![b] = 0], free |-> x, made |-> m.made, io |-> m.io]
          BY <4>3, <4>6, <4>7, <4>8, WithNext
        <4> QED
          BY <2>2, <4>2 DEF x
      <3>2. m.next[b] \in 0 .. NumBlocks /\ 0 \in 0 .. NumBlocks
        BY <1>0, <1>3, <2>1, <2>2
      <3>3. [m.next EXCEPT ![b] = 0] \in [Blocks -> 0 .. NumBlocks]
        BY <1>3, <3>2
      <3>4. m1 \in Memory
        BY <1>3, <3>1, <3>2, <3>3, MemoryOf
      <3> QED
        BY <3>1, <3>4
    <2>4. \A i, j \in 1 .. Len(f) : f[i] = f[j] => i = j
      BY <1>0, <1>1 DEF Apart
    <2>5. b = f[1] /\ 1 \in 1 .. Len(f) /\ Len(f) \in Nat
      BY <1>1, <2>1, <2>2 DEF Threaded
    <2>6. \A i \in 2 .. Len(f) : f[i] # b /\ f[i] \in Blocks
      BY <2>1, <2>4, <2>5
    <2>7. \A i \in 2 .. Len(f) : m1.next[f[i]] = m.next[f[i]]
      BY <1>3, <2>3, <2>6
    <2> HIDE DEF f, t
    <2>8. Threaded(t, m.next[b], m1.next) /\ Len(t) = Len(f) - 1 /\ \A i \in 1 .. Len(t) : t[i] = f[i + 1]
      BY <1>1, <2>1, <2>2, <2>7, ThreadedTail DEF f, t
    <2>9. own1[0] = t /\ \A x \in Owners \ {0} : own1[x] = own[x]
      BY <1>0, <1>1, <2>2
    <2>10. t \in Seq(Blocks)
      BY <2>1 DEF t
    <2>11. \A x \in Owners : \A i \in 1 .. Len(own1[x]) : \E j \in 1 .. Len(own[x]) :
               own1[x][i] = own[x][j] /\ j = (IF x = 0 THEN i + 1 ELSE i) /\ own1[x][i] # b
      <3> SUFFICES ASSUME NEW x \in Owners, NEW i \in 1 .. Len(own1[x])
                   PROVE \E j \in 1 .. Len(own[x]) :
                            own1[x][i] = own[x][j] /\ j = (IF x = 0 THEN i + 1 ELSE i) /\ own1[x][i] # b
        OBVIOUS
      <3>1. CASE x = 0
        <4>1. i + 1 \in 2 .. Len(f) /\ i + 1 \in 1 .. Len(f) /\ own1[x][i] = f[i + 1]
          BY <2>5, <2>8, <2>9, <3>1
        <4> QED
          BY <2>6, <3>1, <4>1 DEF f
      <3>2. CASE x # 0
        <4>1. own1[x] = own[x] /\ i \in 1 .. Len(own[x])
          BY <2>9, <3>2
        <4>2. own[x][i] # b
          <5>1. own[x][i] = own[0][1] => x = 0
            BY <1>0, <1>1, <2>5, <4>1 DEF Apart, f
          <5> QED
            BY <2>5, <3>2, <5>1 DEF f
        <4> QED
          BY <3>2, <4>1, <4>2
      <3> QED
        BY <3>1, <3>2
    <2>12. Loose(own1, m1.made, b)
      <3>1. own1 \in [Owners -> Seq(Blocks)]
        BY <1>0, <1>1, <2>2, <2>10
      <3>2. Apart(own1)
        <4> SUFFICES ASSUME NEW x \in Owners, NEW y \in Owners, NEW i \in 1 .. Len(own1[x]),
                            NEW j \in 1 .. Len(own1[y]), own1[x][i] = own1[y][j]
                     PROVE x = y /\ i = j
          BY DEF Apart
        <4>1. PICK i1 \in 1 .. Len(own[x]) : own1[x][i] = own[x][i1] /\ i1 = (IF x = 0 THEN i + 1 ELSE i)
          BY <2>11
        <4>2. PICK j1 \in 1 .. Len(own[y]) : own1[y][j] = own[y][j1] /\ j1 = (IF y = 0 THEN j + 1 ELSE j)
          BY <2>11
        <4>0. own[x][i1] = own[y][j1]
          BY <4>1, <4>2
        <4>3. x = y /\ i1 = j1
          BY <1>1, <4>0 DEF Apart
        <4>4. i \in Int /\ j \in Int
          BY <3>1
        <4> QED
          BY ONLY <4>1, <4>2, <4>3, <4>4
      <3>3. \A x \in Owners : \A i \in 1 .. Len(own1[x]) : own1[x][i] \in 1 .. m.made /\ own1[x][i] # b
        <4> SUFFICES ASSUME NEW x \in Owners, NEW i \in 1 .. Len(own1[x])
                     PROVE own1[x][i] \in 1 .. m.made /\ own1[x][i] # b
          OBVIOUS
        <4>1. PICK j \in 1 .. Len(own[x]) : own1[x][i] = own[x][j] /\ own1[x][i] # b
          BY <2>11
        <4>2. own[x][j] \in 1 .. m.made
          BY <1>1 DEF Covers
        <4> QED
          BY ONLY <4>1, <4>2
      <3>4. ASSUME NEW c \in 1 .. m.made, c # b
            PROVE \E x \in Owners : \E i \in 1 .. Len(own1[x]) : own1[x][i] = c
        <4>1. PICK x \in Owners : \E i \in 1 .. Len(own[x]) : own[x][i] = c
          BY <1>1 DEF Covers
        <4>2. PICK i \in 1 .. Len(own[x]) : own[x][i] = c
          BY <4>1
        <4>3. CASE x = 0
          <5>1. i # 1 /\ i \in 1 .. Len(f)
            BY <2>5, <3>4, <4>2, <4>3 DEF f
          <5>2. i - 1 \in 1 .. Len(t) /\ (i - 1) + 1 = i
            BY <2>5, <2>8, <5>1
          <5>3. own1[0][i - 1] = c
            BY <2>8, <2>9, <4>2, <4>3, <5>2 DEF f
          <5> QED
            BY <1>0, <2>9, <5>2, <5>3
        <4>4. CASE x # 0
          BY <2>9, <4>2, <4>4
        <4> QED
          BY <4>3, <4>4
      <3>5. b \in 1 .. m.made
        BY <1>0, <1>1, <2>5 DEF Covers, f
      <3> QED
        BY <2>3, <3>1, <3>2, <3>3, <3>4, <3>5 DEF Loose
    <2>13. NumBlocks - m1.made + Len(own1[0]) = Spare(m, own) - 1
      <3> DEFINE l == Len(f)
      <3>1. Len(own1[0]) = l - 1 /\ l \in Nat /\ Spare(m, own) = NumBlocks - m.made + l
        BY <2>5, <2>8, <2>9 DEF Spare, f
      <3> HIDE DEF l
      <3> QED
        BY <1>0, <1>3, <2>3, <3>1
    <2>14. b \in Blocks
      BY <2>1, <2>2
    <2> QED
      BY <1>0, <2>3, <2>8, <2>9, <2>12, <2>13, <2>14
  <1> QED
    BY <1>4, <1>5

\* The block is put at the end of the list of x.
OwnMore(own, x, b) == [own EXCEPT ![x] = Append(@, b)]

\* A block that is in no list is put at the end of one.
LEMMA AddedTo ==
    ASSUME NEW own, NEW made, NEW b \in Blocks, Loose(own, made, b), NEW x \in Owners,
           NEW own1, own1 = OwnMore(own, x, b)
    PROVE own1 \in [Owners -> Seq(Blocks)] /\ Apart(own1) /\ Covers(own1, made)
          /\ own1[x] = Append(own[x], b) /\ Len(own1[x]) = Len(own[x]) + 1
          /\ \A y \in Owners \ {x} : own1[y] = own[y]
  <1>1. own \in [Owners -> Seq(Blocks)] /\ Apart(own) /\ b \in 1 .. made
    BY DEF Loose
  <1>2. own[x] \in Seq(Blocks)
    BY <1>1
  <1> DEFINE t == Append(own[x], b)
             L == Len(own[x])
  <1>3. L \in Nat /\ Len(t) = L + 1 /\ t[L + 1] = b /\ (\A i \in 1 .. L : t[i] = own[x][i]) /\ t \in Seq(Blocks)
    BY <1>2
  <1>4. own1 \in [Owners -> Seq(Blocks)] /\ own1[x] = t /\ \A y \in Owners \ {x} : own1[y] = own[y]
    BY <1>1, <1>3 DEF OwnMore
  <1> HIDE DEF t
  <1>5. \A y \in Owners : \A i \in 1 .. Len(own1[y]) :
            \/ y = x /\ i = L + 1 /\ own1[y][i] = b
            \/ i \in 1 .. Len(own[y]) /\ own1[y][i] = own[y][i] /\ own[y][i] # b /\ own[y][i] \in 1 .. made
    <2> TAKE y \in Owners
    <2> TAKE i \in 1 .. Len(own1[y])
    <2>0. \A j \in 1 .. Len(own[y]) : own[y][j] # b /\ own[y][j] \in 1 .. made
      BY DEF Loose
    <2>1. CASE y = x
      BY <1>3, <1>4, <2>0, <2>1
    <2>2. CASE y # x
      BY <1>4, <2>0, <2>2
    <2> QED
      BY <2>1, <2>2
  <1>6. Apart(own1)
    <2> SUFFICES ASSUME NEW y \in Owners, NEW z \in Owners, NEW i \in 1 .. Len(own1[y]),
                        NEW j \in 1 .. Len(own1[z]), own1[y][i] = own1[z][j]
                 PROVE y = z /\ i = j
      BY DEF Apart
    <2>1. \/ y = x /\ i = L + 1 /\ own1[y][i] = b
          \/ i \in 1 .. Len(own[y]) /\ own1[y][i] = own[y][i] /\ own[y][i] # b
      BY <1>5
    <2>2. \/ z = x /\ j = L + 1 /\ own1[z][j] = b
          \/ j \in 1 .. Len(own[z]) /\ own1[z][j] = own[z][j] /\ own[z][j] # b
      BY <1>5
    <2> QED
      BY <1>1, <2>1, <2>2 DEF Apart
  <1>7. Covers(own1, made)
    <2>1. \A y \in Owners : \A i \in 1 .. Len(own1[y]) : own1[y][i] \in 1 .. made
      BY <1>1, <1>5
    <2>2. ASSUME NEW c \in 1 .. made PROVE \E y \in Owners : \E i \in 1 .. Len(own1[y]) : own1[y][i] = c
      <3>1. CASE c = b
        <4>1. L + 1 \in 1 .. Len(own1[x]) /\ own1[x][L + 1] = b
          BY <1>3, <1>4
        <4> QED
          BY <3>1, <4>1
      <3>2. CASE c # b
        <4>1. PICK y \in Owners : \E i \in 1 .. Len(own[y]) : own[y][i] = c
          BY <3>2 DEF Loose
        <4>2. PICK i \in 1 .. Len(own[y]) : own[y][i] = c
          BY <4>1
        <4>3. i \in 1 .. Len(own1[y]) /\ own1[y][i] = c
          <5>1. CASE y = x
            BY <1>3, <1>4, <4>2, <5>1
          <5>2. CASE y # x
            BY <1>4, <4>2, <5>2
          <5> QED
            BY <5>1, <5>2
        <4> QED
          BY <4>3
      <3> QED
        BY <3>1, <3>2
    <2> QED
      BY <2>1, <2>2 DEF Covers
  <1> QED
    BY <1>3, <1>4, <1>6, <1>7 DEF t
-----------------------------------------------------------------------------
(* One packet: where its cells are, and what changes when its cursor moves or *)
(* when a cell is written.                                                  *)

\* The fields of a cursor.
LEMMA IORecordIs ==
    ASSUME NEW io \in IORecord
    PROVE /\ io = [block |-> io.block, pos |-> io.pos, ptr |-> io.ptr, size |-> io.size, count |-> io.count,
                   mine |-> io.mine]
          /\ io.block \in 0 .. NumBlocks /\ io.pos \in 0 .. BlockSize /\ io.ptr \in Nat /\ io.size \in Nat
          /\ io.count \in Nat /\ io.mine \in Nat
  BY DEF IORecord

LEMMA IORecordOf ==
    ASSUME NEW block \in 0 .. NumBlocks, NEW pos \in 0 .. BlockSize, NEW ptr \in Nat, NEW size \in Nat,
           NEW count \in Nat, NEW mine \in Nat
    PROVE [block |-> block, pos |-> pos, ptr |-> ptr, size |-> size, count |-> count, mine |-> mine] \in IORecord
  BY DEF IORecord

LEMMA CursorTo ==
    ASSUME NEW io \in IORecord, NEW b, NEW x, NEW y, NEW r, r = Cursor(io, b, x, y)
    PROVE r = [block |-> b, pos |-> x, ptr |-> y, size |-> io.size, count |-> io.count, mine |-> io.mine]
  <1> DEFINE r1 == [io EXCEPT !.block = b]
             r2 == [r1 EXCEPT !.pos = x]
             r3 == [r2 EXCEPT !.ptr = y]
  <1>1. r = r3
    BY DEF Cursor
  <1>2. r1 = [block |-> b, pos |-> io.pos, ptr |-> io.ptr, size |-> io.size, count |-> io.count, mine |-> io.mine]
    BY IORecordIs
  <1> HIDE DEF r1
  <1>3. r2 = [block |-> b, pos |-> x, ptr |-> io.ptr, size |-> io.size, count |-> io.count, mine |-> io.mine]
    BY <1>2
  <1> HIDE DEF r2
  <1>4. r3 = [block |-> b, pos |-> x, ptr |-> y, size |-> io.size, count |-> io.count, mine |-> io.mine]
    BY <1>3
  <1> HIDE DEF r3
  <1> QED
    BY <1>1, <1>4

\* What holds of a packet that somebody holds.
LEMMA LiveIs ==
    ASSUME NEW m, NEW own, NEW data, MemOK(m, own, data), NEW p \in Blocks, m.io[p].count > 0
    PROVE /\ m \in Memory /\ Chains(m, own) /\ m.io[p] \in IORecord /\ m.io \in [Blocks -> IORecord]
          /\ own[p] \in Seq(Blocks) /\ Len(own[p]) \in 1 .. NumBlocks /\ Len(own[p]) \in Nat
          /\ Threaded(own[p], p, m.next)
          /\ own[p][1] = p /\ data[p] \in Seq(Nat) /\ data \in [Blocks -> Seq(Nat)]
          /\ PacketOK(m.cell, own[p], m.io[p], data[p])
          /\ K(m.io[p].ptr) <= Len(own[p])
          /\ \A i \in 1 .. Len(own[p]) : own[p][i] \in Blocks
  <1>0. Blocks \subseteq Owners /\ NumBlocks \in Nat
    BY Sizes DEF Blocks, Owners
  <1>1. m \in Memory /\ Chains(m, own) /\ PacketOK(m.cell, own[p], m.io[p], data[p])
        /\ data[p] \in Seq(Nat) /\ data \in [Blocks -> Seq(Nat)]
    BY DEF MemOK
  <1>2. m.io[p] \in IORecord /\ m.io \in [Blocks -> IORecord]
    BY <1>1, MemoryIs
  <1>3. own[p] \in Seq(Blocks) /\ Len(own[p]) \in 0 .. NumBlocks /\ \A i \in 1 .. Len(own[p]) : own[p][i] \in Blocks
    BY <1>0, <1>1, OwnIs
  <1>4. own[p] # <<>> /\ Threaded(own[p], p, m.next)
    BY <1>1 DEF Chains, Linked
  <1>5. Len(own[p]) # 0
    BY <1>3, <1>4, NoneIs
  <1>6. own[p][1] = p
    BY <1>4 DEF Threaded
  <1> DEFINE L == Len(own[p])
             ptr == m.io[p].ptr
             size == m.io[p].size
  <1>7. L \in 1 .. NumBlocks /\ L \in Nat
    BY <1>0, <1>3, <1>5
  <1>8. ptr \in Nat /\ size \in Nat /\ ptr <= size /\ (size > 0 => K(size - 1) < L)
    BY <1>1, <1>2, IORecordIs DEF PacketOK
  <1>9. K(ptr) <= L
    <2> HIDE DEF L, ptr, size
    <2>1. CASE ptr = 0
      BY <1>7, <2>1, Spots
    <2>2. CASE ptr > 0
      <3>1. ptr - 1 \in Nat /\ size - 1 \in Nat /\ ptr - 1 <= size - 1 /\ (ptr - 1) + 1 = ptr
        BY <1>8, <2>2
      <3>2. K(ptr - 1) <= K(size - 1) /\ K(ptr - 1) \in Nat /\ K(size - 1) \in Nat /\ K(ptr) \in Nat
        BY <1>8, <3>1, Spots
      <3>3. K(ptr) <= K(ptr - 1) + 1
        <4>1. \A i \in Nat : K(i + 1) <= K(i) + 1
          <5> TAKE i \in Nat
          <5> DEFINE k == K(i)
          <5>1. k \in Nat /\ (K(i + 1) = k + 1 \/ K(i + 1) = k)
            BY Spots
          <5> HIDE DEF k
          <5>2. K(i + 1) <= k + 1
            BY <5>1
          <5> QED
            BY <5>2 DEF k
        <4> QED
          BY <3>1, <4>1
      <3> QED
        BY <1>7, <1>8, <2>2, <3>2, <3>3
    <2> QED
      BY <1>8, <2>1, <2>2
  <1> QED
    BY <1>1, <1>2, <1>3, <1>4, <1>6, <1>7, <1>9

\* The spot of a cell that the blocks of the packet hold.
LEMMA SpotIs ==
    ASSUME NEW m, NEW own, Chains(m, own), NEW p \in Blocks, Threaded(own[p], p, m.next),
           NEW i \in Nat, K(i) < Len(own[p])
    PROVE /\ Spot(m, p, i) = [block |-> own[p][K(i) + 1], pos |-> P(i)]
          /\ CellAt(m, p, i) = m.cell[own[p][K(i) + 1]][P(i)]
          /\ own[p][K(i) + 1] \in Blocks /\ P(i) \in 0 .. BlockSize - 1
  <1>1. p \in Owners
    BY Sizes DEF Blocks, Owners
  <1>2. own[p] \in Seq(Blocks) /\ IsInjective(own[p]) /\ Len(own[p]) \in 0 .. NumBlocks
        /\ \A j \in 1 .. Len(own[p]) : own[p][j] \in Blocks
    BY <1>1, OwnIs
  <1>3. \A j \in 0 .. NumBlocks : Behind(m, p)[j] = IF j < Len(own[p]) THEN own[p][j + 1] ELSE 0
    BY <1>2, BehindIs
  <1>4. K(i) \in Nat /\ P(i) \in 0 .. BlockSize - 1
    BY Spots
  <1>5. K(i) \in 0 .. NumBlocks /\ K(i) + 1 \in 1 .. Len(own[p])
    <2> DEFINE k == K(i)
               L == Len(own[p])
    <2>1. k \in Nat /\ L \in 0 .. NumBlocks /\ k < L /\ NumBlocks \in Nat
      BY <1>2, <1>4, Sizes
    <2> HIDE DEF k, L
    <2>2. k \in 0 .. NumBlocks /\ k + 1 \in 1 .. L
      BY <2>1
    <2> QED
      BY <2>2 DEF k, L
  <1>6. Behind(m, p)[K(i)] = own[p][K(i) + 1]
    BY <1>3, <1>5
  <1>7. Spot(m, p, i) = [block |-> own[p][K(i) + 1], pos |-> P(i)]
    BY <1>6 DEF Spot, K, P
  <1> QED
    BY <1>2, <1>4, <1>5, <1>7 DEF CellAt

IOSet(m, p, io) == [m EXCEPT !.io[p] = io]
CellSet(m, cells) == [m EXCEPT !.cell = cells]
DataSet(data, p, d) == [data EXCEPT ![p] = d]

\* Only the record of one packet changes.
LEMMA CursorIs ==
    ASSUME NEW m, NEW own, NEW data, MemOK(m, own, data), NEW p \in Blocks, m.io[p].count > 0,
           NEW io \in IORecord, io.count > 0, NEW d \in Seq(Nat), PacketOK(m.cell, own[p], io, d),
           NEW m2, m2 = IOSet(m, p, io)
    PROVE /\ MemOK(m2, own, DataSet(data, p, d))
          /\ m2.io = [m.io EXCEPT ![p] = io] /\ m2.io[p] = io /\ m2.cell = m.cell /\ m2.next = m.next
          /\ m2.made = m.made /\ m2.free = m.free
  <1>1. m \in Memory /\ Chains(m, own) /\ m.io \in [Blocks -> IORecord] /\ data \in [Blocks -> Seq(Nat)]
    BY LiveIs
  <1>2. m2 \in Memory
        /\ m2 = [cell |-> m.cell, next |-> m.next, free |-> m.free, made |-> m.made, io |-> [m.io EXCEPT ![p] = io]]
    BY <1>1, WithIO DEF IOSet
  <1>3. m2.io = [m.io EXCEPT ![p] = io] /\ m2.cell = m.cell /\ m2.next = m.next /\ m2.made = m.made
        /\ m2.free = m.free
    BY <1>2
  <1>4. \A x \in Blocks : m2.io[x] = IF x = p THEN io ELSE m.io[x]
    BY <1>1, <1>3
  <1>5. Linked(m2, own)
    <2>1. Linked(m, own)
      BY <1>1 DEF Chains
    <2>2. \A x \in Blocks : m2.io[x].count > 0 <=> m.io[x].count > 0
      BY <1>4
    <2> QED
      BY <1>3, <2>1, <2>2 DEF Linked
  <1>6. Chains(m2, own)
    BY <1>1, <1>3, <1>5 DEF Chains
  <1> DEFINE data2 == DataSet(data, p, d)
  <1>7. data2 \in [Blocks -> Seq(Nat)] /\ \A x \in Blocks : data2[x] = IF x = p THEN d ELSE data[x]
    BY <1>1 DEF DataSet
  <1> HIDE DEF data2
  <1>8. ASSUME NEW x \in Blocks, m2.io[x].count > 0 PROVE PacketOK(m2.cell, own[x], m2.io[x], data2[x])
    <2>1. CASE x = p
      BY <1>3, <1>4, <1>7, <2>1
    <2>2. CASE x # p
      BY <1>3, <1>4, <1>7, <1>8, <2>2 DEF MemOK
    <2> QED
      BY <2>1, <2>2
  <1>9. MemOK(m2, own, data2)
    BY <1>2, <1>6, <1>7, <1>8 DEF MemOK
  <1> QED
    BY <1>3, <1>4, <1>9 DEF data2

\* Only cells of one packet change.
LEMMA CellsIs ==
    ASSUME NEW m, NEW own, NEW data, MemOK(m, own, data), NEW p \in Blocks, m.io[p].count > 0,
           NEW cells \in [Blocks -> [0 .. BlockSize - 1 -> Nat]], NEW d \in Seq(Nat),
           PacketOK(cells, own[p], m.io[p], d),
           \A b \in Blocks : (\A i \in 1 .. Len(own[p]) : own[p][i] # b) => cells[b] = m.cell[b],
           NEW m2, m2 = CellSet(m, cells)
    PROVE /\ MemOK(m2, own, DataSet(data, p, d))
          /\ m2.io = m.io /\ m2.cell = cells /\ m2.next = m.next /\ m2.made = m.made /\ m2.free = m.free
  <1>1. m \in Memory /\ Chains(m, own) /\ m.io \in [Blocks -> IORecord] /\ data \in [Blocks -> Seq(Nat)]
    BY LiveIs
  <1>2. m2 \in Memory
        /\ m2 = [cell |-> cells, next |-> m.next, free |-> m.free, made |-> m.made, io |-> m.io]
    BY <1>1, WithCell DEF CellSet
  <1>3. m2.io = m.io /\ m2.cell = cells /\ m2.next = m.next /\ m2.made = m.made /\ m2.free = m.free
    BY <1>2
  <1>4. Chains(m2, own)
    BY <1>1, <1>3 DEF Chains, Linked
  <1> DEFINE data2 == DataSet(data, p, d)
  <1>5. data2 \in [Blocks -> Seq(Nat)] /\ \A x \in Blocks : data2[x] = IF x = p THEN d ELSE data[x]
    BY <1>1 DEF DataSet
  <1> HIDE DEF data2
  <1>6. ASSUME NEW x \in Blocks, m2.io[x].count > 0 PROVE PacketOK(m2.cell, own[x], m2.io[x], data2[x])
    <2>1. CASE x = p
      BY <1>3, <1>5, <2>1
    <2>2. CASE x # p
      <3>1. PacketOK(m.cell, own[x], m.io[x], data[x]) /\ m.io[x].count > 0
        BY <1>3, <1>6 DEF MemOK
      <3>2. own[x] \in Seq(Blocks) /\ \A i \in 1 .. Len(own[x]) : own[x][i] \in Blocks
        BY <3>1, LiveIs
      <3>3. \A j \in 1 .. Len(own[x]) : cells[own[x][j]] = m.cell[own[x][j]]
        <4> TAKE j \in 1 .. Len(own[x])
        <4>1. \A i \in 1 .. Len(own[p]) : own[p][i] # own[x][j]
          <5>1. p \in Owners /\ x \in Owners /\ Apart(own)
            BY <1>1, Sizes DEF Owners, Blocks, Chains
          <5> QED
            BY <2>2, <5>1 DEF Apart
        <4> QED
          BY <3>2, <4>1
      <3>4. m.io[x].size \in Nat /\ Len(own[x]) \in Nat
        BY <1>1, <3>2, IORecordIs
      <3>5. \A i \in 0 .. m.io[x].size - 1 : K(i) + 1 \in 1 .. Len(own[x])
        <4> TAKE i \in 0 .. m.io[x].size - 1
        <4> DEFINE s == m.io[x].size
                   L == Len(own[x])
        <4>1. s \in Nat /\ i \in Nat /\ s - 1 \in Nat /\ i <= s - 1 /\ s > 0 /\ L \in Nat /\ K(s - 1) < L
          BY <3>1, <3>4 DEF PacketOK
        <4> HIDE DEF s, L
        <4>2. K(i) <= K(s - 1) /\ K(i) \in Nat /\ K(s - 1) \in Nat
          BY <4>1, Spots
        <4>3. K(i) + 1 \in 1 .. L
          BY <4>1, <4>2
        <4> QED
          BY <4>3 DEF L
      <3>6. \A i \in 0 .. m.io[x].size - 1 : cells[own[x][K(i) + 1]][P(i)] = data[x][i + 1]
        BY <3>1, <3>3, <3>5 DEF PacketOK
      <3>7. PacketOK(cells, own[x], m.io[x], data[x])
        BY <3>1, <3>6 DEF PacketOK
      <3> QED
        BY <1>3, <1>5, <2>2, <3>7
    <2> QED
      BY <2>1, <2>2
  <1>7. MemOK(m2, own, data2)
    BY <1>2, <1>4, <1>5, <1>6 DEF MemOK
  <1> QED
    BY <1>3, <1>7 DEF data2

\* A block behind the last one of a packet.
LEMMA LongerIs ==
    ASSUME NEW m, NEW own, NEW data, MemOK(m, own, data), NEW p \in Blocks, m.io[p].count > 0,
           Spare(m, own) > 0, NEW b, b = own[p][Len(own[p])], NEW m2, m2 = Longer(m, b)
    PROVE \E own2 :
            /\ MemOK(m2, own2, data) /\ m2.cell = m.cell /\ m2.io = m.io
            /\ \A x \in Blocks \ {p} : own2[x] = own[x]
            /\ own2[p] = Append(own[p], m2.next[b]) /\ Spare(m2, own2) = Spare(m, own) - 1
  <1> DEFINE n == NewBlock(m)
             m1 == Create(m)
             own1 == OwnLess(m, own)
             own2 == OwnMore(own1, p, n)
  <1>1. /\ m \in Memory /\ Chains(m, own) /\ m.io \in [Blocks -> IORecord]
        /\ own[p] \in Seq(Blocks) /\ Len(own[p]) \in Nat /\ Len(own[p]) >= 1 /\ Threaded(own[p], p, m.next)
        /\ \A i \in 1 .. Len(own[p]) : own[p][i] \in Blocks
    BY LiveIs
  <1>2. /\ n \in Blocks /\ m1 \in Memory /\ m1.cell = m.cell /\ m1.io = m.io
        /\ m1.next = [m.next EXCEPT ![n] = 0]
        /\ Loose(own1, m1.made, n) /\ Threaded(own1[0], m1.free, m1.next)
        /\ \A x \in Blocks : own1[x] = own[x]
        /\ NumBlocks - m1.made + Len(own1[0]) = Spare(m, own) - 1
    BY <1>1, CreateIs
  <1>4. p \in Owners /\ 0 \in Owners /\ p # 0 /\ Blocks \subseteq Owners /\ 0 \notin Blocks
    BY Sizes DEF Owners, Blocks
  <1>5. b \in Blocks /\ Len(own[p]) \in 1 .. Len(own[p])
    BY <1>1
  <1>6. m.next \in [Blocks -> 0 .. NumBlocks] /\ n \in 0 .. NumBlocks
    BY <1>1, <1>2, MemoryIs DEF Blocks
  <1>7. m.next[b] = 0
    BY <1>1, <1>5 DEF Threaded
  <1>8. m2 = [m1 EXCEPT !.next[b] = n]
    BY <1>7 DEF Longer
  <1> HIDE DEF n, m1, own1
  <1>9. /\ m2 \in Memory
        /\ m2 = [cell |-> m1.cell, next |-> [m1.next EXCEPT ![b] = n], free |-> m1.free, made |-> m1.made, io |-> m1.io]
    <2>1. m1 \in Memory /\ b \in Blocks /\ n \in 0 .. NumBlocks
      BY <1>2, <1>5, <1>6
    <2> QED
      BY <1>8, <2>1, WithNext
  <1>10. /\ m2.cell = m.cell /\ m2.io = m.io /\ m2.next = [m1.next EXCEPT ![b] = n] /\ m2.free = m1.free
         /\ m2.made = m1.made
    BY <1>2, <1>9
  <1>11. /\ own2 \in [Owners -> Seq(Blocks)] /\ Apart(own2) /\ Covers(own2, m1.made)
         /\ own2[p] = Append(own1[p], n) /\ Len(own2[p]) = Len(own1[p]) + 1
         /\ \A y \in Owners \ {p} : own2[y] = own1[y]
    <2>1. own2 = OwnMore(own1, p, n)
      OBVIOUS
    <2> HIDE DEF own2
    <2>2. n \in Blocks /\ Loose(own1, m1.made, n) /\ p \in Owners
      BY <1>2, <1>4
    <2> DEFINE made == m1.made
    <2>3. Loose(own1, made, n)
      BY <2>2
    <2> HIDE DEF made
    <2>4. /\ own2 \in [Owners -> Seq(Blocks)] /\ Apart(own2) /\ Covers(own2, made)
          /\ own2[p] = Append(own1[p], n) /\ Len(own2[p]) = Len(own1[p]) + 1
          /\ \A y \in Owners \ {p} : own2[y] = own1[y]
      BY <2>1, <2>2, <2>3, AddedTo
    <2> QED
      BY <2>4 DEF made
  <1> HIDE DEF own2
  <1>12. \A x \in Owners : \A i \in 1 .. Len(own1[x]) : own1[x][i] # n /\ own1[x][i] \in Blocks
    <2>1. own1 \in [Owners -> Seq(Blocks)] /\ \A x \in Owners : \A i \in 1 .. Len(own1[x]) : own1[x][i] # n
      BY <1>2 DEF Loose
    <2>2. \A x \in Owners : own1[x] \in Seq(Blocks)
      BY <2>1
    <2>3. \A x \in Owners : \A i \in 1 .. Len(own1[x]) : own1[x][i] \in Blocks
      BY <2>2
    <2> QED
      BY <2>1, <2>3
  <1>13. b # n
    BY <1>2, <1>4, <1>5, <1>12
  <1>14. \A x \in Owners \ {p} : \A i \in 1 .. Len(own1[x]) : own1[x][i] # b
    <2>1. Apart(own1)
      BY <1>2 DEF Loose
    <2> QED
      BY <1>2, <1>4, <1>5, <2>1 DEF Apart
  <1>15. \A c \in Blocks : m2.next[c] = IF c = b THEN n ELSE IF c = n THEN 0 ELSE m.next[c]
    BY <1>2, <1>5, <1>6, <1>10
  <1>16. Threaded(own2[0], m2.free, m2.next)
    <2>1. \A i \in 1 .. Len(own1[0]) : m2.next[own1[0][i]] = m1.next[own1[0][i]]
      <3> TAKE i \in 1 .. Len(own1[0])
      <3>1. own1[0][i] \in Blocks /\ own1[0][i] # b
        BY <1>4, <1>12, <1>14
      <3>2. m1.next \in [Blocks -> 0 .. NumBlocks]
        BY <1>2, MemoryIs
      <3> QED
        BY <1>10, <3>1, <3>2
    <2>2. own2[0] = own1[0] /\ m2.free = m1.free
      BY <1>4, <1>10, <1>11
    <2>3. Threaded(own1[0], m1.free, m1.next)
      BY <1>2
    <2> QED
      BY <2>1, <2>2, <2>3, ThreadedSame, Zenon
  <1>17. ASSUME NEW x \in Blocks
         PROVE IF m2.io[x].count > 0 THEN own2[x] # <<>> /\ Threaded(own2[x], x, m2.next) ELSE own2[x] = <<>>
    <2>1. CASE x = p
      <3>1. own2[p] = Append(own[p], n)
        BY <1>2, <1>11
      <3>2. \A i \in 1 .. Len(own[p]) - 1 : m2.next[own[p][i]] = m.next[own[p][i]]
        <4> TAKE i \in 1 .. Len(own[p]) - 1
        <4>1. i \in 1 .. Len(own[p]) /\ i # Len(own[p])
          BY <1>1
        <4>2. Apart(own)
          BY <1>1 DEF Chains
        <4>3. own[p][i] # b
          BY <1>4, <1>5, <4>1, <4>2 DEF Apart
        <4>4. own[p][i] # n /\ own[p][i] \in Blocks
          BY <1>1, <1>2, <1>4, <1>12, <4>1
        <4> QED
          BY <1>15, <4>3, <4>4
      <3>3. m2.next[own[p][Len(own[p])]] = n /\ m2.next[n] = 0
        BY <1>2, <1>5, <1>13, <1>15
      <3>4. own[p] # <<>>
        BY <1>1, NoneIs
      <3>5. Threaded(Append(own[p], n), p, m2.next)
        <4> DEFINE q == own[p]
                   nx == m.next
                   nx2 == m2.next
        <4>1. q \in Seq(Blocks) /\ Threaded(q, p, nx) /\ q # <<>>
          BY <1>1, <3>4
        <4>2. (\A i \in 1 .. Len(q) - 1 : nx2[q[i]] = nx[q[i]]) /\ nx2[q[Len(q)]] = n /\ nx2[n] = 0
          BY <3>2, <3>3
        <4> HIDE DEF q, nx, nx2
        <4>3. Threaded(Append(q, n), p, nx2)
          BY <4>1, <4>2, ThreadedAppend
        <4> QED
          BY <4>3 DEF q, nx2
      <3>6. Append(own[p], n) # <<>>
        BY <1>1, <1>2
      <3> QED
        BY <1>10, <2>1, <3>1, <3>5, <3>6
    <2>2. CASE x # p
      <3>1. own2[x] = own[x] /\ own1[x] = own[x]
        BY <1>2, <1>4, <1>11, <2>2
      <3>2. IF m.io[x].count > 0 THEN own[x] # <<>> /\ Threaded(own[x], x, m.next) ELSE own[x] = <<>>
        BY <1>1 DEF Chains, Linked
      <3>3. \A i \in 1 .. Len(own[x]) : m2.next[own[x][i]] = m.next[own[x][i]]
        BY <1>4, <1>12, <1>14, <1>15, <2>2, <3>1
      <3> QED
        BY <1>10, <3>1, <3>2, <3>3, ThreadedSame
    <2> QED
      BY <2>1, <2>2
  <1>18. Chains(m2, own2)
    BY <1>10, <1>11, <1>16, <1>17 DEF Chains, Linked
  <1>19. ASSUME NEW x \in Blocks, m2.io[x].count > 0 PROVE PacketOK(m2.cell, own2[x], m2.io[x], data[x])
    <2>1. m.io[x].count > 0 /\ PacketOK(m.cell, own[x], m.io[x], data[x])
      BY <1>10, <1>19 DEF MemOK
    <2>2. CASE x # p
      BY <1>2, <1>4, <1>10, <1>11, <2>1, <2>2
    <2>3. CASE x = p
      <3> DEFINE q == own[p]
                 q2 == own2[p]
                 io == m.io[p]
                 L == Len(own[p])
      <3>1. L \in Nat /\ Len(q2) = L + 1 /\ \A i \in 1 .. L : q2[i] = q[i]
        BY <1>1, <1>2, <1>11
      <3>2. PacketOK(m.cell, q, io, data[p]) /\ io \in IORecord
        BY <1>1, <2>1, <2>3
      <3>3. io.ptr \in Nat /\ io.size \in Nat
        BY <3>2, IORecordIs
      <3>4. \A i \in Nat : K(i) \in Nat
        BY Spots
      <3>5. \A i \in Nat : K(i) < L => K(i) < Len(q2) /\ q2[K(i) + 1] = q[K(i) + 1]
        <4> TAKE i \in Nat
        <4> DEFINE k == K(i)
        <4>1. k \in Nat
          BY <3>4
        <4> HIDE DEF k, q, q2, L
        <4>2. k < L => k < Len(q2) /\ k + 1 \in 1 .. L
          BY <3>1, <4>1
        <4>3. k < L => k < Len(q2) /\ q2[k + 1] = q[k + 1]
          BY <3>1, <4>2
        <4> QED
          BY <4>3 DEF k
      <3>6. \A i \in 0 .. io.size - 1 : K(i) < L
        <4> TAKE i \in 0 .. io.size - 1
        <4> DEFINE s == io.size
        <4>1. s \in Nat /\ i \in Nat /\ s - 1 \in Nat /\ i <= s - 1 /\ s > 0 /\ K(s - 1) < L
          BY <3>2, <3>3 DEF PacketOK
        <4>2. K(i) <= K(s - 1) /\ K(i) \in Nat /\ K(s - 1) \in Nat
          BY <4>1, Spots
        <4> HIDE DEF s, L
        <4> QED
          BY <3>1, <4>1, <4>2
      <3>7. io.ptr <= io.size /\ Len(data[p]) = io.size /\ (io.size > 0 => K(io.size - 1) < Len(q2))
        <4>1. io.ptr <= io.size /\ Len(data[p]) = io.size /\ (io.size > 0 => K(io.size - 1) < L)
          BY <3>2 DEF PacketOK
        <4>2. io.size > 0 => io.size - 1 \in Nat
          BY <3>3
        <4> QED
          BY <3>5, <4>1, <4>2
      <3>8. OnSpot(io, q2)
        <4>1. OnSpot(io, q)
          BY <3>2 DEF PacketOK
        <4>2. io.ptr > 0 => io.ptr - 1 \in Nat
          BY <3>3
        <4> HIDE DEF io, q, q2
        <4> QED
          BY <3>3, <3>5, <4>1, <4>2 DEF OnSpot, q
      <3>9. \A i \in 0 .. io.size - 1 : m.cell[q2[K(i) + 1]][P(i)] = data[p][i + 1]
        <4> TAKE i \in 0 .. io.size - 1
        <4>1. i \in Nat
          BY <3>3
        <4>2. m.cell[q[K(i) + 1]][P(i)] = data[p][i + 1]
          BY <3>2 DEF PacketOK
        <4> QED
          BY <3>5, <3>6, <4>1, <4>2
      <3>10. PacketOK(m.cell, q2, io, data[p])
        BY <3>7, <3>8, <3>9 DEF PacketOK
      <3> QED
        BY <1>10, <2>3, <3>10
    <2> QED
      BY <2>2, <2>3
  <1>20. MemOK(m2, own2, data)
    BY <1>9, <1>18, <1>19 DEF MemOK
  <1>21. own2[p] = Append(own[p], m2.next[b])
    BY <1>2, <1>5, <1>11, <1>15
  <1>22. Spare(m2, own2) = Spare(m, own) - 1
    BY <1>2, <1>4, <1>10, <1>11 DEF Spare
  <1>23. \A x \in Blocks \ {p} : own2[x] = own[x]
    BY <1>2, <1>4, <1>11
  <1> QED
    BY <1>10, <1>20, <1>21, <1>22, <1>23

\* The blocks of a packet are as many as its cells need.
LEMMA HeldIs ==
    ASSUME NEW m, NEW own, NEW data, MemOK(m, own, data), NEW p \in Blocks, m.io[p].count > 0
    PROVE \A i \in 0 .. m.io[p].size - 1 :
              K(i) < Len(own[p]) /\ K(i) \in Nat /\ K(i) + 1 \in 1 .. Len(own[p]) /\ own[p][K(i) + 1] \in Blocks
              /\ P(i) \in 0 .. BlockSize - 1 /\ m.cell[own[p][K(i) + 1]][P(i)] = data[p][i + 1]
  <1> TAKE i \in 0 .. m.io[p].size - 1
  <1> DEFINE s == m.io[p].size
             L == Len(own[p])
  <1>1. s \in Nat /\ L \in Nat /\ PacketOK(m.cell, own[p], m.io[p], data[p])
        /\ \A j \in 1 .. Len(own[p]) : own[p][j] \in Blocks
    BY LiveIs, IORecordIs
  <1>2. m.cell[own[p][K(i) + 1]][P(i)] = data[p][i + 1]
    BY <1>1 DEF PacketOK
  <1>3. i \in Nat /\ s - 1 \in Nat /\ i <= s - 1 /\ s > 0 /\ K(s - 1) < L
    BY <1>1 DEF PacketOK
  <1>4. K(i) <= K(s - 1) /\ K(i) \in Nat /\ K(s - 1) \in Nat /\ P(i) \in 0 .. BlockSize - 1
    BY <1>3, Spots
  <1>5. K(i) < L /\ K(i) + 1 \in 1 .. L
    <2> DEFINE k == K(i)
               k1 == K(s - 1)
    <2>1. k \in Nat /\ k1 \in Nat /\ k <= k1 /\ k1 < L /\ L \in Nat
      BY <1>1, <1>3, <1>4
    <2> HIDE DEF k, k1, L
    <2>2. k < L /\ k + 1 \in 1 .. L
      BY <2>1
    <2> QED
      BY <2>2 DEF k
  <1> QED
    BY <1>1, <1>2, <1>4, <1>5

Stored(d, i, c) == [j \in 1 .. (IF i + 1 > Len(d) THEN i + 1 ELSE Len(d)) |-> IF j = i + 1 THEN c ELSE d[j]]
Larger(io, ptr) == IF ptr > io.size THEN ptr ELSE io.size

\* One cell of a sequence is set, or one added.
LEMMA StoredIs ==
    ASSUME NEW d \in Seq(Nat), NEW i \in 0 .. Len(d), NEW c \in Nat
    PROVE /\ Stored(d, i, c) \in Seq(Nat) /\ Len(Stored(d, i, c)) = IF i + 1 > Len(d) THEN i + 1 ELSE Len(d)
          /\ \A j \in 1 .. Len(Stored(d, i, c)) : Stored(d, i, c)[j] = IF j = i + 1 THEN c ELSE d[j]
  <1> DEFINE l == IF i + 1 > Len(d) THEN i + 1 ELSE Len(d)
             t == [j \in 1 .. l |-> IF j = i + 1 THEN c ELSE d[j]]
  <1>1. l \in Nat /\ \A j \in 1 .. l : j = i + 1 \/ j \in 1 .. Len(d)
    OBVIOUS
  <1>2. \A j \in 1 .. Len(d) : d[j] \in Nat
    OBVIOUS
  <1> HIDE DEF l
  <1>3. t \in [1 .. l -> Nat]
    BY <1>1, <1>2
  <1>4. t \in Seq(Nat) /\ Len(t) = l
    BY <1>1, <1>3
  <1>5. Stored(d, i, c) = t
    BY DEF Stored, l
  <1>6. \A j \in 1 .. l : t[j] = IF j = i + 1 THEN c ELSE d[j]
    OBVIOUS
  <1> HIDE DEF t
  <1> QED
    BY <1>4, <1>5, <1>6 DEF l

\* A cell is replaced: no other cell of a packet is in the same place.
CellPut(cells, b, pos, v) == [cells EXCEPT ![b][pos] = v]

\* A cell is set in one spot, which is no other spot of the packet.
LEMMA SpotPut ==
    ASSUME NEW m, NEW own, Chains(m, own), NEW p \in Blocks, NEW q, q = own[p],
           NEW i \in Nat, K(i) + 1 \in 1 .. Len(q), NEW cells \in [Blocks -> [0 .. BlockSize - 1 -> Nat]],
           NEW v \in Nat, NEW cells2, cells2 = CellPut(cells, q[K(i) + 1], P(i), v)
    PROVE /\ cells2 \in [Blocks -> [0 .. BlockSize - 1 -> Nat]]
          /\ \A b \in Blocks : b # q[K(i) + 1] => cells2[b] = cells[b]
          /\ \A j \in Nat : K(j) + 1 \in 1 .. Len(q) =>
                cells2[q[K(j) + 1]][P(j)] = IF j = i THEN v ELSE cells[q[K(j) + 1]][P(j)]
  <1> DEFINE c == q[K(i) + 1]
             x == P(i)
  <1>1. p \in Owners
    BY Sizes DEF Owners, Blocks
  <1>2. q \in Seq(Blocks) /\ IsInjective(q) /\ \A j \in 1 .. Len(q) : q[j] \in Blocks
    BY <1>1, OwnIs
  <1>3. c \in Blocks /\ x \in 0 .. BlockSize - 1
    BY <1>2, Spots
  <1>4. cells2 = [cells EXCEPT ![c][x] = v]
    BY DEF CellPut
  <1>5. \A j \in 1 .. Len(q) : q[j] = c => j = K(i) + 1
    BY <1>2 DEF IsInjective
  <1>6. c = q[K(i) + 1] /\ x = P(i)
    OBVIOUS
  <1> HIDE DEF c, x
  <1>7. cells2 \in [Blocks -> [0 .. BlockSize - 1 -> Nat]]
    BY <1>3, <1>4
  <1>8. \A b \in Blocks : \A y \in 0 .. BlockSize - 1 : cells2[b][y] = IF b = c /\ y = x THEN v ELSE cells[b][y]
    BY <1>3, <1>4
  <1>9. \A b \in Blocks : b # c => cells2[b] = cells[b]
    BY <1>3, <1>4
  <1>10. ASSUME NEW j \in Nat, K(j) + 1 \in 1 .. Len(q)
         PROVE cells2[q[K(j) + 1]][P(j)] = IF j = i THEN v ELSE cells[q[K(j) + 1]][P(j)]
    <2>1. q[K(j) + 1] \in Blocks /\ P(j) \in 0 .. BlockSize - 1 /\ K(j) \in Nat /\ K(i) \in Nat
      BY <1>2, <1>10, Spots
    <2>2. CASE j = i
      BY <1>6, <1>8, <2>1, <2>2
    <2>3. CASE j # i
      <3>1. ~(q[K(j) + 1] = c /\ P(j) = x)
        <4> SUFFICES ASSUME q[K(j) + 1] = c, P(j) = x PROVE FALSE
          OBVIOUS
        <4>1. K(j) + 1 = K(i) + 1
          BY <1>5, <1>10
        <4>2. K(j) = K(i)
          <5> DEFINE k == K(j)
                     k1 == K(i)
          <5>1. k \in Nat /\ k1 \in Nat /\ k + 1 = k1 + 1
            BY <2>1, <4>1
          <5> HIDE DEF k, k1
          <5>2. k = k1
            BY <5>1
          <5> QED
            BY <5>2 DEF k, k1
        <4> QED
          BY <1>6, <2>3, <4>2, Spots
      <3> QED
        BY <1>8, <2>1, <2>3, <3>1
    <2> QED
      BY <2>2, <2>3
  <1> QED
    BY <1>6, <1>7, <1>9, <1>10

CellStored(m, p, c, b, pos, io) == [m EXCEPT !.cell[b][pos] = c, !.io[p] = io]

\* A cell is written in the place where the cursor is, and the cursor moves behind it.
\* The cursor behind the cell that was written.
Forth(io, b, pos) == [block |-> b, pos |-> pos + 1, ptr |-> io.ptr + 1, size |-> Larger(io, io.ptr + 1),
                      count |-> io.count, mine |-> io.mine]
CursorSet(m, m2, p, io2) == m2.io = [m.io EXCEPT ![p] = io2] /\ m2.io[p] = io2 /\ m2.made = m.made
\* _write, when the place is in a block of the packet.
LEMMA StoreIs ==
    ASSUME NEW m, NEW own, NEW data, MemOK(m, own, data), NEW p \in Blocks, m.io[p].count > 0,
           NEW c \in Nat, NEW io, io = m.io[p], K(io.ptr) < Len(own[p]),
           NEW b, b = own[p][K(io.ptr) + 1], NEW pos, pos = P(io.ptr),
           NEW io2, io2 = Forth(io, b, pos), NEW m2, m2 = CellStored(m, p, c, b, pos, io2)
    PROVE MemOK(m2, own, DataSet(data, p, Stored(data[p], io.ptr, c))) /\ CursorSet(m, m2, p, io2)
  <1> DEFINE d == data[p]
             q == own[p]
             ptr == io.ptr
             size == io.size
             cells == [m.cell EXCEPT ![b][pos] = c]
             d1 == IF ptr < size THEN [d EXCEPT ![ptr + 1] = c] ELSE d
             d2 == Stored(d, ptr, c)
             m1 == CellSet(m, cells)
  <1>1. /\ m \in Memory /\ Chains(m, own) /\ io \in IORecord /\ m.io \in [Blocks -> IORecord]
        /\ q \in Seq(Blocks) /\ Len(q) \in Nat /\ d \in Seq(Nat) /\ data \in [Blocks -> Seq(Nat)]
        /\ PacketOK(m.cell, q, io, d) /\ \A i \in 1 .. Len(q) : q[i] \in Blocks
    BY LiveIs
  <1>2. ptr \in Nat /\ size \in Nat /\ ptr <= size /\ Len(d) = size /\ io.count \in Nat /\ io.mine \in Nat
        /\ io.count > 0
    BY <1>1, IORecordIs DEF PacketOK
  <1>3. K(ptr) \in Nat /\ pos \in 0 .. BlockSize - 1 /\ K(ptr) + 1 \in 1 .. Len(q) /\ b \in Blocks
    <2>1. K(ptr) \in Nat /\ pos \in 0 .. BlockSize - 1
      BY <1>2, Spots
    <2> DEFINE k == K(ptr)
               l == Len(q)
    <2>2. k \in Nat /\ l \in Nat /\ k < l
      BY <1>1, <2>1
    <2> HIDE DEF k, l
    <2>3. k + 1 \in 1 .. l
      BY <2>2
    <2>4. K(ptr) + 1 \in 1 .. Len(q)
      BY <2>3 DEF k, l
    <2> QED
      BY <1>1, <2>1, <2>4
  <1>4. m.cell \in [Blocks -> [0 .. BlockSize - 1 -> Nat]]
    BY <1>1, MemoryIs
  <1>5. /\ cells \in [Blocks -> [0 .. BlockSize - 1 -> Nat]]
        /\ \A x \in Blocks : (\A i \in 1 .. Len(q) : q[i] # x) => cells[x] = m.cell[x]
        /\ \A i \in Nat : K(i) + 1 \in 1 .. Len(q) =>
              cells[q[K(i) + 1]][P(i)] = IF i = ptr THEN c ELSE m.cell[q[K(i) + 1]][P(i)]
    <2> DEFINE cell == m.cell
    <2>1. cells = CellPut(cell, q[K(ptr) + 1], P(ptr), c)
      BY DEF CellPut
    <2>2. q = own[p] /\ cell \in [Blocks -> [0 .. BlockSize - 1 -> Nat]] /\ Chains(m, own) /\ p \in Blocks /\ c \in Nat
      BY <1>1, <1>4
    <2>4. ptr \in Nat /\ K(ptr) + 1 \in 1 .. Len(q)
      BY <1>2, <1>3
    <2> HIDE DEF cells, q, ptr, cell
    <2>5. cells \in [Blocks -> [0 .. BlockSize - 1 -> Nat]]
      BY ONLY <2>1, <2>2, <2>4, SpotPut
    <2>6. \A x \in Blocks : (\A i \in 1 .. Len(q) : q[i] # x) => cells[x] = cell[x]
      <3>1. \A x \in Blocks : x # q[K(ptr) + 1] => cells[x] = cell[x]
        BY ONLY <2>1, <2>2, <2>4, SpotPut
      <3> QED
        BY <2>4, <3>1
    <2>7. \A i \in Nat : K(i) + 1 \in 1 .. Len(q) =>
                cells[q[K(i) + 1]][P(i)] = IF i = ptr THEN c ELSE cell[q[K(i) + 1]][P(i)]
      BY ONLY <2>1, <2>2, <2>4, SpotPut
    <2> QED
      BY <2>5, <2>6, <2>7 DEF cell
  <1> HIDE DEF cells
  <1>10. d1 \in Seq(Nat) /\ Len(d1) = size /\ \A j \in 1 .. size : d1[j] = IF j = ptr + 1 THEN c ELSE d[j]
    <2>1. CASE ptr < size
      <3>1. ptr + 1 \in 1 .. Len(d)
        BY <1>2, <2>1
      <3> DEFINE k == ptr + 1
      <3>2. d \in Seq(Nat) /\ Len(d) = size /\ c \in Nat /\ k \in 1 .. Len(d) /\ d1 = [d EXCEPT ![k] = c]
        BY <1>1, <1>2, <2>1, <3>1
      <3> HIDE DEF d, d1, k, size
      <3>3. d1 \in Seq(Nat) /\ Len(d1) = size /\ \A j \in 1 .. size : d1[j] = IF j = k THEN c ELSE d[j]
        BY ONLY <3>2
      <3> QED
        BY <3>3 DEF k
    <2>2. CASE ~(ptr < size)
      BY <1>1, <1>2, <2>2
    <2> QED
      BY <2>1, <2>2
  <1> HIDE DEF d1
  <1>11. PacketOK(cells, q, io, d1)
    <2>1. \A i \in 0 .. size - 1 : cells[q[K(i) + 1]][P(i)] = d1[i + 1]
      <3> TAKE i \in 0 .. size - 1
      <3>1. i \in Nat /\ i + 1 \in 1 .. size
        BY <1>2
      <3>2. K(i) + 1 \in 1 .. Len(q) /\ m.cell[q[K(i) + 1]][P(i)] = d[i + 1]
        BY HeldIs
      <3>3. (i = ptr) <=> (i + 1 = ptr + 1)
        BY <1>2
      <3> QED
        BY <1>5, <1>10, <3>1, <3>2, <3>3
    <2> QED
      BY <1>1, <1>2, <1>10, <2>1 DEF PacketOK
  <1>12. m1 = CellSet(m, cells)
    OBVIOUS
  <1> HIDE DEF m1, d, q
  <1>13. /\ MemOK(m1, own, DataSet(data, p, d1)) /\ m1.io = m.io /\ m1.cell = cells /\ m1.made = m.made
    <2>1. PacketOK(cells, own[p], m.io[p], d1)
      BY <1>11 DEF q
    <2>2. \A b1 \in Blocks : (\A i \in 1 .. Len(own[p]) : own[p][i] # b1) => cells[b1] = m.cell[b1]
      BY <1>5 DEF q
    <2>3. d1 \in Seq(Nat)
      BY <1>10
    <2>4. MemOK(m, own, data) /\ p \in Blocks /\ m.io[p].count > 0
      OBVIOUS
    <2>5. MemOK(m1, own, DataSet(data, p, d1))
      BY ONLY <1>5, <1>12, <2>1, <2>2, <2>3, <2>4, CellsIs
    <2>6. m1 = [cell |-> cells, next |-> m.next, free |-> m.free, made |-> m.made, io |-> m.io]
      BY <1>1, <1>5, <1>12, WithCell DEF CellSet
    <2>7. m1.io = m.io /\ m1.cell = cells /\ m1.made = m.made
      BY <2>6
    <2> QED
      BY <2>5, <2>7
  <1>14. m2 = IOSet(m1, p, io2)
    <2>1. m = [cell |-> m.cell, next |-> m.next, free |-> m.free, made |-> m.made, io |-> m.io]
      BY <1>1, MemoryIs
    <2>2. m2 = [cell |-> cells, next |-> m.next, free |-> m.free, made |-> m.made, io |-> [m.io EXCEPT ![p] = io2]]
      BY <2>1 DEF cells, CellStored
    <2>3. m1 = [cell |-> cells, next |-> m.next, free |-> m.free, made |-> m.made, io |-> m.io]
      BY <1>1, <1>5, <1>12, WithCell DEF CellSet
    <2>4. IOSet(m1, p, io2) = [cell |-> cells, next |-> m.next, free |-> m.free, made |-> m.made,
                              io |-> [m.io EXCEPT ![p] = io2]]
      BY <2>3 DEF IOSet
    <2> QED
      BY <2>2, <2>4
  <1>15. io2 \in IORecord /\ io2.count > 0
    <2>1. b \in 0 .. NumBlocks /\ pos + 1 \in 0 .. BlockSize /\ ptr + 1 \in Nat /\ Larger(io, ptr + 1) \in Nat
      <3>1. b \in 0 .. NumBlocks
        BY <1>3, Sizes DEF Blocks
      <3>2. pos + 1 \in 0 .. BlockSize
        <4> HIDE DEF ptr
        <4>1. BlockSize \in Nat /\ pos \in 0 .. BlockSize - 1
          BY <1>3, Sizes
        <4> DEFINE x == pos
        <4>2. x \in 0 .. BlockSize - 1
          BY <4>1
        <4> HIDE DEF x
        <4>3. x + 1 \in 0 .. BlockSize
          BY <4>1, <4>2
        <4> QED
          BY <4>3 DEF x
      <3>3. ptr + 1 \in Nat /\ Larger(io, ptr + 1) \in Nat
        BY <1>2 DEF Larger
      <3> QED
        BY <3>1, <3>2, <3>3
    <2> QED
      BY <1>2, <2>1, IORecordOf DEF Forth
  <1>16. d2 \in Seq(Nat) /\ Len(d2) = Larger(io, ptr + 1) /\ \A j \in 1 .. Len(d2) : d2[j] = IF j = ptr + 1 THEN c ELSE d[j]
    <2>1. ptr \in 0 .. Len(d) /\ d \in Seq(Nat)
      BY <1>1, <1>2 DEF d
    <2>2. Larger(io, ptr + 1) = IF ptr + 1 > Len(d) THEN ptr + 1 ELSE Len(d)
      BY <1>2 DEF Larger, d
    <2>3. c \in Nat /\ d2 = Stored(d, ptr, c)
      BY DEF d
    <2> HIDE DEF d2, ptr
    <2> QED
      BY <2>1, <2>2, <2>3, StoredIs
  <1> HIDE DEF d2
  <1>17. PacketOK(cells, q, io2, d2)
    <2> DEFINE s2 == Larger(io, ptr + 1)
    <2>0. /\ io2.block = b /\ io2.pos = pos + 1 /\ io2.ptr = ptr + 1 /\ io2.size = s2
      BY DEF Forth
    <2>1. s2 \in Nat /\ ptr + 1 <= s2 /\ s2 > 0 /\ (s2 = ptr + 1 \/ s2 = size) /\ (ptr + 1) - 1 = ptr
      BY <1>2 DEF Larger
    <2>2. K(s2 - 1) < Len(q)
      <3>1. CASE s2 = ptr + 1
        BY <2>1, <3>1 DEF q
      <3>2. CASE s2 = size
        BY <1>1, <2>1, <3>2 DEF PacketOK, q, d
      <3> QED
        BY ONLY <2>1, <3>1, <3>2
    <2>3. OnSpot(io2, q)
      <3>1. K(ptr) < Len(q) /\ b = q[K(ptr) + 1] /\ pos = P(ptr)
        BY DEF q
      <3>2. io2.ptr = ptr + 1 /\ ptr + 1 > 0 /\ io2.ptr - 1 = ptr
        BY <1>2, <2>0, <2>1
      <3> QED
        BY ONLY <2>0, <3>1, <3>2 DEF OnSpot
    <2>4. \A i \in 0 .. s2 - 1 : cells[q[K(i) + 1]][P(i)] = d2[i + 1]
      <3> TAKE i \in 0 .. s2 - 1
      <3>0. i \in Nat /\ i + 1 \in 1 .. Len(d2)
        BY <1>16, <2>1
      <3>1. CASE i = ptr
        BY <1>3, <1>5, <1>16, <3>0, <3>1 DEF q
      <3>2. CASE i # ptr
        <4>1. i \in 0 .. size - 1 /\ i + 1 # ptr + 1
          <5> DEFINE x == ptr
                     y == size
          <5>1. x \in Nat /\ y \in Nat /\ (s2 = x + 1 \/ s2 = y) /\ x <= y /\ i \in 0 .. s2 - 1 /\ i # x
            BY <1>2, <2>1, <3>2
          <5> HIDE DEF x, y, s2
          <5>2. i \in 0 .. y - 1 /\ i + 1 # x + 1
            BY ONLY <5>1
          <5> QED
            BY <5>2 DEF x, y
        <4>2. K(i) + 1 \in 1 .. Len(q) /\ m.cell[q[K(i) + 1]][P(i)] = d[i + 1]
          BY <4>1, HeldIs DEF q, d
        <4>3. cells[q[K(i) + 1]][P(i)] = m.cell[q[K(i) + 1]][P(i)]
          BY <1>5, <3>0, <3>2, <4>2
        <4>4. d2[i + 1] = d[i + 1]
          BY <1>16, <3>0, <4>1
        <4> QED
          BY ONLY <4>2, <4>3, <4>4
      <3> QED
        BY <3>1, <3>2
    <2> HIDE DEF s2
    <2> QED
      BY <1>2, <1>16, <2>0, <2>1, <2>2, <2>3, <2>4 DEF PacketOK, s2
  <1> DEFINE data1 == DataSet(data, p, d1)
  <1>18. MemOK(m1, own, data1) /\ PacketOK(m1.cell, own[p], io2, d2) /\ m1.io[p].count > 0
    BY <1>1, <1>13, <1>17 DEF q
  <1>19. DataSet(data1, p, d2) = DataSet(data, p, d2)
    BY <1>1 DEF DataSet
  <1> HIDE DEF data1
  <1>20. MemOK(m2, own, DataSet(data1, p, d2))
    <2>1. d2 \in Seq(Nat) /\ p \in Blocks
      BY <1>16
    <2> QED
      BY ONLY <1>14, <1>15, <2>1, <1>18, CursorIs
  <1>21. m2.io = [m.io EXCEPT ![p] = io2] /\ m2.made = m.made
    <2>1. m2 = [cell |-> cells, next |-> m.next, free |-> m.free, made |-> m.made, io |-> [m.io EXCEPT ![p] = io2]]
      <3>1. m = [cell |-> m.cell, next |-> m.next, free |-> m.free, made |-> m.made, io |-> m.io]
        BY <1>1, MemoryIs
      <3> QED
        BY <3>1 DEF cells, CellStored
    <2> QED
      BY ONLY <2>1
  <1>22. m2.io[p] = io2
    BY <1>1, <1>21
  <1> QED
    BY <1>19, <1>20, <1>21, <1>22 DEF d2, d, CursorSet

\* Whatever is done to one packet leaves the others as they are, and no block is lost.
Only(m, own, m2, own2, p) ==
    /\ \A x \in Blocks \ {p} : m2.io[x] = m.io[x] /\ own2[x] = own[x]
    /\ m2.io[p].count = m.io[p].count /\ m2.io[p].mine = m.io[p].mine
    /\ Len(own2[p]) >= Len(own[p])
    /\ Spare(m2, own2) + Len(own2[p]) = Spare(m, own) + Len(own[p])
Enough(m, own, p, i) == K(i) < Len(own[p]) + Spare(m, own)

\* Blocks that could be got.
LEMMA SpareIs ==
    ASSUME NEW m, NEW own, NEW data, MemOK(m, own, data)
    PROVE Spare(m, own) \in Nat
  <1>1. m \in Memory /\ Chains(m, own) /\ 0 \in Owners
    BY Sizes DEF MemOK, Owners
  <1>2. m.made \in 0 .. NumBlocks /\ NumBlocks \in Nat
    BY <1>1, MemoryIs, Sizes
  <1>3. Len(own[0]) \in 0 .. NumBlocks
    BY <1>1, OwnIs
  <1> DEFINE l == Len(own[0])
             a == m.made
  <1>4. a \in 0 .. NumBlocks /\ l \in 0 .. NumBlocks /\ Spare(m, own) = NumBlocks - a + l
    BY <1>2, <1>3 DEF Spare
  <1> HIDE DEF l, a
  <1> QED
    BY <1>2, <1>4

\* _write: a block may have to be put to the packet before.
LEMMA WriteCellIs ==
    ASSUME NEW m, NEW own, NEW data, MemOK(m, own, data), NEW p \in Blocks, m.io[p].count > 0,
           NEW c \in Nat, Enough(m, own, p, m.io[p].ptr), NEW m2, m2 = WriteCell(m, p, c)
    PROVE \E own2 :
            /\ MemOK(m2, own2, DataSet(data, p, Stored(data[p], m.io[p].ptr, c)))
            /\ Only(m, own, m2, own2, p)
            /\ m2.io[p].ptr = m.io[p].ptr + 1 /\ m2.io[p].size = Larger(m.io[p], m.io[p].ptr + 1)
            /\ K(m.io[p].ptr) < Len(own[p]) => own2 = own
  <1> DEFINE io == m.io[p]
             ptr == io.ptr
             q == own[p]
             L == Len(q)
             full == io.pos = BlockSize
             longer == IF full THEN Longer(m, io.block) ELSE m
             block == IF full THEN longer.next[io.block] ELSE io.block
             pos == IF full THEN 0 ELSE io.pos
             io2 == [block |-> block, pos |-> pos + 1, ptr |-> ptr + 1, size |-> Larger(io, ptr + 1),
                     count |-> io.count, mine |-> io.mine]
  <1>1. /\ m \in Memory /\ Chains(m, own) /\ io \in IORecord /\ m.io \in [Blocks -> IORecord]
        /\ q \in Seq(Blocks) /\ L \in Nat /\ L >= 1 /\ PacketOK(m.cell, q, io, data[p]) /\ K(ptr) <= L
        /\ Threaded(q, p, m.next) /\ \A i \in 1 .. L : q[i] \in Blocks
    BY LiveIs
  <1>2. ptr \in Nat /\ io.pos \in 0 .. BlockSize /\ io.count \in Nat
    BY <1>1, IORecordIs
  <1>3. OnSpot(io, q)
    BY <1>1 DEF PacketOK
  <1>4. /\ K(ptr) \in Nat /\ P(ptr) \in 0 .. BlockSize - 1 /\ BlockSize \in Nat
        /\ ptr > 0 => /\ ptr - 1 \in Nat /\ K(ptr - 1) \in Nat /\ P(ptr - 1) \in 0 .. BlockSize - 1
                      /\ IF P(ptr - 1) + 1 = BlockSize THEN K(ptr) = K(ptr - 1) + 1 /\ P(ptr) = 0
                         ELSE K(ptr) = K(ptr - 1) /\ P(ptr) = P(ptr - 1) + 1
    <2>1. ptr > 0 => ptr - 1 \in Nat /\ (ptr - 1) + 1 = ptr
      BY <1>2
    <2> HIDE DEF ptr
    <2> QED
      BY <1>2, <2>1, Spots, Sizes
  <1>5. ~full => K(ptr) < L /\ io.block = q[K(ptr) + 1] /\ io.pos = P(ptr)
    <2> HIDE DEF ptr, L, io, q
    <2> QED
      BY <1>3, <1>4 DEF OnSpot, ptr, L
  <1>6. full => ptr > 0 /\ io.block = q[K(ptr)] /\ K(ptr) \in 1 .. L /\ P(ptr) = 0
    <2> SUFFICES ASSUME full PROVE ptr > 0 /\ io.block = q[K(ptr)] /\ K(ptr) \in 1 .. L /\ P(ptr) = 0
      OBVIOUS
    <2>1. ~(io.pos = P(ptr))
      <3> DEFINE x == P(ptr)
      <3>1. x \in 0 .. BlockSize - 1 /\ BlockSize \in Nat
        BY <1>4
      <3> HIDE DEF x
      <3>2. x # BlockSize
        BY <3>1
      <3> QED
        BY <3>2 DEF x
    <2>2. ptr > 0 /\ K(ptr - 1) < L /\ io.block = q[K(ptr - 1) + 1] /\ io.pos = P(ptr - 1) + 1
      BY <1>3, <2>1 DEF OnSpot
    <2>3. K(ptr) = K(ptr - 1) + 1 /\ P(ptr) = 0 /\ K(ptr - 1) \in Nat
      BY <1>4, <2>2
    <2> DEFINE k == K(ptr - 1)
    <2>4. k \in Nat /\ k < L /\ L \in Nat
      BY <1>1, <2>2, <2>3
    <2>5. k + 1 \in 1 .. L
      <3> HIDE DEF k, L
      <3> QED
        BY <2>4
    <2> QED
      BY <2>2, <2>3, <2>5
  <1> DEFINE Reached(own1) ==
               /\ MemOK(longer, own1, data) /\ longer.io = m.io /\ K(ptr) < Len(own1[p])
               /\ block = own1[p][K(ptr) + 1] /\ pos = P(ptr)
               /\ K(ptr) < L => own1 = own
               /\ \A x \in Blocks \ {p} : own1[x] = own[x]
               /\ Len(own1[p]) >= L /\ Spare(longer, own1) + Len(own1[p]) = Spare(m, own) + L
  <1>7. \E own1 : Reached(own1)
    <2>1. CASE ~full
      <3>1. longer = m /\ block = io.block /\ pos = io.pos
        BY <2>1
      <3>2. Spare(m, own) + L = Spare(m, own) + L /\ L >= L
        BY <1>1
      <3>3. Reached(own)
        BY <1>5, <2>1, <3>1, <3>2
      <3> QED
        BY <3>3
    <2>2. CASE full /\ K(ptr) < L
      <3>1. K(ptr) \in 1 .. L /\ K(ptr) # L
        BY <1>4, <1>6, <2>2
      <3>2. m.next[io.block] = q[K(ptr) + 1]
        BY <1>6, <2>2, <3>1, <1>1 DEF Threaded
      <3>3. q[K(ptr) + 1] # 0
        <4>1. K(ptr) + 1 \in 1 .. L
          <5> DEFINE k == K(ptr)
          <5>1. k \in 1 .. L /\ k # L /\ L \in Nat
            BY <1>1, <3>1
          <5> HIDE DEF k, L
          <5>2. k + 1 \in 1 .. L
            BY <5>1
          <5> QED
            BY <5>2 DEF k
        <4> QED
          BY <1>1, <4>1, Sizes DEF Blocks
      <3>4. longer = m /\ block = q[K(ptr) + 1] /\ pos = P(ptr)
        BY <1>6, <2>2, <3>2, <3>3 DEF Longer
      <3>5. Spare(m, own) + L = Spare(m, own) + L /\ L >= L
        BY <1>1
      <3>6. Reached(own)
        BY <2>2, <3>4, <3>5
      <3> QED
        BY <3>6
    <2>3. CASE full /\ ~(K(ptr) < L)
      <3>1. K(ptr) = L
        <4> DEFINE k == K(ptr)
        <4>1. k \in Nat /\ L \in Nat /\ k <= L /\ ~(k < L)
          BY <1>1, <1>4, <2>3
        <4> HIDE DEF k, L
        <4>2. k = L
          BY <4>1
        <4> QED
          BY <4>2 DEF k
      <3>2. io.block = q[L] /\ longer = Longer(m, io.block) /\ block = longer.next[io.block] /\ pos = 0 /\ P(ptr) = 0
        BY <1>6, <2>3, <3>1
      <3>3. Spare(m, own) > 0 /\ Spare(m, own) \in Int
        <4>1. Spare(m, own) \in Int
          <5>1. Len(own[0]) \in Nat /\ m.made \in Nat /\ NumBlocks \in Nat
            BY <1>1, OwnIs, MemoryIs, Sizes DEF Owners
          <5> QED
            BY <5>1 DEF Spare
        <4> DEFINE s == Spare(m, own)
        <4>2. L < L + s /\ s \in Int
          BY <3>1, <4>1 DEF Enough
        <4> HIDE DEF s, L
        <4>3. s > 0
          BY <1>1, <4>2
        <4> QED
          BY <4>1, <4>3 DEF s
      <3> HIDE DEF longer
      <3>4. PICK own1 :
              /\ MemOK(longer, own1, data) /\ longer.io = m.io
              /\ \A x \in Blocks \ {p} : own1[x] = own[x]
              /\ own1[p] = Append(own[p], longer.next[io.block]) /\ Spare(longer, own1) = Spare(m, own) - 1
        <4>1. io.block = own[p][Len(own[p])] /\ longer = Longer(m, io.block)
          BY <3>2
        <4> HIDE DEF io
        <4> QED
          BY <3>3, <4>1, LongerIs
      <3>5. own1[p] = Append(q, block)
        BY <3>2, <3>4
      <3> HIDE DEF block, q
      <3>6. Len(own1[p]) = Len(q) + 1 /\ own1[p][Len(q) + 1] = block
        BY <1>1, <3>5
      <3> DEFINE s == Spare(m, own)
                 s1 == Spare(longer, own1)
                 L1 == Len(own1[p])
      <3>7. s \in Int /\ s1 = s - 1 /\ L1 = L + 1 /\ L \in Nat
        BY <1>1, <3>3, <3>4, <3>6
      <3> HIDE DEF s, s1, L1, L
      <3>8. L < L1 /\ L1 >= L /\ s1 + L1 = s + L
        BY <3>7
      <3>9. K(ptr) < Len(own1[p]) /\ block = own1[p][K(ptr) + 1] /\ pos = P(ptr) /\ Len(own1[p]) >= L
            /\ Spare(longer, own1) + Len(own1[p]) = Spare(m, own) + L
        BY <3>1, <3>2, <3>6, <3>8 DEF s, s1, L1, L
      <3>10. Reached(own1)
        BY <2>3, <3>4, <3>9
      <3> QED
        BY <3>10
    <2> QED
      BY <2>1, <2>2, <2>3
  <1>8. PICK own1 : Reached(own1)
    BY <1>7
  <1>9. m2 = CellStored(longer, p, c, block, pos, io2)
    <2> DEFINE io1 == Cursor(io, block, pos + 1, ptr + 1)
               io3 == [io1 EXCEPT !.size = IF ptr + 1 > @ THEN ptr + 1 ELSE @]
    <2>1. m2 = [longer EXCEPT !.cell[block][pos] = c, !.io[p] = io3]
      BY DEF WriteCell
    <2>2. io3 = io2
      <3> DEFINE pos1 == pos + 1
                 ptr1 == ptr + 1
                 size1 == Larger(io, ptr1)
      <3>1. io1 = Cursor(io, block, pos1, ptr1)
        OBVIOUS
      <3>2. io3 = [io1 EXCEPT !.size = IF ptr1 > io1.size THEN ptr1 ELSE io1.size]
        OBVIOUS
      <3>3. io2 = [block |-> block, pos |-> pos1, ptr |-> ptr1, size |-> size1, count |-> io.count,
                   mine |-> io.mine]
        OBVIOUS
      <3>4. io \in IORecord
        BY <1>1
      <3> HIDE DEF block, pos, io, io1, io2, io3, pos1, ptr1
      <3>5. io1 = [block |-> block, pos |-> pos1, ptr |-> ptr1, size |-> io.size, count |-> io.count,
                   mine |-> io.mine]
        BY <3>1, <3>4, CursorTo
      <3>6. io3 = [io1 EXCEPT !.size = size1]
        BY <3>2, <3>5 DEF Larger
      <3> HIDE DEF size1
      <3> QED
        BY <3>3, <3>5, <3>6
    <2> HIDE DEF io2, io3, longer, block, pos
    <2> QED
      BY <2>1, <2>2 DEF CellStored
  <1> HIDE DEF longer, block, pos, full
  <1>10. MemOK(longer, own1, data) /\ longer.io[p] = io /\ longer.io[p].count > 0 /\ K(ptr) < Len(own1[p])
         /\ block = own1[p][K(ptr) + 1] /\ pos = P(ptr) /\ longer.io = m.io
    BY <1>8
  <1>11. MemOK(m2, own1, DataSet(data, p, Stored(data[p], ptr, c)))
         /\ m2.io = [m.io EXCEPT ![p] = io2] /\ m2.io[p] = io2 /\ m2.made = longer.made
    <2> DEFINE iop == longer.io[p]
    <2>1. io = iop
      BY <1>10
    <2>2. io2 = [block |-> block, pos |-> pos + 1, ptr |-> iop.ptr + 1, size |-> Larger(iop, iop.ptr + 1),
                 count |-> iop.count, mine |-> iop.mine]
      BY <2>1
    <2>3. MemOK(longer, own1, data) /\ iop.count > 0 /\ K(iop.ptr) < Len(own1[p])
          /\ block = own1[p][K(iop.ptr) + 1] /\ pos = P(iop.ptr)
      BY <1>10, <2>1
    <2> HIDE DEF io, io2, iop
    <2>4. iop = longer.io[p]
      BY DEF iop
    <2>5. MemOK(m2, own1, DataSet(data, p, Stored(data[p], iop.ptr, c)))
          /\ m2.io = [longer.io EXCEPT ![p] = io2] /\ m2.io[p] = io2 /\ m2.made = longer.made
      <3>1. p \in Blocks /\ c \in Nat
        OBVIOUS
      <3>2. io2 = Forth(iop, block, pos)
        BY <2>2 DEF Forth
      <3>3. MemOK(m2, own1, DataSet(data, p, Stored(data[p], iop.ptr, c))) /\ CursorSet(longer, m2, p, io2)
        BY ONLY <1>9, <2>3, <2>4, <3>1, <3>2, StoreIs
      <3> QED
        BY <3>3 DEF CursorSet
    <2> QED
      BY <1>10, <2>1, <2>5
  <1>12. Only(m, own, m2, own1, p)
    <2>1. \A x \in Blocks \ {p} : m2.io[x] = m.io[x] /\ own1[x] = own[x]
      BY <1>1, <1>8, <1>11
    <2>2. Spare(m2, own1) = Spare(longer, own1)
      BY <1>11 DEF Spare
    <2> QED
      BY <1>8, <1>11, <2>1, <2>2 DEF Only
  <1> QED
    BY <1>8, <1>11, <1>12

LEMMA OnlyTwice ==
    ASSUME NEW m, NEW own, NEW m1, NEW own1, NEW m2, NEW own2, NEW p,
           Only(m, own, m1, own1, p), Only(m1, own1, m2, own2, p),
           Len(own[p]) \in Nat, Len(own1[p]) \in Nat, Len(own2[p]) \in Nat
    PROVE Only(m, own, m2, own2, p)
  BY DEF Only

LEMMA OnlyIO ==
    ASSUME NEW m, NEW own, NEW data, MemOK(m, own, data), NEW p \in Blocks, m.io[p].count > 0,
           NEW m2, NEW io, m2.io = [m.io EXCEPT ![p] = io], m2.made = m.made,
           io.count = m.io[p].count, io.mine = m.io[p].mine
    PROVE Only(m, own, m2, own, p)
  <1>1. m.io \in [Blocks -> IORecord] /\ Len(own[p]) \in Nat
    BY LiveIs
  <1>2. m2.io[p] = io /\ \A x \in Blocks \ {p} : m2.io[x] = m.io[x]
    BY <1>1
  <1>3. Spare(m2, own) = Spare(m, own)
    BY DEF Spare
  <1> QED
    BY <1>1, <1>2, <1>3 DEF Only

\* seek, when the cell before is there.
LEMMA SeekSpotIs ==
    ASSUME NEW m, NEW own, Chains(m, own), NEW p \in Blocks, m.io[p].count > 0,
           NEW at \in Nat, at > 0 => K(at - 1) < Len(own[p]), NEW io, io.block = SeekSpot(m, p, at).block,
           io.pos = SeekSpot(m, p, at).pos, io.ptr = at
    PROVE OnSpot(io, own[p]) /\ io.block \in 0 .. NumBlocks /\ io.pos \in 0 .. BlockSize
  <1>1. /\ Threaded(own[p], p, m.next) /\ own[p] # <<>> /\ own[p] \in Seq(Blocks)
    BY Sizes DEF Chains, Linked, Owners, Blocks
  <1>2. Blocks \subseteq 0 .. NumBlocks /\ Taken \in 0 .. BlockSize /\ BlockSize \in Nat
    BY Sizes DEF Blocks
  <1>3. CASE at = 0
    <2>1. io.block = p /\ io.pos = Taken /\ io.ptr = 0
      BY <1>3 DEF SeekSpot
    <2>2. K(0) = 0 /\ P(0) = Taken
      BY Spots
    <2>3. own[p][1] = p /\ 0 < Len(own[p])
      BY <1>1 DEF Threaded
    <2>4. OnSpot(io, own[p])
      BY <2>1, <2>2, <2>3 DEF OnSpot
    <2> QED
      BY <1>2, <2>1, <2>4
  <1>4. CASE at > 0
    <2>1. at - 1 \in Nat
      BY <1>4
    <2>2. K(at - 1) < Len(own[p])
      BY <1>4
    <2>3. /\ Spot(m, p, at - 1) = [block |-> own[p][K(at - 1) + 1], pos |-> P(at - 1)]
          /\ own[p][K(at - 1) + 1] \in Blocks /\ P(at - 1) \in 0 .. BlockSize - 1
      BY <1>1, <2>1, <2>2, SpotIs
    <2>4. io.block = own[p][K(at - 1) + 1] /\ io.pos = P(at - 1) + 1
      BY <1>4, <2>3 DEF SeekSpot
    <2>5. OnSpot(io, own[p])
      BY <1>4, <2>2, <2>4 DEF OnSpot
    <2> DEFINE x == P(at - 1)
    <2>6. x \in 0 .. BlockSize - 1
      BY <2>3
    <2> HIDE DEF x
    <2>7. x + 1 \in 0 .. BlockSize
      BY <1>2, <2>6
    <2> QED
      BY <1>2, <2>3, <2>4, <2>5, <2>7 DEF x
  <1> QED
    BY <1>3, <1>4

LEMMA DataSame ==
    ASSUME NEW data \in [Blocks -> Seq(Nat)], NEW p \in Blocks
    PROVE DataSet(data, p, data[p]) = data
  BY DEF DataSet

LEMMA DataTwice ==
    ASSUME NEW data \in [Blocks -> Seq(Nat)], NEW p \in Blocks, NEW d1, NEW d2
    PROVE DataSet(DataSet(data, p, d1), p, d2) = DataSet(data, p, d2) /\ DataSet(data, p, d1)[p] = d1
  BY DEF DataSet

\* seek
LEMMA SeekIs ==
    ASSUME NEW m, NEW own, NEW data, MemOK(m, own, data), NEW p \in Blocks, m.io[p].count > 0,
           NEW at \in Nat, NEW m2, m2 = SeekCell(m, p, at)
    PROVE /\ MemOK(m2, own, data) /\ Only(m, own, m2, own, p) /\ m2.cell = m.cell /\ m2.io[p].count > 0
          /\ m2.io[p].ptr = (IF at > m.io[p].size THEN m.io[p].ptr ELSE at) /\ m2.io[p].size = m.io[p].size
          /\ m2.next = m.next
  <1> DEFINE io == m.io[p]
  <1>1. /\ io \in IORecord /\ m.io \in [Blocks -> IORecord] /\ data[p] \in Seq(Nat) /\ data \in [Blocks -> Seq(Nat)]
        /\ PacketOK(m.cell, own[p], io, data[p]) /\ m \in Memory
    BY LiveIs
  <1>2. io.ptr \in Nat /\ io.size \in Nat /\ io.count \in Nat /\ io.mine \in Nat
    BY <1>1, IORecordIs
  <1>3. CASE at > io.size
    <2>1. m2 = m
      BY <1>3 DEF SeekCell
    <2>2. Len(own[p]) \in Nat
      BY LiveIs
    <2>3. Only(m, own, m, own, p)
      BY <2>2 DEF Only
    <2> QED
      BY <1>3, <2>1, <2>3
  <1>4. CASE ~(at > io.size)
    <2> DEFINE b == SeekSpot(m, p, at).block
               x == SeekSpot(m, p, at).pos
               io2 == Cursor(io, b, x, at)
    <2>1. m2 = IOSet(m, p, io2)
      BY <1>4 DEF SeekCell, IOSet
    <2>2. io2 = Cursor(io, b, x, at)
      OBVIOUS
    <2> HIDE DEF b, x, io2, io
    <2>3. io2 = [block |-> b, pos |-> x, ptr |-> at, size |-> io.size, count |-> io.count, mine |-> io.mine]
      BY <1>1, <2>2, CursorTo
    <2>4. io2.block = b /\ io2.pos = x /\ io2.ptr = at /\ io2.size = io.size /\ io2.count = io.count
          /\ io2.mine = io.mine
      BY <2>3
    <2>5. at <= io.size
      BY <1>2, <1>4
    <2>6. OnSpot(io2, own[p]) /\ b \in 0 .. NumBlocks /\ x \in 0 .. BlockSize
      <3>1. at <= m.io[p].size /\ io2.block = SeekSpot(m, p, at).block /\ io2.pos = SeekSpot(m, p, at).pos
            /\ io2.ptr = at
        BY <2>4, <2>5 DEF b, x, io
      <3>2. OnSpot(io2, own[p]) /\ io2.block \in 0 .. NumBlocks /\ io2.pos \in 0 .. BlockSize
        <4>1. at > 0 => K(at - 1) < Len(own[p])
          <5>1. at > 0 => at - 1 \in 0 .. m.io[p].size - 1
            BY <1>2, <2>5 DEF io
          <5> QED
            BY <5>1, HeldIs
        <4>2. Chains(m, own)
          BY DEF MemOK
        <4> QED
          BY <3>1, <4>1, <4>2, SeekSpotIs
      <3> QED
        BY <2>4, <3>2
    <2>7. io2 \in IORecord
      BY <1>2, <2>3, <2>6, IORecordOf
    <2>8. PacketOK(m.cell, own[p], io2, data[p])
      BY <1>1, <2>4, <2>5, <2>6 DEF PacketOK
    <2>9. io2.count > 0
      BY <2>4 DEF io
    <2>10. /\ MemOK(m2, own, DataSet(data, p, data[p])) /\ m2.io = [m.io EXCEPT ![p] = io2] /\ m2.io[p] = io2
           /\ m2.cell = m.cell /\ m2.next = m.next /\ m2.made = m.made
      BY <1>1, <2>1, <2>7, <2>8, <2>9, CursorIs
    <2>11. MemOK(m2, own, data)
      BY <1>1, <2>10, DataSame
    <2>12. Only(m, own, m2, own, p)
      BY <2>4, <2>10, OnlyIO DEF io
    <2> QED
      BY <1>4, <2>4, <2>9, <2>10, <2>11, <2>12 DEF io
  <1> QED
    BY <1>3, <1>4

\* read_len of one byte, at the end of the data nothing.
LEMMA ReadIs ==
    ASSUME NEW m, NEW own, NEW data, MemOK(m, own, data), NEW p \in Blocks, m.io[p].count > 0,
           NEW m2, m2 = ReadCell(m, p)
    PROVE /\ MemOK(m2, own, data) /\ Only(m, own, m2, own, p)
          /\ m2.io[p].ptr = (IF m.io[p].ptr + 1 > m.io[p].size THEN m.io[p].ptr ELSE m.io[p].ptr + 1)
  <1> DEFINE io == m.io[p]
             ptr == io.ptr
             q == own[p]
             full == io.pos = BlockSize
  <1>1. /\ io \in IORecord /\ m.io \in [Blocks -> IORecord] /\ data[p] \in Seq(Nat) /\ data \in [Blocks -> Seq(Nat)]
        /\ PacketOK(m.cell, q, io, data[p]) /\ Threaded(q, p, m.next) /\ Len(q) \in Nat /\ m \in Memory
    BY LiveIs
  <1>2. io.ptr \in Nat /\ io.size \in Nat /\ io.count \in Nat /\ io.mine \in Nat
    BY <1>1, IORecordIs
  <1>3. CASE ptr + 1 > io.size
    <2>1. m2 = m
      BY <1>3 DEF ReadCell
    <2>2. Len(own[p]) \in Nat
      BY LiveIs
    <2>3. Only(m, own, m, own, p)
      BY <2>2 DEF Only
    <2> QED
      BY <1>3, <2>1, <2>3
  <1>4. CASE ~(ptr + 1 > io.size)
    <2> DEFINE b == IF full THEN m.next[io.block] ELSE io.block
               x == IF full THEN 1 ELSE io.pos + 1
               y == ptr + 1
               io2 == Cursor(io, b, x, y)
    <2>1. m2 = IOSet(m, p, io2)
      BY <1>4 DEF ReadCell, IOSet
    <2>2. ptr \in 0 .. io.size - 1
      BY <1>2, <1>4
    <2>3. /\ K(ptr) < Len(q) /\ K(ptr) \in Nat /\ K(ptr) + 1 \in 1 .. Len(q) /\ q[K(ptr) + 1] \in Blocks
          /\ P(ptr) \in 0 .. BlockSize - 1
      BY <2>2, HeldIs
    <2>4. OnSpot(io, q)
      BY <1>1 DEF PacketOK
    <2>5. ptr > 0 => /\ ptr - 1 \in Nat /\ K(ptr - 1) \in Nat /\ P(ptr - 1) \in 0 .. BlockSize - 1
                     /\ IF P(ptr - 1) + 1 = BlockSize THEN K(ptr) = K(ptr - 1) + 1 /\ P(ptr) = 0
                        ELSE K(ptr) = K(ptr - 1) /\ P(ptr) = P(ptr - 1) + 1
      <3>1. ptr > 0 => ptr - 1 \in Nat /\ (ptr - 1) + 1 = ptr
        BY <1>2
      <3> HIDE DEF ptr
      <3> QED
        BY <3>1, Spots
    <2>6. b = q[K(ptr) + 1] /\ x = P(ptr) + 1
      <3>1. CASE full
        <4>1. io.pos # P(ptr)
          <5> DEFINE z == P(ptr)
          <5>1. z \in 0 .. BlockSize - 1 /\ BlockSize \in Nat
            BY <2>3, Sizes
          <5> HIDE DEF z
          <5>2. z # BlockSize
            BY <5>1
          <5> QED
            BY <3>1, <5>2 DEF z
        <4>2. ptr > 0 /\ K(ptr - 1) < Len(q) /\ io.block = q[K(ptr - 1) + 1] /\ io.pos = P(ptr - 1) + 1
          BY <2>4, <4>1 DEF OnSpot
        <4>3. K(ptr) = K(ptr - 1) + 1 /\ P(ptr) = 0 /\ K(ptr - 1) \in Nat
          BY <2>5, <3>1, <4>2
        <4> DEFINE k == K(ptr)
        <4>4. io.block = q[k] /\ k \in 1 .. Len(q) /\ k # Len(q)
          <5>1. k \in Nat /\ k < Len(q) /\ k = K(ptr - 1) + 1
            BY <2>3, <4>3
          <5>2. k > 0
            <6> DEFINE j == K(ptr - 1)
            <6>1. j \in Nat /\ k = j + 1
              BY <4>3
            <6> HIDE DEF j, k
            <6> QED
              BY <6>1
          <5> HIDE DEF k
          <5>3. k \in 1 .. Len(q) /\ k # Len(q)
            BY <1>1, <5>1, <5>2
          <5> QED
            BY <4>2, <5>1, <5>3
        <4>5. m.next[q[k]] = q[k + 1]
          BY <1>1, <4>4 DEF Threaded
        <4>6. b = q[K(ptr) + 1]
          BY <3>1, <4>4, <4>5
        <4>7. x = 1
          BY <3>1
        <4> QED
          BY <4>3, <4>6, <4>7
      <3>2. CASE ~full
        <4>1. K(ptr) < Len(q) /\ io.block = q[K(ptr) + 1] /\ io.pos = P(ptr)
          <5> HIDE DEF ptr, io, q
          <5> QED
            BY <2>4, <2>5, <3>2 DEF OnSpot, ptr
        <4>2. b = io.block /\ x = io.pos + 1
          BY <3>2
        <4> QED
          BY <4>1, <4>2
      <3> QED
        BY <3>1, <3>2
    <2>7. b \in 0 .. NumBlocks /\ x \in 0 .. BlockSize /\ y \in Nat /\ y > 0 /\ y - 1 = ptr /\ y <= io.size
      <3>1. b \in 0 .. NumBlocks
        BY <2>3, <2>6, Sizes DEF Blocks
      <3>2. x \in 0 .. BlockSize
        <4> DEFINE z == P(ptr)
        <4>1. z \in 0 .. BlockSize - 1 /\ BlockSize \in Nat /\ x = z + 1
          BY <2>3, <2>6, Sizes
        <4> HIDE DEF z, x
        <4> QED
          BY <4>1
      <3> QED
        BY <1>2, <1>4, <3>1, <3>2
    <2>8. io2 = Cursor(io, b, x, y)
      OBVIOUS
    <2> HIDE DEF b, x, io2, io, y
    <2>9. io2 = [block |-> b, pos |-> x, ptr |-> y, size |-> io.size, count |-> io.count, mine |-> io.mine]
      BY <1>1, <2>8, CursorTo
    <2>10. io2.block = b /\ io2.pos = x /\ io2.ptr = y /\ io2.size = io.size /\ io2.count = io.count
          /\ io2.mine = io.mine
      BY <2>9
    <2>11. OnSpot(io2, own[p])
      BY <2>3, <2>6, <2>7, <2>10 DEF OnSpot
    <2>12. io2 \in IORecord
      BY <1>2, <2>7, <2>9, IORecordOf
    <2>13. PacketOK(m.cell, own[p], io2, data[p])
      BY <1>1, <2>7, <2>10, <2>11 DEF PacketOK
    <2>14. io2.count > 0
      BY <2>10 DEF io
    <2>15. /\ MemOK(m2, own, DataSet(data, p, data[p])) /\ m2.io = [m.io EXCEPT ![p] = io2] /\ m2.io[p] = io2
           /\ m2.made = m.made
      BY <1>1, <2>1, <2>12, <2>13, <2>14, CursorIs
    <2>16. MemOK(m2, own, data)
      BY <1>1, <2>15, DataSame
    <2>17. Only(m, own, m2, own, p)
      BY <2>10, <2>15, OnlyIO DEF io
    <2>18. m2.io[p].ptr = m.io[p].ptr + 1
      BY <2>10, <2>15 DEF y, io
    <2> QED
      BY <1>4, <2>16, <2>17, <2>18 DEF io
  <1> QED
    BY <1>3, <1>4
-----------------------------------------------------------------------------
(* The functions of packet.c. *)

\* The equation of the cells written one after the other has a solution, so the one
\* chosen solves it.
LEMMA WritingIs ==
    ASSUME NEW m, NEW p, NEW cells, Len(cells) \in Nat, NEW F, F = Writing(m, p, cells)
    PROVE \A i \in 0 .. Len(cells) : F[i] = IF i = 0 THEN m ELSE WriteCell(F[i - 1], p, cells[i])
  <1> DEFINE N == Len(cells)
             Step(i, before) == IF i = 0 THEN m ELSE WriteCell(before, p, cells[i])
             Once(f) == [i \in 0 .. N |-> Step(i, f[i - 1])]
             Upto(n, f) == f = [i \in 0 .. n |-> Step(i, f[i - 1])]
             T == {n \in 0 .. N : \E f : Upto(n, f)}
  <1>1. 0 \in T
    <2> DEFINE f == [i \in 0 .. 0 |-> m]
    <2>1. \A i \in 0 .. 0 : Step(i, f[i - 1]) = m
      OBVIOUS
    <2> HIDE DEF Step
    <2>2. Upto(0, f)
      BY <2>1
    <2>3. 0 \in 0 .. N
      OBVIOUS
    <2> HIDE DEF Upto, f
    <2> QED
      BY <2>2, <2>3
  <1>2. ASSUME NEW n \in 0 .. N - 1, n \in T PROVE n + 1 \in T
    <2>1. PICK f : Upto(n, f)
      BY <1>2
    <2> DEFINE g == [i \in 0 .. n + 1 |-> IF i <= n THEN f[i] ELSE Step(n + 1, f[n])]
    <2> HIDE DEF Step
    <2>2. \A i \in 0 .. n : f[i] = Step(i, f[i - 1])
      <3>1. f = [i \in 0 .. n |-> Step(i, f[i - 1])]
        BY <2>1
      <3> QED
        BY <3>1, Zenon
    <2>3. \A i \in 0 .. n + 1 : g[i] = Step(i, g[i - 1])
      <3> SUFFICES ASSUME NEW i \in 0 .. n + 1 PROVE g[i] = Step(i, g[i - 1])
        OBVIOUS
      <3>1. CASE i = 0
        <4>1. g[0] = f[0] /\ f[0] = Step(0, f[0 - 1])
          BY <2>2
        <4>2. \A x : Step(0, x) = m
          BY DEF Step
        <4> HIDE DEF g
        <4> QED
          BY <3>1, <4>1, <4>2
      <3>2. CASE i \in 1 .. n
        <4>1. g[i] = f[i] /\ g[i - 1] = f[i - 1] /\ f[i] = Step(i, f[i - 1])
          BY <2>2, <3>2
        <4> QED
          BY <4>1, Zenon
      <3>3. CASE i = n + 1
        <4>1. g[n + 1] = Step(n + 1, f[n]) /\ g[n] = f[n] /\ (n + 1) - 1 = n
          OBVIOUS
        <4> HIDE DEF g
        <4> QED
          BY <3>3, <4>1
      <3> QED
        BY <3>1, <3>2, <3>3
    <2>4. Upto(n + 1, g)
      <3> DEFINE h == [i \in 0 .. n + 1 |-> Step(i, g[i - 1])]
      <3>1. \A i \in 0 .. n + 1 : g[i] = h[i]
        <4> HIDE DEF g
        <4> QED
          BY <2>3
      <3>2. g = [i \in 0 .. n + 1 |-> g[i]]
        OBVIOUS
      <3>3. h = [i \in 0 .. n + 1 |-> h[i]]
        OBVIOUS
      <3> HIDE DEF h, g
      <3>4. g = h
        BY <3>1, <3>2, <3>3
      <3> QED
        BY <3>4 DEF h
    <2> HIDE DEF Upto
    <2> QED
      BY <2>4
  <1>3. \E f : f = Once(f)
    <2> HIDE DEF Upto
    <2>1. N \in T
      <3> HIDE DEF T
      <3>1. 0 .. N \subseteq T
        BY <1>1, <1>2, IntervalInduction
      <3> QED
        BY <3>1
    <2>2. PICK f : Upto(N, f)
      BY <2>1
    <2> HIDE DEF Step
    <2> QED
      BY <2>2 DEF Upto
  <1>4. F = CHOOSE f : f = Once(f)
    BY Zenon DEF Writing
  <1> HIDE DEF Once
  <1>5. F = Once(F)
    BY <1>3, <1>4, Zenon
  <1> HIDE DEF Step
  <1>6. \A i \in 0 .. N : F[i] = Step(i, F[i - 1])
    BY <1>5, Zenon DEF Once
  <1> QED
    BY <1>6, Zenon DEF Step

\* The data after n of the cells have been written.
Written(d, at, cells, n) ==
    [j \in 1 .. (IF at + n > Len(d) THEN at + n ELSE Len(d)) |->
        IF j \in at + 1 .. at + n THEN cells[j - at] ELSE d[j]]

\* Cells of a sequence are overwritten, or added.
LEMMA WrittenIs ==
    ASSUME NEW d \in Seq(Nat), NEW at \in 0 .. Len(d), NEW cells \in Seq(Nat), NEW n \in 0 .. Len(cells)
    PROVE /\ Written(d, at, cells, n) \in Seq(Nat)
          /\ Len(Written(d, at, cells, n)) = IF at + n > Len(d) THEN at + n ELSE Len(d)
          /\ \A j \in 1 .. Len(Written(d, at, cells, n)) :
                Written(d, at, cells, n)[j] = IF j \in at + 1 .. at + n THEN cells[j - at] ELSE d[j]
          /\ n = 0 => Written(d, at, cells, n) = d
          /\ n < Len(cells) => Written(d, at, cells, n + 1) = Stored(Written(d, at, cells, n), at + n, cells[n + 1])
  <1> DEFINE l == IF at + n > Len(d) THEN at + n ELSE Len(d)
             t == [j \in 1 .. l |-> IF j \in at + 1 .. at + n THEN cells[j - at] ELSE d[j]]
  <1>1. l \in Nat /\ l >= Len(d) /\ \A j \in 1 .. l : (j \in at + 1 .. at + n /\ j - at \in 1 .. Len(cells)) \/ j \in 1 .. Len(d)
    OBVIOUS
  <1>2. (\A j \in 1 .. Len(d) : d[j] \in Nat) /\ \A j \in 1 .. Len(cells) : cells[j] \in Nat
    OBVIOUS
  <1>3. Written(d, at, cells, n) = t
    BY DEF Written
  <1> HIDE DEF l
  <1>4. t \in [1 .. l -> Nat]
    BY <1>1, <1>2
  <1>5. t \in Seq(Nat) /\ Len(t) = l
    BY <1>1, <1>4
  <1>6. \A j \in 1 .. l : t[j] = IF j \in at + 1 .. at + n THEN cells[j - at] ELSE d[j]
    OBVIOUS
  <1> HIDE DEF t
  <1>7. ASSUME n = 0 PROVE t = d
    <2>1. l = Len(d) /\ \A j \in 1 .. l : t[j] = d[j]
      BY <1>6, <1>7 DEF l
    <2>2. t \in [1 .. l -> Nat] /\ d \in [1 .. l -> Nat]
      BY <1>5, <2>1
    <2> QED
      BY <2>1, <2>2
  <1>8. ASSUME n < Len(cells) PROVE Written(d, at, cells, n + 1) = Stored(t, at + n, cells[n + 1])
    <2> DEFINE l1 == IF at + (n + 1) > Len(d) THEN at + (n + 1) ELSE Len(d)
               l2 == IF (at + n) + 1 > Len(t) THEN (at + n) + 1 ELSE Len(t)
               u == [j \in 1 .. l1 |-> IF j \in at + 1 .. at + (n + 1) THEN cells[j - at] ELSE d[j]]
               v == [j \in 1 .. l2 |-> IF j = (at + n) + 1 THEN cells[n + 1] ELSE t[j]]
    <2>1. l1 = l2 /\ l1 \in Nat
      BY <1>5 DEF l
    <2>2. Written(d, at, cells, n + 1) = u /\ Stored(t, at + n, cells[n + 1]) = v
      BY DEF Written, Stored
    <2>3. \A j \in 1 .. l1 : u[j] = v[j]
      <3> TAKE j \in 1 .. l1
      <3>1. u[j] = IF j \in at + 1 .. at + (n + 1) THEN cells[j - at] ELSE d[j]
        OBVIOUS
      <3>2. v[j] = IF j = (at + n) + 1 THEN cells[n + 1] ELSE t[j]
        BY <2>1
      <3> HIDE DEF u, v
      <3>3. CASE j = (at + n) + 1
        <4>1. j \in at + 1 .. at + (n + 1) /\ j - at = n + 1
          BY <3>3
        <4> QED
          BY <3>1, <3>2, <3>3, <4>1
      <3>4. CASE j # (at + n) + 1
        <4>1. j \in 1 .. l /\ (j \in at + 1 .. at + (n + 1) <=> j \in at + 1 .. at + n)
          BY <3>4 DEF l
        <4> QED
          BY <1>6, <3>1, <3>2, <3>4, <4>1
      <3> QED
        BY <3>3, <3>4
    <2> HIDE DEF l1, l2
    <2>4. u = v
      BY <2>1, <2>3
    <2> QED
      BY <2>2, <2>4
  <1> QED
    BY <1>3, <1>5, <1>6, <1>7, <1>8 DEF l

\* write_len: what was there is overwritten, and what does not fit goes behind the end.
LEMMA WriteLenIs ==
    ASSUME NEW m, NEW own, NEW data, MemOK(m, own, data), NEW p \in Blocks, m.io[p].count > 0,
           NEW cells \in Seq(Nat), NEW n, n = Len(cells), NEW at, at = m.io[p].ptr,
           n > 0 => Enough(m, own, p, at + n - 1), NEW m2, m2 = WriteLen(m, p, cells)
    PROVE \E own2 :
            /\ MemOK(m2, own2, DataSet(data, p, Written(data[p], at, cells, n)))
            /\ Only(m, own, m2, own2, p)
            /\ m2.io[p].ptr = at + n /\ m2.io[p].size = (IF at + n > m.io[p].size THEN at + n ELSE m.io[p].size)
  <1> DEFINE F == Writing(m, p, cells)
             d == data[p]
             size == m.io[p].size
             Now(i, mm, own2) ==
               /\ MemOK(mm, own2, DataSet(data, p, Written(d, at, cells, i)))
               /\ Only(m, own, mm, own2, p)
               /\ mm.io[p].ptr = at + i /\ mm.io[p].size = IF at + i > size THEN at + i ELSE size
             T == {i \in 0 .. n : \E own2 : Now(i, F[i], own2)}
  <1>1. /\ n \in Nat /\ \A i \in 0 .. n : F[i] = IF i = 0 THEN m ELSE WriteCell(F[i - 1], p, cells[i])
    <2>1. n \in Nat /\ Len(cells) \in Nat /\ n = Len(cells) /\ F = Writing(m, p, cells)
      OBVIOUS
    <2> HIDE DEF F
    <2> QED
      BY <2>1, WritingIs
  <1>2. /\ d \in Seq(Nat) /\ data \in [Blocks -> Seq(Nat)] /\ m.io[p] \in IORecord /\ Len(own[p]) \in Nat
        /\ PacketOK(m.cell, own[p], m.io[p], d)
    BY LiveIs
  <1>3. at \in Nat /\ size \in Nat /\ at <= size /\ Len(d) = size /\ at \in 0 .. Len(d)
    BY <1>2, IORecordIs DEF PacketOK
  <1>9. m2 = F[n]
    BY DEF WriteLen
  <1> HIDE DEF F, size
  <1>4. 0 \in T
    <2>1. F[0] = m /\ 0 \in 0 .. n
      BY <1>1
    <2>2. Written(d, at, cells, 0) = d
      BY <1>1, <1>2, <1>3, WrittenIs
    <2>3. DataSet(data, p, d) = data
      BY <1>2, DataSame
    <2>4. Only(m, own, m, own, p)
      BY <1>2 DEF Only
    <2>5. at + 0 = at /\ (IF at + 0 > size THEN at + 0 ELSE size) = size
      BY <1>3
    <2>6. Now(0, m, own)
      BY <2>2, <2>3, <2>4, <2>5 DEF size
    <2> HIDE DEF Now
    <2> QED
      BY <2>1, <2>6
  <1>5. ASSUME NEW i \in 0 .. n - 1, i \in T PROVE i + 1 \in T
    <2>1. PICK own1 : Now(i, F[i], own1)
      BY <1>5
    <2> DEFINE m1 == F[i]
               d1 == Written(d, at, cells, i)
               data1 == DataSet(data, p, d1)
               c == cells[i + 1]
    <2>2. i \in 0 .. n /\ i + 1 \in 0 .. n /\ i + 1 \in 1 .. n /\ i + 1 # 0 /\ (i + 1) - 1 = i /\ n > 0 /\ i \in Nat
      BY <1>1
    <2>3. F[i + 1] = WriteCell(m1, p, c)
      BY <1>1, <2>2
    <2>4. c \in Nat
      BY <2>2
    <2>5. MemOK(m1, own1, data1) /\ Only(m, own, m1, own1, p) /\ m1.io[p].ptr = at + i
          /\ m1.io[p].size = IF at + i > size THEN at + i ELSE size
      BY <2>1
    <2>6. /\ d1 \in Seq(Nat) /\ data1[p] = d1 /\ Written(d, at, cells, i + 1) = Stored(d1, at + i, c)
          /\ \A d2 : DataSet(data1, p, d2) = DataSet(data, p, d2)
      <3>1. d1 \in Seq(Nat) /\ Written(d, at, cells, i + 1) = Stored(d1, at + i, c)
        <4>1. i \in 0 .. Len(cells) /\ i < Len(cells)
          BY <1>1, <2>2
        <4>0. cells \in Seq(Nat)
          OBVIOUS
        <4>2. Written(d, at, cells, i) \in Seq(Nat)
              /\ Written(d, at, cells, i + 1) = Stored(Written(d, at, cells, i), at + i, cells[i + 1])
          <5> HIDE DEF d
          <5>1. d \in Seq(Nat) /\ at \in 0 .. Len(d)
            BY <1>2, <1>3
          <5>2. Written(d, at, cells, i) \in Seq(Nat)
            BY ONLY <5>1, <4>1, <4>0, WrittenIs
          <5>3. i < Len(cells) => Written(d, at, cells, i + 1) = Stored(Written(d, at, cells, i), at + i, cells[i + 1])
            BY ONLY <5>1, <4>1, <4>0, WrittenIs
          <5> QED
            BY <4>1, <5>2, <5>3
        <4> QED
          BY <4>2
      <3> HIDE DEF d1
      <3>2. data1[p] = d1
        BY <1>2, DataTwice
      <3>3. \A d2 : DataSet(data1, p, d2) = DataSet(data, p, d2)
        BY <1>2, DataTwice
      <3> QED
        BY <3>1, <3>2, <3>3
    <2> HIDE DEF d1, data1, c, m1
    <2>7. m1.io[p].count > 0
      BY <2>5 DEF Only
    <2>8. Enough(m1, own1, p, at + i)
      <3>1. Len(own1[p]) \in Nat
        BY <2>5, <2>7, LiveIs
      <3>2. K(at + n - 1) < Len(own[p]) + Spare(m, own) /\ at + n - 1 \in Nat /\ at + i \in Nat
            /\ at + i <= at + n - 1
        <4>1. Enough(m, own, p, at + n - 1)
          BY <2>2
        <4>2. n \in Nat /\ at \in Nat /\ i \in 0 .. n - 1
          BY <1>1, <1>3
        <4>3. at + n - 1 \in Nat /\ at + i \in Nat /\ at + i <= at + n - 1
          BY ONLY <4>2
        <4> QED
          BY <4>1, <4>3 DEF Enough
      <3>3. K(at + i) <= K(at + n - 1) /\ K(at + i) \in Nat /\ K(at + n - 1) \in Nat
        BY <3>2, Spots
      <3>4. Len(own1[p]) + Spare(m1, own1) = Len(own[p]) + Spare(m, own) /\ Spare(m1, own1) \in Int
            /\ Spare(m, own) \in Int
        <4>1. Spare(m, own) \in Int /\ Spare(m1, own1) \in Int
          BY <2>5, SpareIs
        <4>2. Spare(m1, own1) + Len(own1[p]) = Spare(m, own) + Len(own[p])
          BY <2>5 DEF Only
        <4> QED
          BY <1>2, <3>1, <4>1, <4>2
      <3> DEFINE x == K(at + i)
                 y == K(at + n - 1)
                 a == Len(own1[p]) + Spare(m1, own1)
      <3>5. x \in Nat /\ y \in Nat /\ x <= y /\ y < a /\ a \in Int
        BY <3>1, <3>2, <3>3, <3>4
      <3> HIDE DEF x, y, a
      <3>6. x < a
        BY <3>5
      <3> QED
        BY <3>6 DEF x, a, Enough
    <2>9. PICK own2 :
            /\ MemOK(F[i + 1], own2, DataSet(data1, p, Stored(data1[p], m1.io[p].ptr, c)))
            /\ Only(m1, own1, F[i + 1], own2, p)
            /\ F[i + 1].io[p].ptr = m1.io[p].ptr + 1 /\ F[i + 1].io[p].size = Larger(m1.io[p], m1.io[p].ptr + 1)
      <3>1. Enough(m1, own1, p, m1.io[p].ptr) /\ MemOK(m1, own1, data1)
        BY <2>5, <2>8
      <3> QED
        BY <2>3, <2>4, <2>7, <3>1, WriteCellIs
    <2>10. MemOK(F[i + 1], own2, DataSet(data, p, Written(d, at, cells, i + 1)))
      BY <2>5, <2>6, <2>9
    <2>11. Only(m, own, F[i + 1], own2, p)
      <3>1. Len(own1[p]) \in Nat
        BY <2>5, <2>7, LiveIs
      <3>2. Len(own2[p]) \in Nat
        <4>1. F[i + 1].io[p].count > 0
          BY <2>7, <2>9 DEF Only
        <4> QED
          BY <2>10, <4>1, LiveIs
      <3> QED
        BY <1>2, <2>5, <2>9, <3>1, <3>2, OnlyTwice
    <2>12. F[i + 1].io[p].ptr = at + (i + 1)
           /\ F[i + 1].io[p].size = IF at + (i + 1) > size THEN at + (i + 1) ELSE size
      <3>1. m1.io[p].ptr + 1 = at + (i + 1)
        <4>1. at \in Nat /\ i \in Nat /\ m1.io[p].ptr = at + i
          BY <1>3, <2>2, <2>5
        <4> QED
          BY ONLY <4>1
      <3> DEFINE s == m1.io[p].size
                 y == at + (i + 1)
      <3>2. F[i + 1].io[p].size = IF y > s THEN y ELSE s
        BY <2>9, <3>1 DEF Larger
      <3>3. s = (IF at + i > size THEN at + i ELSE size)
        BY <2>5
      <3> HIDE DEF s
      <3>4. (IF y > s THEN y ELSE s) = IF y > size THEN y ELSE size
        <4>1. at \in Nat /\ i \in Nat /\ size \in Nat
          BY <1>3, <2>2
        <4> QED
          BY ONLY <3>3, <4>1
      <3> QED
        BY <2>9, <3>1, <3>2, <3>4
    <2>13. Now(i + 1, F[i + 1], own2)
      BY <2>10, <2>11, <2>12
    <2> HIDE DEF Now
    <2> QED
      BY <2>2, <2>13
  <1>6. n \in T
    <2> HIDE DEF T
    <2>1. 0 .. n \subseteq T
      BY <1>1, <1>4, <1>5, IntervalInduction
    <2> QED
      BY <1>1, <2>1
  <1> QED
    BY <1>6, <1>9 DEF size
HeadSet(d, at, c) == [d EXCEPT ![at + 1] = c]

\* A field of the head is set, and the cursor goes back.
LEMMA PutHeadIs ==
    ASSUME NEW m, NEW own, NEW data, MemOK(m, own, data), NEW p \in Blocks, m.io[p].count > 0,
           NEW at \in Nat, at < m.io[p].size, NEW c \in Nat, NEW m2, m2 = PutHead(m, p, at, c)
    PROVE /\ MemOK(m2, own, DataSet(data, p, HeadSet(data[p], at, c))) /\ Only(m, own, m2, own, p)
          /\ m2.io[p].ptr = m.io[p].ptr /\ m2.io[p].size = m.io[p].size /\ m2.io[p].count > 0
  <1> DEFINE ptr == m.io[p].ptr
             size == m.io[p].size
             d == data[p]
             m1 == SeekCell(m, p, at)
             m3 == WriteCell(m1, p, c)
             d2 == Stored(d, at, c)
             data2 == DataSet(data, p, d2)
  <1>1. /\ m.io[p] \in IORecord /\ d \in Seq(Nat) /\ data \in [Blocks -> Seq(Nat)] /\ Len(own[p]) \in Nat
        /\ PacketOK(m.cell, own[p], m.io[p], d)
    BY LiveIs
  <1>2. ptr \in Nat /\ size \in Nat /\ ptr <= size /\ Len(d) = size /\ ~(at > size) /\ at \in 0 .. size - 1
        /\ ~(at + 1 > size) /\ ~(ptr > size)
    <2>1. ptr \in Nat /\ size \in Nat /\ ptr <= size /\ Len(d) = size /\ at \in Nat /\ at < size
      BY <1>1, IORecordIs DEF PacketOK
    <2> HIDE DEF ptr, size
    <2>2. ~(at > size) /\ at \in 0 .. size - 1 /\ ~(at + 1 > size) /\ ~(ptr > size)
      BY <2>1
    <2> QED
      BY <2>1, <2>2
  <1>3. m1 = SeekCell(m, p, at)
    OBVIOUS
  <1>4. m3 = WriteCell(m1, p, c) /\ m2 = SeekCell(m3, p, ptr)
    BY DEF PutHead
  <1> HIDE DEF m1, m3
  <1>5. /\ MemOK(m1, own, data) /\ Only(m, own, m1, own, p) /\ m1.io[p].count > 0
        /\ m1.io[p].ptr = at /\ m1.io[p].size = size
    <2>1. /\ MemOK(m1, own, data) /\ Only(m, own, m1, own, p) /\ m1.io[p].count > 0
          /\ m1.io[p].ptr = (IF at > m.io[p].size THEN m.io[p].ptr ELSE at) /\ m1.io[p].size = m.io[p].size
      BY <1>3, SeekIs
    <2> QED
      BY <1>2, <2>1
  <1>6. K(at) < Len(own[p])
    BY <1>2, HeldIs
  <1>7. Enough(m1, own, p, m1.io[p].ptr)
    <2> DEFINE s == Spare(m1, own)
               k == K(at)
    <2>1. s \in Nat /\ k \in Nat /\ k < Len(own[p])
      BY <1>5, <1>6, SpareIs, Spots
    <2> HIDE DEF s, k
    <2>2. k < Len(own[p]) + s
      BY <1>1, <2>1
    <2> QED
      BY <1>5, <2>2 DEF Enough, s, k
  <1>8. /\ MemOK(m3, own, data2) /\ Only(m1, own, m3, own, p)
        /\ m3.io[p].size = size /\ m3.io[p].count > 0
    <2>1. PICK own2 :
            /\ MemOK(m3, own2, DataSet(data, p, Stored(data[p], m1.io[p].ptr, c)))
            /\ Only(m1, own, m3, own2, p)
            /\ m3.io[p].ptr = m1.io[p].ptr + 1 /\ m3.io[p].size = Larger(m1.io[p], m1.io[p].ptr + 1)
            /\ K(m1.io[p].ptr) < Len(own[p]) => own2 = own
      BY <1>4, <1>5, <1>7, WriteCellIs
    <2>2. own2 = own
      BY <1>5, <1>6, <2>1
    <2>3. Larger(m1.io[p], m1.io[p].ptr + 1) = size
      BY <1>2, <1>5 DEF Larger
    <2>4. m3.io[p].count > 0
      BY <1>5, <2>1 DEF Only
    <2> QED
      BY <1>5, <2>1, <2>2, <2>3, <2>4
  <1> HIDE DEF data2, d2
  <1>9. /\ MemOK(m2, own, data2) /\ Only(m3, own, m2, own, p) /\ m2.io[p].count > 0
        /\ m2.io[p].ptr = ptr /\ m2.io[p].size = size
    <2>1. /\ MemOK(m2, own, data2) /\ Only(m3, own, m2, own, p) /\ m2.io[p].count > 0
          /\ m2.io[p].ptr = (IF ptr > m3.io[p].size THEN m3.io[p].ptr ELSE ptr) /\ m2.io[p].size = m3.io[p].size
      <3>1. p \in Blocks /\ ptr \in Nat
        BY <1>2
      <3> HIDE DEF ptr, size, d
      <3> QED
        BY ONLY <1>4, <1>8, <3>1, SeekIs
    <2> QED
      BY <1>2, <1>8, <2>1
  <1>10. Only(m, own, m3, own, p)
    BY <1>1, <1>5, <1>8, OnlyTwice
  <1>11. Only(m, own, m2, own, p)
    BY <1>1, <1>9, <1>10, OnlyTwice
  <1>12. d2 = HeadSet(d, at, c)
    <2> DEFINE e == HeadSet(d, at, c)
    <2>1. at \in 0 .. Len(d) /\ Len(d) = size /\ d2 = Stored(d, at, c)
      BY <1>2 DEF d2
    <2>2. d2 \in Seq(Nat) /\ Len(d2) = size /\ \A j \in 1 .. Len(d2) : d2[j] = IF j = at + 1 THEN c ELSE d[j]
      <3> HIDE DEF d, size
      <3>1. d2 \in Seq(Nat) /\ Len(d2) = IF at + 1 > Len(d) THEN at + 1 ELSE Len(d)
        BY <1>1, <2>1, StoredIs
      <3>2. \A j \in 1 .. Len(d2) : d2[j] = IF j = at + 1 THEN c ELSE d[j]
        BY <1>1, <2>1, StoredIs
      <3> QED
        BY <1>2, <2>1, <3>1, <3>2
    <2>3. e \in Seq(Nat) /\ Len(e) = size /\ \A j \in 1 .. size : e[j] = IF j = at + 1 THEN c ELSE d[j]
      BY <1>1, <1>2 DEF HeadSet
    <2> HIDE DEF e, d, size
    <2>4. d2 \in [1 .. size -> Nat] /\ e \in [1 .. size -> Nat]
      BY <2>2, <2>3
    <2>5. \A j \in 1 .. size : d2[j] = e[j]
      BY <2>2, <2>3
    <2>6. d2 = [j \in 1 .. size |-> d2[j]] /\ e = [j \in 1 .. size |-> e[j]]
      BY ONLY <2>4
    <2>7. d2 = e
      BY ONLY <2>5, <2>6
    <2> QED
      BY <2>7 DEF e
  <1> QED
    BY <1>9, <1>11, <1>12 DEF data2

\* reset_size
LEMMA ResetSizeIs ==
    ASSUME NEW m, NEW own, NEW data, MemOK(m, own, data), NEW p \in Blocks, m.io[p].count > 0,
           m.io[p].size > 0, NEW m2, m2 = ResetSize(m, p)
    PROVE /\ MemOK(m2, own, DataSet(data, p, HeadSet(data[p], LenPos, Len(data[p])))) /\ Only(m, own, m2, own, p)
          /\ m2.io[p].ptr = m.io[p].ptr /\ m2.io[p].size = m.io[p].size /\ m2.io[p].count > 0
  <1> DEFINE size == m.io[p].size
  <1>1. m.io[p] \in IORecord /\ PacketOK(m.cell, own[p], m.io[p], data[p])
    BY LiveIs
  <1>2. size \in Nat /\ Len(data[p]) = size
    BY <1>1, IORecordIs DEF PacketOK
  <1>3. m2 = PutHead(m, p, LenPos, size) /\ LenPos \in Nat /\ LenPos < m.io[p].size
    BY DEF ResetSize, LenPos
  <1> HIDE DEF size
  <1>4. MemOK(m2, own, DataSet(data, p, HeadSet(data[p], LenPos, size))) /\ Only(m, own, m2, own, p)
        /\ m2.io[p].ptr = m.io[p].ptr /\ m2.io[p].size = m.io[p].size /\ m2.io[p].count > 0
    BY <1>2, <1>3, PutHeadIs
  <1> QED
    BY <1>2, <1>4

LEMMA ChainsSame ==
    ASSUME NEW m, NEW own, Chains(m, own), NEW m2, m2.next = m.next, m2.free = m.free, m2.made = m.made,
           \A x \in Blocks : m2.io[x].count > 0 <=> m.io[x].count > 0
    PROVE Chains(m2, own)
  BY DEF Chains, Linked

\* erase: the cursor is not left behind the end.
LEMMA EraseIs ==
    ASSUME NEW m, NEW own, NEW data, MemOK(m, own, data), NEW p \in Blocks, m.io[p].count > 0,
           NEW n \in Nat, NEW s, s = m.io[p].size - n, s > 0, NEW m2, m2 = EraseCells(m, p, n)
    PROVE /\ MemOK(m2, own, DataSet(data, p, SubSeq(data[p], 1, s))) /\ Only(m, own, m2, own, p)
          /\ m2.io[p].ptr = (IF m.io[p].ptr > s THEN s ELSE m.io[p].ptr) /\ m2.io[p].size = s
          /\ m2.io[p].count > 0
  <1> DEFINE io == m.io[p]
             d == data[p]
             d2 == SubSeq(d, 1, s)
             io1 == [io EXCEPT !.size = s]
             less == IOSet(m, p, io1)
  <1>1. /\ io \in IORecord /\ d \in Seq(Nat) /\ data \in [Blocks -> Seq(Nat)] /\ m \in Memory
        /\ PacketOK(m.cell, own[p], io, d) /\ Chains(m, own) /\ m.io \in [Blocks -> IORecord]
    BY LiveIs
  <1>2. io.ptr \in Nat /\ io.size \in Nat /\ io.ptr <= io.size /\ Len(d) = io.size /\ s \in Nat /\ s <= io.size
        /\ io.size > n /\ io.count \in Nat /\ io.mine \in Nat /\ io.pos \in 0 .. BlockSize
        /\ io.block \in 0 .. NumBlocks /\ s - 1 \in 0 .. io.size - 1
    <2>1. io.ptr \in Nat /\ io.size \in Nat /\ io.count \in Nat /\ io.mine \in Nat /\ io.pos \in 0 .. BlockSize
          /\ io.block \in 0 .. NumBlocks
      BY <1>1, IORecordIs
    <2>2. io.ptr <= io.size /\ Len(d) = io.size
      BY <1>1 DEF PacketOK
    <2> DEFINE z == io.size
    <2>3. z \in Nat /\ s = z - n /\ s > 0 /\ n \in Nat
      BY <2>1
    <2> HIDE DEF z
    <2>4. s \in Nat /\ s <= z /\ z > n /\ s - 1 \in 0 .. z - 1
      BY ONLY <2>3
    <2> QED
      BY <2>1, <2>2, <2>4 DEF z
  <1>3. m2 = IF s < io.ptr THEN SeekCell(less, p, s) ELSE less
    BY <1>2 DEF EraseCells, IOSet
  <1>4. K(s - 1) < Len(own[p])
    BY <1>2, HeldIs
  <1>5. /\ io1 = [block |-> io.block, pos |-> io.pos, ptr |-> io.ptr, size |-> s, count |-> io.count,
                  mine |-> io.mine]
        /\ io1 \in IORecord
    <2>1. io = [block |-> io.block, pos |-> io.pos, ptr |-> io.ptr, size |-> io.size, count |-> io.count,
                mine |-> io.mine]
      BY <1>1, IORecordIs
    <2> HIDE DEF io
    <2>2. io1 = [block |-> io.block, pos |-> io.pos, ptr |-> io.ptr, size |-> s, count |-> io.count,
                 mine |-> io.mine]
      BY <2>1
    <2>3. /\ io.block \in 0 .. NumBlocks /\ io.pos \in 0 .. BlockSize /\ io.ptr \in Nat /\ s \in Nat
          /\ io.count \in Nat /\ io.mine \in Nat
      BY <1>1, <1>2, IORecordIs DEF io
    <2> HIDE DEF io1
    <2> QED
      BY ONLY <2>2, <2>3, IORecordOf
  <1>6. d2 \in Seq(Nat) /\ Len(d2) = s /\ \A j \in 1 .. s : d2[j] = d[j]
    <2>1. d \in Seq(Nat) /\ s \in Nat /\ s <= Len(d)
      BY <1>1, <1>2
    <2> HIDE DEF d
    <2> QED
      BY ONLY <2>1
  <1> HIDE DEF d2
  <1>7. \A i \in 0 .. s - 1 : m.cell[own[p][K(i) + 1]][P(i)] = d2[i + 1]
    <2> TAKE i \in 0 .. s - 1
    <2>1. i \in 0 .. io.size - 1 /\ i + 1 \in 1 .. s
      <3> DEFINE z == io.size
      <3>1. z \in Nat /\ s <= z /\ s \in Nat /\ i \in 0 .. s - 1
        BY <1>2
      <3> HIDE DEF z
      <3>2. i \in 0 .. z - 1 /\ i + 1 \in 1 .. s
        BY ONLY <3>1
      <3> QED
        BY <3>2 DEF z
    <2> QED
      BY <1>6, <2>1, HeldIs
  <1>8. \A io2 \in IORecord :
            io2.size = s /\ io2.ptr <= s /\ OnSpot(io2, own[p]) => PacketOK(m.cell, own[p], io2, d2)
    <2> HIDE DEF d2
    <2> QED
      BY <1>4, <1>6, <1>7 DEF PacketOK
  <1> HIDE DEF d2, io1, less
  <1>9. CASE ~(s < io.ptr)
    <2>1. m2 = IOSet(m, p, io1)
      BY <1>3, <1>9 DEF less
    <2>2. io1.size = s /\ io1.ptr = io.ptr /\ io1.count = io.count /\ io1.mine = io.mine /\ io1.block = io.block
          /\ io1.pos = io.pos
      BY <1>5
    <2>3. OnSpot(io1, own[p])
      BY <1>1, <2>2 DEF PacketOK, OnSpot
    <2>4. PacketOK(m.cell, own[p], io1, d2) /\ io1.count > 0
      <3>1. io1.ptr <= s
        <4> DEFINE z == io.ptr
        <4>1. z \in Nat /\ s \in Nat /\ ~(s < z)
          BY <1>2, <1>9
        <4> HIDE DEF z
        <4>2. z <= s
          BY ONLY <4>1
        <4> QED
          BY <2>2, <4>2 DEF z
      <3> QED
        BY <1>5, <1>8, <2>2, <2>3, <3>1
    <2>5. MemOK(m2, own, DataSet(data, p, d2)) /\ m2.io = [m.io EXCEPT ![p] = io1] /\ m2.io[p] = io1
          /\ m2.made = m.made
      BY <1>5, <1>6, <2>1, <2>4, CursorIs
    <2>6. Only(m, own, m2, own, p)
      BY <2>2, <2>5, OnlyIO
    <2>7. io.ptr = IF io.ptr > s THEN s ELSE io.ptr
      BY <1>2, <1>9
    <2> QED
      BY <2>2, <2>4, <2>5, <2>6, <2>7 DEF d2
  <1>10. CASE s < io.ptr
    <2> DEFINE b == SeekSpot(less, p, s).block
               x == SeekSpot(less, p, s).pos
               io2 == Cursor(io1, b, x, s)
    <2>0. io1.size = s /\ io1.ptr = io.ptr /\ io1.count = io.count /\ io1.mine = io.mine
      BY <1>5
    <2>1. less = [cell |-> m.cell, next |-> m.next, free |-> m.free, made |-> m.made,
                  io |-> [m.io EXCEPT ![p] = io1]]
      <3>1. less = [m EXCEPT !.io[p] = io1]
        BY DEF less, IOSet
      <3>2. m \in Memory /\ io1 \in IORecord /\ p \in Blocks
        BY <1>1, <1>5
      <3> QED
        BY ONLY <3>1, <3>2, WithIO
    <2>2. less.io = [m.io EXCEPT ![p] = io1] /\ less.next = m.next /\ less.free = m.free /\ less.made = m.made
      BY <2>1
    <2>3. less.io[p] = io1 /\ \A y \in Blocks : y # p => less.io[y] = m.io[y]
      BY <1>1, <2>2
    <2>4. \A y \in Blocks : less.io[y].count > 0 <=> m.io[y].count > 0
      BY <2>0, <2>3
    <2>5. Chains(less, own) /\ less.io[p].count > 0
      BY <1>1, <2>0, <2>2, <2>3, <2>4, ChainsSame
    <2>6. m2 = [less EXCEPT !.io[p] = io2]
      <3>1. m2 = SeekCell(less, p, s)
        BY <1>3, <1>10
      <3>2. ~(s > less.io[p].size)
        BY <1>2, <2>0, <2>3
      <3> QED
        BY <2>3, <3>1, <3>2 DEF SeekCell
    <2>7. m2 = IOSet(m, p, io2)
      <3>1. m = [cell |-> m.cell, next |-> m.next, free |-> m.free, made |-> m.made, io |-> m.io]
        BY <1>1, MemoryIs
      <3> HIDE DEF io2
      <3>2. m2 = [cell |-> m.cell, next |-> m.next, free |-> m.free, made |-> m.made,
                  io |-> [[m.io EXCEPT ![p] = io1] EXCEPT ![p] = io2]]
        BY <2>1, <2>6
      <3>3. [[m.io EXCEPT ![p] = io1] EXCEPT ![p] = io2] = [m.io EXCEPT ![p] = io2]
        BY <1>1
      <3>4. IOSet(m, p, io2) = [cell |-> m.cell, next |-> m.next, free |-> m.free, made |-> m.made,
                                io |-> [m.io EXCEPT ![p] = io2]]
        BY <3>1 DEF IOSet
      <3> QED
        BY <3>2, <3>3, <3>4
    <2>8. io2 = [block |-> b, pos |-> x, ptr |-> s, size |-> s, count |-> io.count, mine |-> io.mine]
      <3>1. io2 = Cursor(io1, b, x, s)
        OBVIOUS
      <3> HIDE DEF io2, b, x
      <3> QED
        BY <1>5, <2>0, <3>1, CursorTo
    <2>9. io2.block = b /\ io2.pos = x /\ io2.ptr = s /\ io2.size = s /\ io2.count = io.count /\ io2.mine = io.mine
      BY <2>8
    <2>10. OnSpot(io2, own[p]) /\ b \in 0 .. NumBlocks /\ x \in 0 .. BlockSize
      <3>1. io2.block = SeekSpot(less, p, s).block /\ io2.pos = SeekSpot(less, p, s).pos /\ io2.ptr = s
        BY <2>9
      <3> HIDE DEF io2
      <3>2. OnSpot(io2, own[p]) /\ io2.block \in 0 .. NumBlocks /\ io2.pos \in 0 .. BlockSize
        BY <1>2, <1>4, <2>5, <3>1, SeekSpotIs
      <3> QED
        BY <2>9, <3>2
    <2> HIDE DEF io2, b, x
    <2>11. io2 \in IORecord
      BY <1>2, <2>8, <2>10, IORecordOf
    <2>12. PacketOK(m.cell, own[p], io2, d2) /\ io2.count > 0
      BY <1>2, <1>8, <2>9, <2>10, <2>11
    <2>13. MemOK(m2, own, DataSet(data, p, d2)) /\ m2.io = [m.io EXCEPT ![p] = io2] /\ m2.io[p] = io2
           /\ m2.made = m.made
      BY <1>6, <2>7, <2>11, <2>12, CursorIs
    <2>14. Only(m, own, m2, own, p)
      BY <2>9, <2>13, OnlyIO
    <2>15. s = IF io.ptr > s THEN s ELSE io.ptr
      BY <1>2, <1>10
    <2> QED
      BY <2>9, <2>12, <2>13, <2>14, <2>15 DEF d2
  <1> QED
    BY <1>9, <1>10

\* A byte of the data is changed.
Recoded(cells, at, key) == [cells EXCEPT ![at.block][at.pos] = (@ + key) % 2]

\* The loop of encode.
LEMMA EncodingIs ==
    ASSUME NEW m, NEW p, NEW long, NEW c, m.io[p].size - HeadSize \in Nat, NEW F, F = Encoding(m, p, long, c)
    PROVE \A i \in 0 .. m.io[p].size - HeadSize :
              F[i] = IF i = 0 THEN m.cell
                     ELSE Recoded(F[i - 1], Spot(m, p, HeadSize + i - 1), Key(i - 1, long, c))
  <1> DEFINE N == m.io[p].size - HeadSize
             Step(i, before) == IF i = 0 THEN m.cell ELSE Recoded(before, Spot(m, p, HeadSize + i - 1), Key(i - 1, long, c))
             Once(f) == [i \in 0 .. N |-> Step(i, f[i - 1])]
             Upto(n, f) == f = [i \in 0 .. n |-> Step(i, f[i - 1])]
             T == {n \in 0 .. N : \E f : Upto(n, f)}
  <1>1. 0 \in T
    <2> DEFINE f == [i \in 0 .. 0 |-> m.cell]
    <2>1. \A i \in 0 .. 0 : Step(i, f[i - 1]) = m.cell
      OBVIOUS
    <2> HIDE DEF Step
    <2>2. Upto(0, f)
      BY <2>1
    <2>3. 0 \in 0 .. N
      OBVIOUS
    <2> HIDE DEF Upto, f
    <2> QED
      BY <2>2, <2>3
  <1>2. ASSUME NEW n \in 0 .. N - 1, n \in T PROVE n + 1 \in T
    <2>1. PICK f : Upto(n, f)
      BY <1>2
    <2> DEFINE g == [i \in 0 .. n + 1 |-> IF i <= n THEN f[i] ELSE Step(n + 1, f[n])]
    <2> HIDE DEF Step
    <2>2. \A i \in 0 .. n : f[i] = Step(i, f[i - 1])
      <3>1. f = [i \in 0 .. n |-> Step(i, f[i - 1])]
        BY <2>1
      <3> QED
        BY <3>1, Zenon
    <2>3. \A i \in 0 .. n + 1 : g[i] = Step(i, g[i - 1])
      <3> SUFFICES ASSUME NEW i \in 0 .. n + 1 PROVE g[i] = Step(i, g[i - 1])
        OBVIOUS
      <3>1. CASE i = 0
        <4>1. g[0] = f[0] /\ f[0] = Step(0, f[0 - 1])
          BY <2>2
        <4>2. \A x : Step(0, x) = m.cell
          BY Zenon DEF Step
        <4> HIDE DEF g
        <4> QED
          BY <3>1, <4>1, <4>2
      <3>2. CASE i \in 1 .. n
        <4>1. g[i] = f[i] /\ g[i - 1] = f[i - 1] /\ f[i] = Step(i, f[i - 1])
          BY <2>2, <3>2
        <4> QED
          BY <4>1, Zenon
      <3>3. CASE i = n + 1
        <4>1. g[n + 1] = Step(n + 1, f[n]) /\ g[n] = f[n] /\ (n + 1) - 1 = n
          OBVIOUS
        <4> HIDE DEF g
        <4> QED
          BY <3>3, <4>1
      <3> QED
        BY <3>1, <3>2, <3>3
    <2>4. Upto(n + 1, g)
      <3> DEFINE h == [i \in 0 .. n + 1 |-> Step(i, g[i - 1])]
      <3>1. \A i \in 0 .. n + 1 : g[i] = h[i]
        <4> HIDE DEF g
        <4> QED
          BY <2>3
      <3>2. g = [i \in 0 .. n + 1 |-> g[i]]
        OBVIOUS
      <3>3. h = [i \in 0 .. n + 1 |-> h[i]]
        OBVIOUS
      <3> HIDE DEF h, g
      <3>4. g = h
        BY <3>1, <3>2, <3>3
      <3> QED
        BY <3>4 DEF h
    <2> HIDE DEF Upto
    <2> QED
      BY <2>4
  <1>3. \E f : f = Once(f)
    <2> HIDE DEF Upto
    <2>1. N \in T
      <3> HIDE DEF T
      <3>1. 0 .. N \subseteq T
        BY <1>1, <1>2, IntervalInduction
      <3> QED
        BY <3>1
    <2>2. PICK f : Upto(N, f)
      BY <2>1
    <2> HIDE DEF Step
    <2> QED
      BY <2>2 DEF Upto
  <1>4. F = CHOOSE f : f = Once(f)
    BY Zenon DEF Encoding, Recoded
  <1> HIDE DEF Once
  <1>5. F = Once(F)
    BY <1>3, <1>4, Zenon
  <1> HIDE DEF Step
  <1>6. \A i \in 0 .. N : F[i] = Step(i, F[i - 1])
    BY <1>5, Zenon DEF Once
  <1> QED
    BY <1>6, Zenon DEF Step

Body(d) == \A i \in HeadSize + 1 .. Len(d) : d[i] \in {0, 1}
IsLong(d) == Len(d) > HeadSize + KeyOffset
IsKey(d, i) == IsLong(d) /\ i = HeadSize + KeyOffset + 1
KeyAt(d, i) == Key(i - HeadSize - 1, IsLong(d), d[HeadSize + KeyOffset + 1])

\* The key of a byte.
LEMMA KeyIs ==
    ASSUME NEW i \in Nat, NEW long, NEW c, long => c \in Nat
    PROVE Key(i, long, c) \in {0, 1}
  <1>1. CASE long
    <2>1. c + i + 1 \in Nat
      BY <1>1
    <2> DEFINE x == c + i + 1
    <2> HIDE DEF x
    <2>2. x % 2 \in {0, 1}
      BY <2>1 DEF x
    <2> QED
      BY <1>1, <2>2 DEF Key, x
  <1>2. CASE ~long
    <2>1. i % 2 \in {0, 1}
      OBVIOUS
    <2> QED
      BY <1>2, <2>1 DEF Key
  <1> QED
    BY <1>1, <1>2

\* encode, on a sequence.
LEMMA FlatEncodeIs ==
    ASSUME NEW d \in Seq(Nat)
    PROVE /\ FlatEncode(d) \in Seq(Nat) /\ Len(FlatEncode(d)) = Len(d)
          /\ \A i \in 1 .. Len(d) :
                /\ FlatEncode(d)[i] = IF i <= HeadSize \/ IsKey(d, i) THEN d[i] ELSE (d[i] + KeyAt(d, i)) % 2
                /\ i > HeadSize => KeyAt(d, i) \in {0, 1}
  <1>1. KeyOffset \in Nat /\ HeadSize = 3 /\ Len(d) \in Nat /\ DOMAIN d = 1 .. Len(d)
    BY Sizes DEF HeadSize
  <1> DEFINE L == Len(d)
             V(i) == IF i <= HeadSize \/ IsKey(d, i) THEN d[i] ELSE (d[i] + KeyAt(d, i)) % 2
             e == [i \in 1 .. L |-> V(i)]
  <1>2. FlatEncode(d) = e
    BY <1>1 DEF FlatEncode, IsLong, IsKey, KeyAt
  <1>3. ASSUME NEW i \in 1 .. L PROVE d[i] \in Nat /\ (i > HeadSize => KeyAt(d, i) \in {0, 1})
    <2>1. IsLong(d) => d[HeadSize + KeyOffset + 1] \in Nat
      BY <1>1 DEF IsLong
    <2>2. i > HeadSize => i - HeadSize - 1 \in Nat
      BY <1>1
    <2>3. i > HeadSize => Key(i - HeadSize - 1, IsLong(d), d[HeadSize + KeyOffset + 1]) \in {0, 1}
      BY ONLY <2>1, <2>2, KeyIs
    <2> QED
      BY <2>3 DEF KeyAt
  <1>4. ASSUME NEW i \in 1 .. L PROVE V(i) \in Nat
    <2> DEFINE x == d[i]
               k == KeyAt(d, i)
    <2>1. x \in Nat /\ (i > HeadSize => k \in {0, 1})
      BY <1>3
    <2> HIDE DEF x, k
    <2>2. i > HeadSize => (x + k) % 2 \in Nat
      BY <2>1
    <2>3. i <= HeadSize \/ i > HeadSize
      BY <1>1
    <2> QED
      BY <2>1, <2>2, <2>3 DEF x, k
  <1> HIDE DEF V
  <1>5. e \in [1 .. L -> Nat] /\ \A i \in 1 .. L : e[i] = V(i)
    BY <1>4
  <1> HIDE DEF e
  <1>6. e \in Seq(Nat) /\ Len(e) = L
    BY <1>1, <1>5
  <1> QED
    BY <1>2, <1>3, <1>5, <1>6 DEF V

\* encode, and then decode.
LEMMA EncodeTwice ==
    ASSUME NEW d \in Seq(Nat), Body(d)
    PROVE FlatEncode(FlatEncode(d)) = d /\ Body(FlatEncode(d))
  <1> DEFINE e == FlatEncode(d)
             f == FlatEncode(e)
             L == Len(d)
  <1>1. KeyOffset \in Nat /\ HeadSize = 3 /\ L \in Nat
    BY Sizes DEF HeadSize
  <1>2. /\ e \in Seq(Nat) /\ Len(e) = L
        /\ \A i \in 1 .. L : e[i] = IF i <= HeadSize \/ IsKey(d, i) THEN d[i] ELSE (d[i] + KeyAt(d, i)) % 2
        /\ \A i \in 1 .. L : i > HeadSize => KeyAt(d, i) \in {0, 1}
    BY FlatEncodeIs
  <1>3. f = FlatEncode(e)
    OBVIOUS
  <1> HIDE DEF e, f
  <1>4. /\ f \in Seq(Nat) /\ Len(f) = L
        /\ \A i \in 1 .. L : f[i] = IF i <= HeadSize \/ IsKey(e, i) THEN e[i] ELSE (e[i] + KeyAt(e, i)) % 2
    BY <1>2, <1>3, FlatEncodeIs
  <1>5. IsLong(e) = IsLong(d) /\ \A i : IsKey(e, i) = IsKey(d, i)
    BY <1>2 DEF IsLong, IsKey
  <1>6. \A i : KeyAt(e, i) = KeyAt(d, i)
    <2>1. IsLong(d) => e[HeadSize + KeyOffset + 1] = d[HeadSize + KeyOffset + 1]
      BY <1>1, <1>2 DEF IsLong, IsKey
    <2>2. \A i : Key(i, IsLong(d), e[HeadSize + KeyOffset + 1]) = Key(i, IsLong(d), d[HeadSize + KeyOffset + 1])
      BY <2>1 DEF Key
    <2> QED
      BY <1>5, <2>2 DEF KeyAt
  <1>7. ASSUME NEW i \in 1 .. L PROVE f[i] = d[i] /\ (i > HeadSize => e[i] \in {0, 1})
    <2>1. i > HeadSize => i \in HeadSize + 1 .. L
      BY <1>1
    <2>2. i > HeadSize => d[i] \in {0, 1}
      BY <2>1 DEF Body
    <2> DEFINE x == d[i]
               k == KeyAt(d, i)
               y == e[i]
               special == i <= HeadSize \/ IsKey(d, i)
    <2>3. (i > HeadSize => x \in {0, 1} /\ k \in {0, 1}) /\ y = (IF special THEN x ELSE (x + k) % 2)
          /\ f[i] = (IF special THEN y ELSE (y + k) % 2) /\ (~special => i > HeadSize)
      BY <1>1, <1>2, <1>4, <1>5, <1>6, <2>2
    <2> HIDE DEF x, k, y, special
    <2>4. f[i] = x /\ (i > HeadSize => y \in {0, 1})
      BY <2>3
    <2> QED
      BY <2>4 DEF x, y
  <1>8. f = [i \in 1 .. L |-> f[i]] /\ d = [i \in 1 .. L |-> d[i]]
    <2>1. f \in [1 .. L -> Nat] /\ d \in [1 .. L -> Nat]
      BY <1>4
    <2> HIDE DEF L
    <2> QED
      BY ONLY <2>1
  <1>9. f = d
    <2> HIDE DEF L
    <2> QED
      BY ONLY <1>7, <1>8
  <1>10. Body(e)
    <2>1. \A i \in HeadSize + 1 .. L : i \in 1 .. L /\ i > HeadSize
      BY <1>1
    <2> QED
      BY <1>2, <1>7, <2>1 DEF Body
  <1> QED
    BY <1>9, <1>10 DEF e, f

LEMMA RecodedIs ==
    ASSUME NEW cells \in [Blocks -> [0 .. BlockSize - 1 -> Nat]], NEW b \in Blocks, NEW pos \in 0 .. BlockSize - 1,
           NEW at, at = [block |-> b, pos |-> pos], NEW key \in {0, 1}, NEW v, v = (cells[b][pos] + key) % 2
    PROVE Recoded(cells, at, key) = CellPut(cells, b, pos, v) /\ v \in Nat
  <1>1. cells[b][pos] \in Nat
    OBVIOUS
  <1> DEFINE x == cells[b][pos]
  <1>2. v = (x + key) % 2 /\ x \in Nat
    BY <1>1
  <1> HIDE DEF x
  <1>3. v \in Nat
    BY ONLY <1>2
  <1> QED
    BY <1>3 DEF Recoded, CellPut

LEMMA KeyAtIs ==
    ASSUME NEW d, NEW i \in Nat, NEW k, k = HeadSize + i + 1
    PROVE KeyAt(d, k) = Key(i, IsLong(d), d[HeadSize + KeyOffset + 1])
  <1>1. k - HeadSize - 1 = i
    BY DEF HeadSize
  <1> QED
    BY <1>1 DEF KeyAt

\* encode and decode: the cells of the data are those of the sequence, recoded.
LEMMA EncodeIs ==
    ASSUME NEW m, NEW own, NEW data, MemOK(m, own, data), NEW p \in Blocks, m.io[p].count > 0,
           m.io[p].size >= HeadSize, NEW m2, m2 = EncodeCells(m, p)
    PROVE /\ MemOK(m2, own, DataSet(data, p, FlatEncode(data[p])))
          /\ m2.io = m.io /\ m2.made = m.made /\ m2.next = m.next
  <1> DEFINE q == own[p]
             d == data[p]
             size == m.io[p].size
             N == size - HeadSize
             long == size > HeadSize + KeyOffset
             c == IF long THEN CellAt(m, p, HeadSize + KeyOffset) ELSE 0
             F == Encoding(m, p, long, c)
             at == Spot(m, p, HeadSize + KeyOffset)
             Cells == [Blocks -> [0 .. BlockSize - 1 -> Nat]]
             e == FlatEncode(d)
             X(j) == IF j < HeadSize THEN d[j + 1] ELSE (d[j + 1] + KeyAt(d, j + 1)) % 2
  <1>1. /\ m \in Memory /\ Chains(m, own) /\ m.io[p] \in IORecord /\ d \in Seq(Nat) /\ q \in Seq(Blocks)
        /\ Len(q) \in Nat /\ Threaded(q, p, m.next) /\ PacketOK(m.cell, q, m.io[p], d)
        /\ \A i \in 1 .. Len(q) : q[i] \in Blocks
    BY LiveIs
  <1>2. KeyOffset \in Nat /\ HeadSize = 3 /\ size \in Nat /\ Len(d) = size /\ size >= 3 /\ N \in Nat /\ m.cell \in Cells
    <2>1. KeyOffset \in Nat /\ HeadSize = 3 /\ size \in Nat /\ Len(d) = size /\ size >= HeadSize /\ m.cell \in Cells
      BY <1>1, Sizes, IORecordIs, MemoryIs DEF HeadSize, PacketOK
    <2> HIDE DEF size
    <2> QED
      BY <2>1
  <1>3. ASSUME NEW i \in 0 .. size - 1
        PROVE /\ K(i) + 1 \in 1 .. Len(q) /\ q[K(i) + 1] \in Blocks /\ P(i) \in 0 .. BlockSize - 1 /\ i \in Nat
              /\ Spot(m, p, i) = [block |-> q[K(i) + 1], pos |-> P(i)]
              /\ CellAt(m, p, i) = d[i + 1] /\ m.cell[q[K(i) + 1]][P(i)] = d[i + 1] /\ d[i + 1] \in Nat
    <2>1. K(i) < Len(q) /\ K(i) + 1 \in 1 .. Len(q) /\ q[K(i) + 1] \in Blocks /\ P(i) \in 0 .. BlockSize - 1
          /\ m.cell[q[K(i) + 1]][P(i)] = d[i + 1]
      BY HeldIs
    <2>2. i \in Nat /\ i + 1 \in 1 .. Len(d)
      BY <1>2
    <2>3. Spot(m, p, i) = [block |-> q[K(i) + 1], pos |-> P(i)] /\ CellAt(m, p, i) = m.cell[q[K(i) + 1]][P(i)]
      BY <1>1, <2>1, <2>2, SpotIs
    <2> QED
      BY <1>1, <2>1, <2>2, <2>3
  <1>4. long = IsLong(d) /\ (long => HeadSize + KeyOffset \in 0 .. size - 1)
        /\ (long => c = d[HeadSize + KeyOffset + 1] /\ c \in Nat)
    <2>1. long = IsLong(d) /\ (long => HeadSize + KeyOffset \in 0 .. size - 1)
      BY <1>2 DEF IsLong
    <2> QED
      BY <1>3, <2>1
  <1>5. \A i : Key(i, long, c) = Key(i, IsLong(d), d[HeadSize + KeyOffset + 1])
    BY <1>4 DEF Key
  <1>6. m2 = CellSet(m, IF long THEN [F[N] EXCEPT ![at.block][at.pos] = c] ELSE F[N])
    BY DEF EncodeCells, CellSet
  <1>7. \A i \in 0 .. N : F[i] = IF i = 0 THEN m.cell
                                ELSE Recoded(F[i - 1], Spot(m, p, HeadSize + i - 1), Key(i - 1, long, c))
    <2>1. F = Encoding(m, p, long, c) /\ m.io[p].size - HeadSize \in Nat
      BY <1>2
    <2> HIDE DEF F, c, long
    <2> QED
      BY <2>1, EncodingIs
  <1>8. /\ e \in Seq(Nat) /\ Len(e) = size
        /\ \A i \in 1 .. size :
                /\ e[i] = IF i <= HeadSize \/ IsKey(d, i) THEN d[i] ELSE (d[i] + KeyAt(d, i)) % 2
                /\ i > HeadSize => KeyAt(d, i) \in {0, 1}
    BY <1>1, <1>2, FlatEncodeIs
  <1> HIDE DEF F, c, long, q, d, size, at, e, Cells
  <1> DEFINE Now(i, cells) ==
                /\ cells \in Cells
                /\ \A b \in Blocks : (\A j \in 1 .. Len(q) : q[j] # b) => cells[b] = m.cell[b]
                /\ \A j \in 0 .. size - 1 :
                      cells[q[K(j) + 1]][P(j)] = IF j < HeadSize + i THEN X(j) ELSE d[j + 1]
             T == {i \in 0 .. N : Now(i, F[i])}
  <1>9. 0 \in T
    <2>1. F[0] = m.cell /\ 0 \in 0 .. N
      BY <1>2, <1>7
    <2>2. Now(0, m.cell)
      <3>1. ASSUME NEW j \in 0 .. size - 1
            PROVE m.cell[q[K(j) + 1]][P(j)] = IF j < HeadSize + 0 THEN X(j) ELSE d[j + 1]
        <4>1. HeadSize + 0 = HeadSize
          BY <1>2
        <4> QED
          BY <1>3, <4>1
      <3> QED
        BY <1>2, <3>1
    <2> HIDE DEF Now
    <2> QED
      BY <2>1, <2>2
  <1>10. ASSUME NEW i \in 0 .. N - 1, i \in T PROVE i + 1 \in T
    <2> DEFINE j == HeadSize + i
               cells == F[i]
               b == q[K(j) + 1]
               key == KeyAt(d, j + 1)
               v == (cells[b][P(j)] + key) % 2
    <2>1. i + 1 \in 0 .. N /\ i + 1 # 0 /\ (i + 1) - 1 = i /\ i \in Nat /\ j \in 0 .. size - 1 /\ ~(j < HeadSize)
          /\ HeadSize + (i + 1) - 1 = j /\ j + 1 - HeadSize - 1 = i /\ j + 1 \in 1 .. size /\ j + 1 > HeadSize
          /\ ~(j < HeadSize + i)
      BY <1>2
    <2>2. F[i + 1] = Recoded(cells, Spot(m, p, j), Key(i, long, c))
      <3>1. F[i + 1] = Recoded(F[(i + 1) - 1], Spot(m, p, HeadSize + (i + 1) - 1), Key((i + 1) - 1, long, c))
        BY <1>7, <2>1, Zenon
      <3> QED
        BY <2>1, <3>1
    <2>3. Key(i, long, c) = key /\ key \in {0, 1}
      <3>1. i \in Nat /\ j + 1 = HeadSize + i + 1
        BY <2>1
      <3>2. key = Key(i, IsLong(d), d[HeadSize + KeyOffset + 1])
        BY <3>1, KeyAtIs
      <3>3. Key(i, long, c) = key
        BY <1>5, <3>2
      <3>4. key \in {0, 1}
        <4> HIDE DEF j
        <4> QED
          BY <1>8, <2>1
      <3> QED
        BY <3>3, <3>4
    <2>4. Now(i, cells)
      BY <1>10
    <2>5. cells \in Cells /\ b \in Blocks /\ P(j) \in 0 .. BlockSize - 1 /\ K(j) + 1 \in 1 .. Len(q) /\ j \in Nat
          /\ Spot(m, p, j) = [block |-> b, pos |-> P(j)]
      BY <1>3, <2>1, <2>4
    <2>6. cells[b][P(j)] = d[j + 1]
      BY <2>1, <2>4
    <2>7. v = X(j)
      BY <2>1, <2>6
    <2> HIDE DEF cells, key
    <2>8. F[i + 1] = CellPut(cells, b, P(j), v) /\ v \in Nat
      BY <2>2, <2>3, <2>5, RecodedIs DEF Cells
    <2> HIDE DEF v, X
    <2>9. /\ F[i + 1] \in Cells
          /\ \A x \in Blocks : x # b => F[i + 1][x] = cells[x]
          /\ \A k \in Nat : K(k) + 1 \in 1 .. Len(q) =>
                F[i + 1][q[K(k) + 1]][P(k)] = IF k = j THEN v ELSE cells[q[K(k) + 1]][P(k)]
      <3> DEFINE c2 == F[i + 1]
      <3>0. Chains(m, own) /\ p \in Blocks /\ q = own[p]
        BY <1>1 DEF q
      <3>1. c2 = CellPut(cells, q[K(j) + 1], P(j), v) /\ v \in Nat /\ j \in Nat
            /\ cells \in [Blocks -> [0 .. BlockSize - 1 -> Nat]] /\ K(j) + 1 \in 1 .. Len(q)
        BY <2>5, <2>8 DEF Cells
      <3> HIDE DEF j, c2
      <3>2. c2 \in [Blocks -> [0 .. BlockSize - 1 -> Nat]]
        BY ONLY <3>0, <3>1, SpotPut
      <3>3. \A x \in Blocks : x # q[K(j) + 1] => c2[x] = cells[x]
        BY ONLY <3>0, <3>1, SpotPut
      <3>4. \A k \in Nat : K(k) + 1 \in 1 .. Len(q) =>
                c2[q[K(k) + 1]][P(k)] = IF k = j THEN v ELSE cells[q[K(k) + 1]][P(k)]
        BY ONLY <3>0, <3>1, SpotPut
      <3> QED
        BY <3>2, <3>3, <3>4 DEF Cells, c2
    <2>10. ASSUME NEW x \in Blocks, \A k \in 1 .. Len(q) : q[k] # x PROVE F[i + 1][x] = m.cell[x]
      <3>1. x # b
        BY <2>5, <2>10
      <3> QED
        BY <2>4, <2>9, <2>10, <3>1 DEF cells
    <2>11. ASSUME NEW k \in 0 .. size - 1
           PROVE F[i + 1][q[K(k) + 1]][P(k)] = IF k < HeadSize + (i + 1) THEN X(k) ELSE d[k + 1]
      <3>1. F[i + 1][q[K(k) + 1]][P(k)] = IF k = j THEN v ELSE cells[q[K(k) + 1]][P(k)]
        BY <1>3, <2>9
      <3>2. cells[q[K(k) + 1]][P(k)] = IF k < HeadSize + i THEN X(k) ELSE d[k + 1]
        BY <2>4 DEF cells
      <3>3. k # j => (k < HeadSize + (i + 1) <=> k < HeadSize + i)
        BY <1>2, <2>1
      <3>4. k = j => k < HeadSize + (i + 1)
        BY <1>2, <2>1
      <3> QED
        BY <2>7, <3>1, <3>2, <3>3, <3>4
    <2>12. Now(i + 1, F[i + 1])
      BY <2>9, <2>10, <2>11
    <2> HIDE DEF Now
    <2> QED
      BY <2>1, <2>12
  <1>11. N \in T
    <2> HIDE DEF T, N
    <2>1. 0 .. N \subseteq T
      BY <1>2, <1>9, <1>10, IntervalInduction
    <2> QED
      BY <1>2, <2>1
  <1>12. Now(N, F[N])
    BY <1>11
  <1> DEFINE all == IF long THEN [F[N] EXCEPT ![at.block][at.pos] = c] ELSE F[N]
  <1>13. /\ all \in Cells
         /\ \A b \in Blocks : (\A j \in 1 .. Len(q) : q[j] # b) => all[b] = m.cell[b]
         /\ \A j \in 0 .. size - 1 : all[q[K(j) + 1]][P(j)] = e[j + 1]
    <2> DEFINE cells == F[N]
    <2>1. /\ cells \in Cells
          /\ \A b \in Blocks : (\A j \in 1 .. Len(q) : q[j] # b) => cells[b] = m.cell[b]
          /\ \A j \in 0 .. size - 1 : cells[q[K(j) + 1]][P(j)] = X(j)
      <3>1. \A j \in 0 .. size - 1 : j < HeadSize + N
        BY <1>2
      <3> QED
        BY <1>12, <3>1
    <2> HIDE DEF cells
    <2>2. \A j \in 0 .. size - 1 : e[j + 1] = IF IsKey(d, j + 1) THEN d[j + 1] ELSE X(j)
      <3> TAKE j \in 0 .. size - 1
      <3>1. j + 1 \in 1 .. size /\ (j + 1 <= HeadSize <=> j < HeadSize)
        BY <1>2
      <3> QED
        BY <1>8, <3>1
    <2>3. CASE ~long
      <3>1. \A j : ~IsKey(d, j)
        BY <1>4, <2>3 DEF IsKey
      <3> QED
        BY <2>1, <2>2, <2>3, <3>1 DEF cells
    <2>4. CASE long
      <3> DEFINE k == HeadSize + KeyOffset
                 b == q[K(k) + 1]
      <3>1. k \in 0 .. size - 1 /\ c = d[k + 1] /\ c \in Nat
        BY <1>4, <2>4
      <3>2. /\ K(k) + 1 \in 1 .. Len(q) /\ b \in Blocks /\ P(k) \in 0 .. BlockSize - 1 /\ k \in Nat
            /\ at = [block |-> b, pos |-> P(k)]
        BY <1>3, <3>1 DEF at
      <3>3. all = CellPut(cells, b, P(k), c)
        BY <2>4, <3>2 DEF CellPut, cells
      <3> HIDE DEF all
      <3>4. /\ all \in Cells
            /\ \A x \in Blocks : x # b => all[x] = cells[x]
            /\ \A j \in Nat : K(j) + 1 \in 1 .. Len(q) =>
                  all[q[K(j) + 1]][P(j)] = IF j = k THEN c ELSE cells[q[K(j) + 1]][P(j)]
        <4>0. Chains(m, own) /\ p \in Blocks /\ q = own[p]
          BY <1>1 DEF q
        <4>1. all = CellPut(cells, q[K(k) + 1], P(k), c) /\ c \in Nat /\ k \in Nat
              /\ cells \in [Blocks -> [0 .. BlockSize - 1 -> Nat]] /\ K(k) + 1 \in 1 .. Len(q)
          BY <2>1, <3>1, <3>2, <3>3 DEF Cells
        <4> HIDE DEF k
        <4>2. all \in [Blocks -> [0 .. BlockSize - 1 -> Nat]]
          BY ONLY <4>0, <4>1, SpotPut
        <4>3. \A x \in Blocks : x # q[K(k) + 1] => all[x] = cells[x]
          BY ONLY <4>0, <4>1, SpotPut
        <4>4. \A j \in Nat : K(j) + 1 \in 1 .. Len(q) =>
                  all[q[K(j) + 1]][P(j)] = IF j = k THEN c ELSE cells[q[K(j) + 1]][P(j)]
          BY ONLY <4>0, <4>1, SpotPut
        <4> QED
          BY <4>2, <4>3, <4>4 DEF Cells
      <3>5. ASSUME NEW x \in Blocks, \A j \in 1 .. Len(q) : q[j] # x PROVE all[x] = m.cell[x]
        <4>1. x # b
          BY <3>2, <3>5
        <4> QED
          BY <2>1, <3>4, <3>5, <4>1
      <3>6. ASSUME NEW j \in 0 .. size - 1 PROVE all[q[K(j) + 1]][P(j)] = e[j + 1]
        <4>1. IsKey(d, j + 1) <=> j = k
          BY <1>2, <1>4, <2>4 DEF IsKey
        <4>2. all[q[K(j) + 1]][P(j)] = IF j = k THEN c ELSE cells[q[K(j) + 1]][P(j)]
          BY <1>3, <3>4
        <4> HIDE DEF X, k
        <4>3. CASE j = k
          BY <2>2, <3>1, <4>1, <4>2, <4>3
        <4>4. CASE j # k
          BY <2>1, <2>2, <4>1, <4>2, <4>4
        <4> QED
          BY <4>3, <4>4
      <3> QED
        BY <3>4, <3>5, <3>6
    <2> QED
      BY <2>3, <2>4
  <1>14. m2 = CellSet(m, all)
    BY <1>6
  <1> HIDE DEF all
  <1>15. PacketOK(all, q, m.io[p], e)
    BY <1>1, <1>8, <1>13 DEF PacketOK, size
  <1>16. /\ MemOK(m2, own, DataSet(data, p, e))
         /\ m2.io = m.io /\ m2.cell = all /\ m2.next = m.next /\ m2.made = m.made /\ m2.free = m.free
    <2>1. all \in [Blocks -> [0 .. BlockSize - 1 -> Nat]]
      BY <1>13 DEF Cells
    <2>2. PacketOK(all, own[p], m.io[p], e) /\ e \in Seq(Nat)
      BY <1>8, <1>15 DEF q
    <2>3. \A b \in Blocks : (\A i \in 1 .. Len(own[p]) : own[p][i] # b) => all[b] = m.cell[b]
      BY <1>13 DEF q
    <2> QED
      BY <1>14, <2>1, <2>2, <2>3, CellsIs
  <1> QED
    BY <1>16 DEF e, d

\* The block before another one in a list.
BlockBefore(nx, list, x) == CHOOSE y \in list : nx[y] = x

\* The way back in a list that is turned round.
LEMMA BeforeIs ==
    ASSUME NEW q \in Seq(Blocks), IsInjective(q), NEW b, NEW nx, Threaded(q, b, nx), q # <<>>,
           NEW list, list = {q[i] : i \in 1 .. Len(q)}
    PROVE /\ BlockBefore(nx, list, 0) = q[Len(q)]
          /\ \A i \in 1 .. Len(q) - 1 : BlockBefore(nx, list, q[i + 1]) = q[i]
  <1> DEFINE L == Len(q)
  <1>1. L \in Nat \ {0} /\ \A i \in 1 .. L : q[i] \in Blocks /\ q[i] # 0
    <2>1. 0 \notin Blocks
      BY Sizes DEF Blocks
    <2> QED
      BY <2>1
  <1>2. \A i \in 1 .. L : nx[q[i]] = IF i = L THEN 0 ELSE q[i + 1]
    BY DEF Threaded
  <1>3. \A i, j \in 1 .. L : q[i] = q[j] => i = j
    BY DEF IsInjective
  <1>4. list = {q[i] : i \in 1 .. L}
    OBVIOUS
  <1> HIDE DEF L
  <1>5. (CHOOSE y \in list : nx[y] = 0) = q[L]
    <2>0. L \in 1 .. L
      BY <1>1
    <2>1. q[L] \in list /\ nx[q[L]] = 0
      BY <1>2, <1>4, <2>0
    <2>2. ASSUME NEW y \in list, nx[y] = 0 PROVE y = q[L]
      <3>1. PICK i \in 1 .. L : y = q[i]
        BY <1>4
      <3>2. i # L => q[i + 1] # 0
        BY <1>1
      <3> QED
        BY <1>2, <2>2, <3>1, <3>2
    <2> QED
      BY <2>1, <2>2
  <1>6. ASSUME NEW i \in 1 .. L - 1 PROVE (CHOOSE y \in list : nx[y] = q[i + 1]) = q[i]
    <2>1. i \in 1 .. L /\ i + 1 \in 1 .. L /\ i # L
      BY <1>1
    <2>2. q[i] \in list /\ nx[q[i]] = q[i + 1]
      BY <1>2, <1>4, <2>1
    <2>3. ASSUME NEW y \in list, nx[y] = q[i + 1] PROVE y = q[i]
      <3>1. PICK j \in 1 .. L : y = q[j]
        BY <1>4
      <3>2. nx[y] = IF j = L THEN 0 ELSE q[j + 1]
        BY <1>2, <3>1
      <3>3. j # L /\ q[j + 1] = q[i + 1]
        BY <1>1, <2>1, <2>3, <3>2
      <3>4. j + 1 \in 1 .. L
        BY <1>1, <3>3
      <3>5. j + 1 = i + 1
        BY <1>3, <2>1, <3>3, <3>4
      <3> QED
        BY <3>1, <3>5
    <2> QED
      BY <2>2, <2>3
  <1> QED
    BY <1>5, <1>6 DEF L, BlockBefore

\* A list turned round before another one.
TurnedBefore(q, r) ==
    [i \in 1 .. Len(q) + Len(r) |-> IF i <= Len(q) THEN q[Len(q) + 1 - i] ELSE r[i - Len(q)]]
OwnFreed(own, p) == [own EXCEPT ![0] = TurnedBefore(own[p], own[0]), ![p] = <<>>]

LEMMA OwnFreedAt ==
    ASSUME NEW own, own \in [Owners -> Seq(Blocks)], NEW p \in Blocks, NEW own2, own2 = OwnFreed(own, p)
    PROVE /\ own2 \in [Owners -> Seq(Blocks)]
          /\ own2[p] = <<>> /\ \A x \in Blocks \ {p} : own2[x] = own[x]
  <1> DEFINE q == own[p]
             r == own[0]
             L == Len(q)
             M == Len(r)
             t == TurnedBefore(q, r)
  <1>0. 0 \in Owners /\ p \in Owners /\ p # 0 /\ Blocks \subseteq Owners
    BY Sizes DEF Owners, Blocks
  <1>1. L \in Nat /\ M \in Nat /\ q \in Seq(Blocks) /\ r \in Seq(Blocks)
        /\ (\A i \in 1 .. L : q[i] \in Blocks) /\ (\A i \in 1 .. M : r[i] \in Blocks)
    BY <1>0
  <1>2. own2 = [own EXCEPT ![0] = t, ![p] = <<>>]
    BY DEF OwnFreed
  <1>3. t = [i \in 1 .. L + M |-> IF i <= L THEN q[L + 1 - i] ELSE r[i - L]]
    BY DEF TurnedBefore
  <1> HIDE DEF q, r, L, M, t
  <1>4. ASSUME NEW i \in 1 .. L + M
        PROVE IF i <= L THEN L + 1 - i \in 1 .. L ELSE i - L \in 1 .. M
    BY <1>1
  <1>5. t \in [1 .. L + M -> Blocks] /\ \A i \in 1 .. L + M : t[i] = IF i <= L THEN q[L + 1 - i] ELSE r[i - L]
    BY <1>1, <1>3, <1>4
  <1>6. t \in Seq(Blocks) /\ Len(t) = L + M
    BY <1>1, <1>5
  <1>7. /\ own2 \in [Owners -> Seq(Blocks)] /\ own2[0] = t /\ own2[p] = <<>>
        /\ \A x \in Owners : x # 0 /\ x # p => own2[x] = own[x]
    BY <1>0, <1>2, <1>6
  <1>8. \A x \in Blocks \ {p} : own2[x] = own[x]
    <2>1. 0 \notin Blocks
      BY Sizes DEF Blocks
    <2> QED
      BY <1>0, <1>7, <2>1
  <1> QED
    BY <1>7, <1>8

\* The free list begins with those of the packet.
LEMMA FreeOnes ==
    ASSUME NEW own, own \in [Owners -> Seq(Blocks)], NEW p \in Blocks, NEW own2, own2 = OwnFreed(own, p)
    PROVE Len(own2[0]) = Len(own[p]) + Len(own[0]) /\ own2[0] = TurnedBefore(own[p], own[0])
  <1> DEFINE q == own[p]
             r == own[0]
             L == Len(q)
             M == Len(r)
             t == TurnedBefore(q, r)
  <1>0. 0 \in Owners /\ p \in Owners /\ p # 0 /\ Blocks \subseteq Owners
    BY Sizes DEF Owners, Blocks
  <1>1. L \in Nat /\ M \in Nat /\ q \in Seq(Blocks) /\ r \in Seq(Blocks)
        /\ (\A i \in 1 .. L : q[i] \in Blocks) /\ (\A i \in 1 .. M : r[i] \in Blocks)
    BY <1>0
  <1>2. own2 = [own EXCEPT ![0] = t, ![p] = <<>>]
    BY DEF OwnFreed
  <1>3. t = [i \in 1 .. L + M |-> IF i <= L THEN q[L + 1 - i] ELSE r[i - L]]
    BY DEF TurnedBefore
  <1> HIDE DEF q, r, L, M, t
  <1>4. ASSUME NEW i \in 1 .. L + M
        PROVE IF i <= L THEN L + 1 - i \in 1 .. L ELSE i - L \in 1 .. M
    BY <1>1
  <1>5. t \in [1 .. L + M -> Blocks] /\ \A i \in 1 .. L + M : t[i] = IF i <= L THEN q[L + 1 - i] ELSE r[i - L]
    BY <1>1, <1>3, <1>4
  <1>6. t \in Seq(Blocks) /\ Len(t) = L + M
    BY <1>1, <1>5
  <1>7. /\ own2 \in [Owners -> Seq(Blocks)] /\ own2[0] = t /\ own2[p] = <<>>
        /\ \A x \in Owners : x # 0 /\ x # p => own2[x] = own[x]
    BY <1>0, <1>2, <1>6
  <1>9. Len(own2[0]) = Len(own[p]) + Len(own[0])
    BY <1>6, <1>7 DEF q, r, L, M
  <1>10. own2[0] = TurnedBefore(own[p], own[0])
    BY <1>7 DEF t, q, r
  <1> QED
    BY <1>9, <1>10

LEMMA TurnedIs ==
    ASSUME NEW q \in Seq(Blocks), NEW r \in Seq(Blocks), NEW t, t = TurnedBefore(q, r)
    PROVE \A i \in 1 .. Len(q) + Len(r) : t[i] = IF i <= Len(q) THEN q[Len(q) + 1 - i] ELSE r[i - Len(q)]
  BY DEF TurnedBefore

\* The lists when the blocks of a packet are free: no block is lost and none is in two.
LEMMA OwnFreedIs ==
    ASSUME NEW own, own \in [Owners -> Seq(Blocks)], Apart(own), NEW made, Covers(own, made), NEW p \in Blocks,
           NEW own2, own2 = OwnFreed(own, p)
    PROVE Apart(own2) /\ Covers(own2, made)
  <1> DEFINE q == own[p]
             r == own[0]
             L == Len(q)
             M == Len(r)
             t == own2[0]
  <1>0. 0 \in Owners /\ p \in Owners /\ p # 0 /\ Blocks \subseteq Owners
    BY Sizes DEF Owners, Blocks
  <1>1. L \in Nat /\ M \in Nat /\ q \in Seq(Blocks) /\ r \in Seq(Blocks)
        /\ (\A i \in 1 .. L : q[i] \in Blocks) /\ (\A i \in 1 .. M : r[i] \in Blocks)
    BY <1>0
  <1>4. ASSUME NEW i \in 1 .. L + M
        PROVE IF i <= L THEN L + 1 - i \in 1 .. L ELSE i - L \in 1 .. M
    <2> HIDE DEF L, M
    <2> QED
      BY <1>1
  <1>5. /\ own2 \in [Owners -> Seq(Blocks)] /\ own2[p] = <<>> /\ (\A x \in Blocks \ {p} : own2[x] = own[x])
        /\ Len(t) = L + M /\ \A i \in 1 .. L + M : t[i] = IF i <= L THEN q[L + 1 - i] ELSE r[i - L]
    <2>1. /\ own2 \in [Owners -> Seq(Blocks)] /\ own2[p] = <<>> /\ \A x \in Blocks \ {p} : own2[x] = own[x]
      BY OwnFreedAt
    <2>2. Len(t) = L + M /\ t = TurnedBefore(q, r)
      BY FreeOnes
    <2>3. q \in Seq(Blocks) /\ r \in Seq(Blocks)
      BY <1>1
    <2> HIDE DEF q, r, t
    <2>4. \A i \in 1 .. L + M : t[i] = IF i <= L THEN q[L + 1 - i] ELSE r[i - L]
      BY <2>2, <2>3, TurnedIs
    <2> QED
      BY <2>1, <2>2, <2>4
  <1>6. Len(t) = L + M
    BY <1>5
  <1>7. /\ own2[0] = t /\ own2[p] = <<>> /\ \A x \in Owners : x # 0 /\ x # p => own2[x] = own[x]
    <2>1. \A x \in Owners : x # 0 => x \in Blocks
      BY Sizes DEF Owners, Blocks
    <2> QED
      BY <1>5, <2>1
  <1> HIDE DEF q, r, L, M, t
  <1>8. \A x \in Owners : \A i \in 1 .. Len(own2[x]) :
            \/ x = 0 /\ i <= L /\ L + 1 - i \in 1 .. Len(own[p]) /\ own2[x][i] = own[p][L + 1 - i]
            \/ x = 0 /\ i > L /\ i - L \in 1 .. Len(own[0]) /\ own2[x][i] = own[0][i - L]
            \/ x # 0 /\ x # p /\ i \in 1 .. Len(own[x]) /\ own2[x][i] = own[x][i]
    <2> TAKE x \in Owners
    <2> TAKE i \in 1 .. Len(own2[x])
    <2>1. CASE x = 0
      <3>1. i \in 1 .. L + M
        BY <1>6, <1>7, <2>1
      <3>2. own2[x][i] = IF i <= L THEN q[L + 1 - i] ELSE r[i - L]
        BY <1>5, <1>7, <2>1, <3>1
      <3> QED
        BY <1>1, <1>4, <2>1, <3>1, <3>2 DEF q, r, L, M
    <2>2. CASE x = p
      BY <1>7, <2>2
    <2>3. CASE x # 0 /\ x # p
      BY <1>7, <2>3
    <2> QED
      BY <2>1, <2>2, <2>3
  <1>9. Apart(own2)
    <2> SUFFICES ASSUME NEW x \in Owners, NEW y \in Owners, NEW i \in 1 .. Len(own2[x]),
                        NEW j \in 1 .. Len(own2[y]), own2[x][i] = own2[y][j]
                 PROVE x = y /\ i = j
      BY DEF Apart
    <2>1. PICK x1 \in Owners : \E i1 \in 1 .. Len(own[x1]) : own2[x][i] = own[x1][i1]
            /\ \/ x = 0 /\ x1 = p /\ i1 = L + 1 - i
               \/ x = 0 /\ x1 = 0 /\ i1 = i - L
               \/ x # 0 /\ x # p /\ x1 = x /\ i1 = i
      BY <1>0, <1>8
    <2>2. PICK i1 \in 1 .. Len(own[x1]) : own2[x][i] = own[x1][i1]
            /\ \/ x = 0 /\ x1 = p /\ i1 = L + 1 - i
               \/ x = 0 /\ x1 = 0 /\ i1 = i - L
               \/ x # 0 /\ x # p /\ x1 = x /\ i1 = i
      BY <2>1
    <2>3. PICK y1 \in Owners : \E j1 \in 1 .. Len(own[y1]) : own2[y][j] = own[y1][j1]
            /\ \/ y = 0 /\ y1 = p /\ j1 = L + 1 - j
               \/ y = 0 /\ y1 = 0 /\ j1 = j - L
               \/ y # 0 /\ y # p /\ y1 = y /\ j1 = j
      BY <1>0, <1>8
    <2>4. PICK j1 \in 1 .. Len(own[y1]) : own2[y][j] = own[y1][j1]
            /\ \/ y = 0 /\ y1 = p /\ j1 = L + 1 - j
               \/ y = 0 /\ y1 = 0 /\ j1 = j - L
               \/ y # 0 /\ y # p /\ y1 = y /\ j1 = j
      BY <2>3
    <2>5. own[x1][i1] = own[y1][j1]
      BY <2>2, <2>4
    <2>6. x1 = y1 /\ i1 = j1
      BY <2>5 DEF Apart
    <2>7. i \in Int /\ j \in Int /\ L \in Int
      BY <1>1
    <2> QED
      BY <1>0, <2>2, <2>4, <2>6, <2>7
  <1>10. Covers(own2, made)
    <2>1. ASSUME NEW x \in Owners, NEW i \in 1 .. Len(own2[x]) PROVE own2[x][i] \in 1 .. made
      BY <1>0, <1>8 DEF Covers
    <2>2. ASSUME NEW b \in 1 .. made PROVE \E x \in Owners : \E i \in 1 .. Len(own2[x]) : own2[x][i] = b
      <3>1. PICK x \in Owners : \E i \in 1 .. Len(own[x]) : own[x][i] = b
        BY DEF Covers
      <3>2. PICK i \in 1 .. Len(own[x]) : own[x][i] = b
        BY <3>1
      <3>3. CASE x = p
        <4>1. i \in 1 .. L /\ q[i] = b
          BY <3>2, <3>3 DEF q, L
        <4>2. L + 1 - i \in 1 .. L + M /\ L + 1 - i <= L /\ L + 1 - (L + 1 - i) = i
          BY <1>1, <4>1
        <4>3. own2[0][L + 1 - i] = b
          BY <1>5, <1>7, <4>1, <4>2
        <4> QED
          BY <1>0, <1>6, <1>7, <4>2, <4>3
      <3>4. CASE x = 0
        <4>1. i \in 1 .. M /\ r[i] = b
          BY <3>2, <3>4 DEF r, M
        <4>2. L + i \in 1 .. L + M /\ ~(L + i <= L) /\ (L + i) - L = i
          BY <1>1, <4>1
        <4>3. own2[0][L + i] = b
          BY <1>5, <1>7, <4>1, <4>2
        <4> QED
          BY <1>0, <1>6, <1>7, <4>2, <4>3
      <3>5. CASE x # 0 /\ x # p
        BY <1>7, <3>2, <3>5
      <3> QED
        BY <3>3, <3>4, <3>5
    <2> QED
      BY <2>1, <2>2 DEF Covers
  <1> QED
    BY <1>9, <1>10


NextFreed(m, p, list) ==
    [x \in Blocks |-> IF x = p THEN m.free ELSE IF x \in list THEN BlockBefore(m.next, list, x) ELSE m.next[x]]

\* mblock_free of the blocks of a packet.
LEMMA FreeListIs ==
    ASSUME NEW m \in Memory, NEW own, Chains(m, own), NEW p \in Blocks, m.io[p].count > 0,
           NEW m1, m1 = FreeList(m, p), NEW own2, own2 = OwnFreed(own, p)
    PROVE /\ m1 \in Memory /\ m1.cell = m.cell /\ m1.io = m.io /\ m1.made = m.made
          /\ Threaded(own2[0], m1.free, m1.next)
          /\ \A x \in Blocks \ {p} : m.io[x].count > 0 => Threaded(own2[x], x, m1.next)
  <1> DEFINE q == own[p]
             r == own[0]
             L == Len(q)
             M == Len(r)
             list == ListOf(m, p)
             nx == NextFreed(m, p, list)
             last == BlockBefore(m.next, list, 0)
             t == own2[0]
  <1>0. 0 \in Owners /\ p \in Owners /\ p # 0 /\ Blocks \subseteq Owners /\ 0 \notin Blocks
    BY Sizes DEF Owners, Blocks
  <1>1. q \in Seq(Blocks) /\ IsInjective(q) /\ r \in Seq(Blocks) /\ q # <<>> /\ Threaded(q, p, m.next)
        /\ Threaded(r, m.free, m.next) /\ L \in Nat \ {0} /\ M \in Nat
        /\ (\A i \in 1 .. L : q[i] \in Blocks) /\ (\A i \in 1 .. M : r[i] \in Blocks)
    <2>1. q \in Seq(Blocks) /\ IsInjective(q) /\ L \in 0 .. NumBlocks /\ \A i \in 1 .. L : q[i] \in Blocks
      BY <1>0, OwnIs
    <2>2. r \in Seq(Blocks) /\ M \in 0 .. NumBlocks /\ \A i \in 1 .. M : r[i] \in Blocks
      BY <1>0, OwnIs
    <2>3. q # <<>> /\ Threaded(q, p, m.next) /\ Threaded(r, m.free, m.next)
      BY DEF Chains, Linked
    <2>4. L # 0
      BY <2>1, <2>3, NoneIs
    <2> QED
      BY <2>1, <2>2, <2>3, <2>4
  <1>2. list = {q[i] : i \in 1 .. L}
    BY <1>1, BehindIs
  <1>3. /\ own2 \in [Owners -> Seq(Blocks)] /\ t \in Seq(Blocks) /\ Len(t) = L + M
        /\ (\A x \in Blocks \ {p} : own2[x] = own[x])
        /\ \A i \in 1 .. L + M : t[i] = IF i <= L THEN q[L + 1 - i] ELSE r[i - L]
    <2>1. own \in [Owners -> Seq(Blocks)] /\ Apart(own) /\ Covers(own, m.made)
      BY DEF Chains
    <2> HIDE DEF t, q, r, L, M, list, nx, last
    <2>0. p \in Blocks /\ own2 = OwnFreed(own, p)
      OBVIOUS
    <2>2. own2 \in [Owners -> Seq(Blocks)]
      BY ONLY <2>1, <2>0, OwnFreedAt
    <2>3. \A x \in Blocks \ {p} : own2[x] = own[x]
      BY ONLY <2>1, <2>0, OwnFreedAt
    <2>4. Len(own2[0]) = Len(own[p]) + Len(own[0])
      BY ONLY <2>1, <2>0, FreeOnes
    <2>5. own2[0] = TurnedBefore(own[p], own[0])
      BY ONLY <2>1, <2>0, FreeOnes
    <2>6. q \in Seq(Blocks) /\ r \in Seq(Blocks) /\ t = TurnedBefore(q, r)
      BY <1>1, <2>5 DEF t, q, r
    <2>7. \A i \in 1 .. L + M : t[i] = IF i <= L THEN q[L + 1 - i] ELSE r[i - L]
      BY <2>6, TurnedIs DEF L, M
    <2>8. t \in Seq(Blocks) /\ Len(t) = L + M
      BY <1>0, <2>2, <2>4 DEF t, q, r, L, M
    <2> QED
      BY <2>2, <2>3, <2>7, <2>8
  <1>4. m1 = [m EXCEPT !.next = nx, !.free = last]
    BY DEF FreeList, NextFreed, BlockBefore
  <1> HIDE DEF list
  <1>5. /\ last = q[L]
        /\ \A i \in 1 .. L - 1 : BlockBefore(m.next, list, q[i + 1]) = q[i]
    <2> DEFINE mn == m.next
    <2>1. q \in Seq(Blocks) /\ IsInjective(q) /\ Threaded(q, p, mn) /\ q # <<>> /\ list = {q[i] : i \in 1 .. Len(q)}
      BY <1>1, <1>2
    <2> HIDE DEF q, mn
    <2>2. /\ BlockBefore(mn, list, 0) = q[Len(q)]
          /\ \A i \in 1 .. Len(q) - 1 : BlockBefore(mn, list, q[i + 1]) = q[i]
      BY ONLY <2>1, BeforeIs
    <2> QED
      BY <2>2 DEF mn
  <1>6. p = q[1] /\ m.free = (IF M = 0 THEN 0 ELSE r[1])
        /\ \A i \in 1 .. M : m.next[r[i]] = IF i = M THEN 0 ELSE r[i + 1]
    <2>1. r = <<>> <=> M = 0
      BY <1>1, NoneIs
    <2> QED
      BY <1>1, <2>1 DEF Threaded
  <1>7. \A i, j \in 1 .. L : q[i] = q[j] => i = j
    BY <1>1 DEF IsInjective
  <1>8. ASSUME NEW x \in Owners, x # p, NEW i \in 1 .. Len(own[x]) PROVE own[x][i] \notin list
    <2>1. \A j \in 1 .. L : own[x][i] = q[j] => x = p
      BY <1>0 DEF Chains, Apart
    <2> QED
      BY <1>2, <1>8, <2>1
  <1>9. /\ m.next \in [Blocks -> 0 .. NumBlocks] /\ m.free \in 0 .. NumBlocks
        /\ m.cell \in [Blocks -> [0 .. BlockSize - 1 -> Nat]] /\ m.made \in 0 .. NumBlocks
        /\ m.io \in [Blocks -> IORecord]
        /\ m = [cell |-> m.cell, next |-> m.next, free |-> m.free, made |-> m.made, io |-> m.io]
    BY MemoryIs
  <1>10. /\ nx[q[1]] = m.free
         /\ \A i \in 1 .. L - 1 : nx[q[i + 1]] = q[i]
         /\ \A x \in Blocks : x \notin list => nx[x] = m.next[x]
    <2>0. \A x \in Blocks : nx[x] = IF x = p THEN m.free ELSE IF x \in list THEN BlockBefore(m.next, list, x)
                                                                     ELSE m.next[x]
      BY DEF NextFreed
    <2> HIDE DEF nx
    <2>1. nx[q[1]] = m.free
      BY <1>6, <2>0
    <2>2. ASSUME NEW i \in 1 .. L - 1 PROVE nx[q[i + 1]] = q[i]
      <3>1. i + 1 \in 1 .. L /\ 1 \in 1 .. L /\ i + 1 # 1
        BY <1>1
      <3>2. q[i + 1] \in list /\ q[i + 1] # p /\ q[i + 1] \in Blocks
        BY <1>1, <1>2, <1>6, <1>7, <3>1
      <3>3. nx[q[i + 1]] = BlockBefore(m.next, list, q[i + 1])
        BY <2>0, <3>2
      <3> QED
        BY <1>5, <3>3
    <2>3. ASSUME NEW x \in Blocks, x \notin list PROVE nx[x] = m.next[x]
      <3>1. 1 \in 1 .. L
        BY <1>1
      <3>2. p \in list
        BY <1>2, <1>6, <3>1
      <3> QED
        BY <2>0, <2>3, <3>2
    <2> QED
      BY <2>1, <2>2, <2>3
  <1>11. nx \in [Blocks -> 0 .. NumBlocks] /\ last \in 0 .. NumBlocks
    <2>0. Blocks \subseteq 0 .. NumBlocks
      BY Sizes DEF Blocks
    <2>1. ASSUME NEW x \in Blocks PROVE nx[x] \in 0 .. NumBlocks
      <3>1. CASE x \in list
        <4>1. PICK i \in 1 .. L : x = q[i]
          BY <1>2, <3>1
        <4>2. CASE i = 1
          BY <1>9, <1>10, <4>1, <4>2
        <4>3. CASE i # 1
          <5>1. i - 1 \in 1 .. L - 1 /\ (i - 1) + 1 = i /\ i - 1 \in 1 .. L
            BY <1>1, <4>3
          <5>2. nx[q[i]] = q[i - 1]
            BY <1>10, <5>1
          <5> QED
            BY <1>1, <2>0, <4>1, <5>1, <5>2
        <4> QED
          BY <4>2, <4>3
      <3>2. CASE x \notin list
        BY <1>9, <1>10, <3>2
      <3> QED
        BY <3>1, <3>2
    <2>2. \E f : nx = [x \in Blocks |-> f[x]]
      <3> DEFINE f == nx
      <3>1. nx = [x \in Blocks |-> f[x]]
        BY DEF NextFreed
      <3> QED
        BY <3>1
    <2>3. L \in 1 .. L
      BY <1>1
    <2>4. last \in 0 .. NumBlocks
      BY <1>1, <1>5, <2>0, <2>3
    <2> HIDE DEF nx, last
    <2> QED
      BY <2>1, <2>2, <2>4
  <1> HIDE DEF nx, last, t
  <1>12. m1 = [cell |-> m.cell, next |-> nx, free |-> last, made |-> m.made, io |-> m.io]
    BY <1>4, <1>9
  <1>13. m1.cell = m.cell /\ m1.next = nx /\ m1.free = last /\ m1.made = m.made /\ m1.io = m.io
    BY <1>12
  <1>14. m1 \in Memory
    BY <1>9, <1>11, <1>12, <1>13, MemoryOf
  <1>15. Threaded(t, last, nx)
    <2>0. L \in Nat \ {0} /\ M \in Nat
      BY <1>1
    <2>1. t # <<>>
      <3>1. Len(t) # 0 /\ t \in Seq(Blocks)
        <4>1. Len(t) = L + M
          BY <1>3
        <4> HIDE DEF L, M
        <4> QED
          BY <1>3, <2>0, <4>1
      <3> QED
        BY <3>1, NoneIs
    <2>2. last = t[1]
      <3>1. 1 \in 1 .. L + M /\ 1 <= L /\ L + 1 - 1 = L
        <4> HIDE DEF L, M
        <4> QED
          BY ONLY <2>0
      <3> QED
        BY <1>3, <1>5, <3>1
    <2>3. ASSUME NEW i \in 1 .. L + M PROVE nx[t[i]] = IF i = L + M THEN 0 ELSE t[i + 1]
      <3> HIDE DEF L, M, q, r
      <3>1. CASE i < L
        <4>1. L - i \in 1 .. L - 1 /\ (L - i) + 1 = L + 1 - i /\ i + 1 \in 1 .. L + M /\ i + 1 <= L /\ i <= L
              /\ L + 1 - (i + 1) = L - i /\ i # L + M
          BY <1>1, <3>1
        <4>2. t[i] = q[L + 1 - i] /\ t[i + 1] = q[L - i]
          BY <1>3, <4>1
        <4> QED
          BY <1>10, <4>1, <4>2
      <3>2. CASE i = L
        <4>1. L + 1 - i = 1 /\ i <= L
          BY <1>1, <3>2
        <4>2. t[i] = q[1]
          BY <1>3, <4>1
        <4>3. CASE M = 0
          BY <1>1, <1>6, <1>10, <3>2, <4>2, <4>3
        <4>4. CASE M # 0
          <5>1. i + 1 \in 1 .. L + M /\ ~(i + 1 <= L) /\ (i + 1) - L = 1 /\ i # L + M
            BY <1>1, <3>2, <4>4
          <5>2. t[i + 1] = r[1]
            BY <1>3, <5>1
          <5> QED
            BY <1>6, <1>10, <4>2, <4>4, <5>1, <5>2
        <4> QED
          BY <4>3, <4>4
      <3>3. CASE i > L
        <4>1. i - L \in 1 .. M /\ ~(i <= L) /\ (i = L + M <=> i - L = M)
          BY <1>1, <3>3
        <4>2. t[i] = r[i - L]
          BY <1>3, <4>1
        <4>3. r[i - L] \in Blocks /\ r[i - L] \notin list
          <5>1. 0 # p /\ 0 \in Owners /\ i - L \in 1 .. Len(own[0])
            BY <1>0, <4>1 DEF r, M
          <5>2. own[0][i - L] \notin list
            BY <1>8, <5>1
          <5> QED
            BY <1>1, <4>1, <5>2 DEF r
        <4>4. nx[t[i]] = IF i - L = M THEN 0 ELSE r[i - L + 1]
          BY <1>6, <1>10, <4>1, <4>2, <4>3
        <4>5. i # L + M => i + 1 \in 1 .. L + M /\ ~(i + 1 <= L) /\ (i + 1) - L = i - L + 1
          BY ONLY <2>0, <3>3, i \in 1 .. L + M
        <4>6. i # L + M => t[i + 1] = r[i - L + 1]
          BY <1>3, <4>5
        <4> QED
          BY <4>1, <4>4, <4>6
      <3>4. i < L \/ i = L \/ i > L
        BY <1>1
      <3> QED
        BY <3>1, <3>2, <3>3, <3>4
    <2> QED
      BY <1>3, <2>1, <2>2, <2>3 DEF Threaded
  <1>16. ASSUME NEW x \in Blocks \ {p}, m.io[x].count > 0 PROVE Threaded(own2[x], x, nx)
    <2>1. own2[x] = own[x] /\ x \in Owners /\ x # p
      BY <1>0, <1>3
    <2>2. Threaded(own[x], x, m.next)
      BY <1>16 DEF Chains, Linked
    <2>3. ASSUME NEW i \in 1 .. Len(own[x]) PROVE nx[own[x][i]] = m.next[own[x][i]]
      <3>1. own[x][i] \in Blocks
        BY <2>1, OwnIs
      <3> QED
        BY <1>8, <1>10, <2>1, <3>1
    <2> QED
      BY <2>1, <2>2, <2>3, ThreadedSame
  <1> QED
    BY <1>13, <1>14, <1>15, <1>16 DEF t

\* rbtP_drop of a packet that somebody else holds too.
LEMMA DropMoreIs ==
    ASSUME NEW m, NEW own, NEW data, MemOK(m, own, data), NEW p \in Blocks, m.io[p].count > 1,
           NEW m2, m2 = DropPacket(m, p)
    PROVE /\ MemOK(m2, own, data) /\ \A x \in Blocks \ {p} : m2.io[x] = m.io[x]
          /\ m2.io[p].count = m.io[p].count - 1 /\ m2.io[p].mine = m.io[p].mine
          /\ m2.io[p].ptr = m.io[p].ptr /\ m2.io[p].size = m.io[p].size /\ m2.made = m.made
  <1> DEFINE io == m.io[p]
             io2 == [io EXCEPT !.count = @ - 1]
  <1>0. m.io \in [Blocks -> IORecord] /\ io \in IORecord
    BY MemoryIs DEF MemOK
  <1>1. io.count \in Nat /\ io.count > 1
    BY <1>0, IORecordIs
  <1>2. m.io[p].count > 0 /\ io.count - 1 \in Nat /\ io.count - 1 > 0
    <2> DEFINE c == io.count
    <2>1. c \in Nat /\ c > 1
      BY <1>1
    <2> HIDE DEF c
    <2>2. c > 0 /\ c - 1 \in Nat /\ c - 1 > 0
      BY ONLY <2>1
    <2> QED
      BY <2>2 DEF c
  <1>3. /\ own[p] \in Seq(Blocks) /\ data[p] \in Seq(Nat) /\ data \in [Blocks -> Seq(Nat)]
        /\ PacketOK(m.cell, own[p], io, data[p])
    BY <1>2, LiveIs
  <1>4. m2 = IOSet(m, p, io2)
    <2>1. m2 = [m EXCEPT !.io[p].count = @ - 1]
      BY DEF DropPacket
    <2>2. [m EXCEPT !.io[p].count = @ - 1] = [m EXCEPT !.io[p] = io2]
      OBVIOUS
    <2> QED
      BY <2>1, <2>2 DEF IOSet
  <1>5. io2 = [block |-> io.block, pos |-> io.pos, ptr |-> io.ptr, size |-> io.size, count |-> io.count - 1,
               mine |-> io.mine]
    <2>1. io = [block |-> io.block, pos |-> io.pos, ptr |-> io.ptr, size |-> io.size, count |-> io.count,
                mine |-> io.mine]
      BY <1>0, IORecordIs
    <2> HIDE DEF io
    <2> QED
      BY <2>1
  <1>6. io2 \in IORecord
    <2>1. io.block \in 0 .. NumBlocks /\ io.pos \in 0 .. BlockSize /\ io.ptr \in Nat /\ io.size \in Nat /\ io.mine \in Nat
      BY <1>0, IORecordIs
    <2> HIDE DEF io, io2
    <2> QED
      BY <1>2, <1>5, <2>1, IORecordOf
  <1>7. io2.block = io.block /\ io2.pos = io.pos /\ io2.ptr = io.ptr /\ io2.size = io.size
        /\ io2.count = io.count - 1 /\ io2.mine = io.mine
    <2> HIDE DEF io, io2
    <2> QED
      BY <1>5
  <1> HIDE DEF io2
  <1>8. PacketOK(m.cell, own[p], io2, data[p])
    BY <1>3, <1>7 DEF PacketOK, OnSpot
  <1>9. /\ MemOK(m2, own, DataSet(data, p, data[p]))
        /\ m2.io = [m.io EXCEPT ![p] = io2] /\ m2.io[p] = io2 /\ m2.made = m.made
    <2> DEFINE d == data[p]
    <2>1. io2.count > 0 /\ m.io[p].count > 0 /\ d \in Seq(Nat) /\ MemOK(m, own, data) /\ p \in Blocks
      BY <1>2, <1>3, <1>7
    <2>2. PacketOK(m.cell, own[p], io2, d)
      BY <1>8
    <2> HIDE DEF d
    <2>3. MemOK(m2, own, DataSet(data, p, d))
      BY ONLY <1>4, <1>6, <2>1, <2>2, CursorIs
    <2>4. m2.io = [m.io EXCEPT ![p] = io2] /\ m2.io[p] = io2 /\ m2.made = m.made
      BY ONLY <1>4, <1>6, <2>1, <2>2, CursorIs
    <2> QED
      BY <2>3, <2>4 DEF d
  <1>10. DataSet(data, p, data[p]) = data
    BY <1>3, DataSame
  <1>11. \A x \in Blocks \ {p} : m2.io[x] = m.io[x]
    BY <1>0, <1>9
  <1> QED
    BY <1>7, <1>9, <1>10, <1>11

LEMMA NoIOIs == NoIO \in IORecord /\ NoIO.count = 0 /\ NoIO.mine = 0
  <1>1. 0 \in 0 .. NumBlocks /\ 0 \in 0 .. BlockSize /\ 0 \in Nat
    BY Sizes
  <1>2. NoIO \in IORecord
    BY <1>1, IORecordOf DEF NoIO
  <1> QED
    BY <1>2 DEF NoIO

\* rbtP_drop of the last reference: the blocks of the packet come before the free ones.
LEMMA DropLastIs ==
    ASSUME NEW m, NEW own, NEW data, MemOK(m, own, data), NEW p \in Blocks, m.io[p].count > 0,
           ~(m.io[p].count > 1), NEW m2, m2 = DropPacket(m, p), NEW own2, own2 = OwnFreed(own, p)
    PROVE /\ MemOK(m2, own2, DataSet(data, p, <<>>))
          /\ m2.io = [m.io EXCEPT ![p] = NoIO] /\ \A x \in Blocks \ {p} : own2[x] = own[x]
  <1> DEFINE m1 == FreeList(m, p)
  <1>1. m \in Memory /\ Chains(m, own) /\ data \in [Blocks -> Seq(Nat)]
        /\ \A x \in Blocks : m.io[x].count > 0 => PacketOK(m.cell, own[x], m.io[x], data[x])
    BY DEF MemOK
  <1>2. own \in [Owners -> Seq(Blocks)] /\ Apart(own) /\ Covers(own, m.made) /\ Linked(m, own)
    BY <1>1 DEF Chains
  <1>3. m1 = FreeList(m, p)
    OBVIOUS
  <1>4. m2 = [m1 EXCEPT !.io[p] = NoIO]
    BY DEF DropPacket
  <1> HIDE DEF m1
  <1>5. m1 \in Memory /\ m1.cell = m.cell /\ m1.io = m.io /\ m1.made = m.made
    BY <1>1, <1>3, FreeListIs
  <1>6. Threaded(own2[0], m1.free, m1.next)
    BY <1>1, <1>3, FreeListIs
  <1>7. \A x \in Blocks \ {p} : m.io[x].count > 0 => Threaded(own2[x], x, m1.next)
    BY <1>1, <1>3, FreeListIs
  <1>8. own2 \in [Owners -> Seq(Blocks)] /\ own2[p] = <<>> /\ \A x \in Blocks \ {p} : own2[x] = own[x]
    BY <1>2, OwnFreedAt
  <1>9. Apart(own2) /\ Covers(own2, m.made)
    <2> DEFINE made == m.made
    <2>1. own \in [Owners -> Seq(Blocks)] /\ Apart(own) /\ Covers(own, made)
      BY <1>2
    <2> HIDE DEF made
    <2>2. Apart(own2) /\ Covers(own2, made)
      BY <2>1, OwnFreedIs
    <2> QED
      BY <2>2 DEF made
  <1>10. m2 \in Memory /\ m2 = [cell |-> m1.cell, next |-> m1.next, free |-> m1.free, made |-> m1.made,
                                io |-> [m1.io EXCEPT ![p] = NoIO]]
    BY <1>4, <1>5, NoIOIs, WithIO
  <1>11. /\ m2.cell = m.cell /\ m2.next = m1.next /\ m2.free = m1.free /\ m2.made = m.made
         /\ m2.io = [m.io EXCEPT ![p] = NoIO]
    BY <1>5, <1>10
  <1>12. m2.io[p] = NoIO /\ \A x \in Blocks \ {p} : m2.io[x] = m.io[x]
    <2>1. m.io \in [Blocks -> IORecord]
      BY <1>1, MemoryIs
    <2> QED
      BY <1>11, <2>1
  <1>13. Chains(m2, own2)
    <2>1. Threaded(own2[0], m2.free, m2.next)
      BY <1>6, <1>11
    <2>2. ASSUME NEW x \in Blocks
          PROVE IF m2.io[x].count > 0 THEN own2[x] # <<>> /\ Threaded(own2[x], x, m2.next) ELSE own2[x] = <<>>
      <3>1. CASE x = p
        <4>1. ~(m2.io[x].count > 0)
          BY <1>12, <3>1, NoIOIs
        <4> QED
          BY <1>8, <3>1, <4>1
      <3>2. CASE x # p
        <4>1. m2.io[x] = m.io[x] /\ own2[x] = own[x]
          BY <1>8, <1>12, <3>2
        <4>2. IF m.io[x].count > 0 THEN own[x] # <<>> ELSE own[x] = <<>>
          BY <1>2 DEF Linked
        <4>3. m.io[x].count > 0 => Threaded(own2[x], x, m2.next)
          BY <1>7, <1>11, <3>2
        <4> QED
          BY <4>1, <4>2, <4>3
      <3> QED
        BY <3>1, <3>2
    <2>3. Linked(m2, own2)
      BY <2>1, <2>2 DEF Linked
    <2> QED
      BY <1>8, <1>9, <1>11, <2>3 DEF Chains
  <1>14. DataSet(data, p, <<>>) \in [Blocks -> Seq(Nat)]
         /\ \A x \in Blocks \ {p} : DataSet(data, p, <<>>)[x] = data[x]
    <2>1. <<>> \in Seq(Nat)
      OBVIOUS
    <2> QED
      BY <1>1, <2>1 DEF DataSet
  <1>15. ASSUME NEW x \in Blocks, m2.io[x].count > 0
         PROVE PacketOK(m2.cell, own2[x], m2.io[x], DataSet(data, p, <<>>)[x])
    <2>1. x # p
      BY <1>12, <1>15, NoIOIs
    <2> QED
      BY <1>1, <1>8, <1>11, <1>12, <1>14, <1>15, <2>1
  <1> QED
    BY <1>8, <1>10, <1>11, <1>13, <1>14, <1>15 DEF MemOK
IOFirst(b) == [block |-> b, pos |-> Taken, ptr |-> 0, size |-> 0, count |-> 1, mine |-> 1]

\* The first block of a new packet.
LEMMA OpenIs ==
    ASSUME NEW m, NEW own, NEW data, MemOK(m, own, data), Spare(m, own) > 0,
           NEW b, b = NewBlock(m), NEW m2, m2 = OpenBlock(m)
    PROVE /\ b \in Blocks /\ m.io[b].count = 0
          /\ \E own2 :
                /\ MemOK(m2, own2, DataSet(data, b, <<>>)) /\ m2.io = [m.io EXCEPT ![b] = IOFirst(b)]
                /\ (\A x \in Blocks \ {b} : own2[x] = own[x]) /\ Len(own2[b]) = 1
                /\ Spare(m2, own2) = Spare(m, own) - 1
  <1> DEFINE m1 == Create(m)
             own1 == OwnLess(m, own)
             io == IOFirst(b)
             own2 == OwnMore(own1, b, b)
             data2 == DataSet(data, b, <<>>)
  <1>0. 0 \in Owners /\ Blocks \subseteq Owners /\ 0 \notin Blocks
    BY Sizes DEF Owners, Blocks
  <1>1. /\ m \in Memory /\ Chains(m, own) /\ data \in [Blocks -> Seq(Nat)] /\ m.io \in [Blocks -> IORecord]
        /\ \A x \in Blocks : m.io[x].count > 0 => PacketOK(m.cell, own[x], m.io[x], data[x])
    BY MemoryIs DEF MemOK
  <1>2. own \in [Owners -> Seq(Blocks)] /\ Linked(m, own)
    BY <1>1 DEF Chains
  <1>3. /\ b \in Blocks /\ m1 \in Memory /\ m1.cell = m.cell /\ m1.io = m.io
        /\ m1.next = [m.next EXCEPT ![b] = 0]
        /\ Loose(own1, m1.made, b) /\ Threaded(own1[0], m1.free, m1.next)
        /\ \A x \in Blocks : own1[x] = own[x]
        /\ NumBlocks - m1.made + Len(own1[0]) = Spare(m, own) - 1
    BY <1>1, CreateIs
  <1>4. m2 = [m1 EXCEPT !.io[b] = io]
    <2>1. io = [NoIO EXCEPT !.block = b, !.pos = Taken, !.count = 1, !.mine = 1]
      <3> DEFINE r1 == [NoIO EXCEPT !.block = b]
                 r2 == [r1 EXCEPT !.pos = Taken]
                 r3 == [r2 EXCEPT !.count = 1]
                 r4 == [r3 EXCEPT !.mine = 1]
      <3>1. r1 = [block |-> b, pos |-> 0, ptr |-> 0, size |-> 0, count |-> 0, mine |-> 0]
        BY DEF NoIO
      <3> HIDE DEF r1
      <3>2. r2 = [block |-> b, pos |-> Taken, ptr |-> 0, size |-> 0, count |-> 0, mine |-> 0]
        BY <3>1
      <3> HIDE DEF r2
      <3>3. r3 = [block |-> b, pos |-> Taken, ptr |-> 0, size |-> 0, count |-> 1, mine |-> 0]
        BY <3>2
      <3> HIDE DEF r3
      <3>4. r4 = [block |-> b, pos |-> Taken, ptr |-> 0, size |-> 0, count |-> 1, mine |-> 1]
        BY <3>3
      <3> QED
        BY <3>4 DEF IOFirst, r4, r3, r2, r1
    <2> HIDE DEF io
    <2> QED
      BY <2>1 DEF OpenBlock
  <1> HIDE DEF m1, own1, io
  <1>5. b \in Blocks /\ m1 \in Memory /\ m1.cell = m.cell /\ m1.io = m.io
    BY <1>3
  <1>6. m1.next = [m.next EXCEPT ![b] = 0] /\ Loose(own1, m1.made, b) /\ Threaded(own1[0], m1.free, m1.next)
    BY <1>3
  <1>7. (\A x \in Blocks : own1[x] = own[x]) /\ NumBlocks - m1.made + Len(own1[0]) = Spare(m, own) - 1
    BY <1>3
  <1>8. m.io[b].count = 0 /\ own[b] = <<>>
    <2>1. m.io[b].count \in Nat
      BY <1>1, <1>5, IORecordIs
    <2>2. ASSUME m.io[b].count > 0 PROVE FALSE
      <3>1. own[b] \in Seq(Blocks) /\ own[b] # <<>> /\ own[b][1] = b
        BY <1>0, <1>2, <1>5, <2>2 DEF Linked, Threaded
      <3>2. 1 \in 1 .. Len(own[b])
        BY <3>1
      <3>3. \A i \in 1 .. Len(own1[b]) : own1[b][i] # b
        BY <1>0, <1>5, <1>6 DEF Loose
      <3> QED
        BY <1>5, <1>7, <3>1, <3>2, <3>3
    <2>3. ~(m.io[b].count > 0) => own[b] = <<>>
      BY <1>2, <1>5 DEF Linked
    <2> DEFINE c == m.io[b].count
    <2>4. c \in Nat /\ ~(c > 0)
      BY <2>1, <2>2
    <2> HIDE DEF c
    <2>5. c = 0
      BY ONLY <2>4
    <2> QED
      BY <2>2, <2>3, <2>5 DEF c
  <1>9. /\ own2 \in [Owners -> Seq(Blocks)] /\ Apart(own2) /\ Covers(own2, m1.made)
        /\ own2[b] = Append(own1[b], b) /\ \A y \in Owners \ {b} : own2[y] = own1[y]
    <2> DEFINE made == m1.made
    <2>1. Loose(own1, made, b) /\ b \in Owners
      BY <1>0, <1>5, <1>6
    <2> HIDE DEF made, own2
    <2>2. own2 = OwnMore(own1, b, b)
      BY DEF own2
    <2>3. own2 \in [Owners -> Seq(Blocks)] /\ Apart(own2) /\ Covers(own2, made)
      BY <1>5, <2>1, <2>2, AddedTo
    <2>4. own2[b] = Append(own1[b], b)
      BY <1>5, <2>1, <2>2, AddedTo
    <2>5. \A y \in Owners \ {b} : own2[y] = own1[y]
      BY <1>5, <2>1, <2>2, AddedTo
    <2> QED
      BY <2>3, <2>4, <2>5 DEF made
  <1> HIDE DEF own2
  <1>10. own2[b] = <<b>> /\ Len(own2[b]) = 1 /\ own2[b][1] = b /\ own2[b] # <<>>
    <2>1. own1[b] = <<>>
      BY <1>5, <1>7, <1>8
    <2>2. own2[b] = <<b>>
      BY <1>9, <2>1
    <2> QED
      BY <2>2
  <1>11. io \in IORecord /\ io.count = 1 /\ io.ptr = 0 /\ io.size = 0 /\ io.block = b /\ io.pos = Taken
    <2>1. b \in 0 .. NumBlocks /\ Taken \in 0 .. BlockSize /\ 0 \in Nat /\ 1 \in Nat
      BY <1>5, Sizes DEF Blocks
    <2>2. io \in IORecord
      BY <2>1, IORecordOf DEF io, IOFirst
    <2> QED
      BY <2>2 DEF io, IOFirst
  <1>12. m2 \in Memory /\ m2 = [cell |-> m1.cell, next |-> m1.next, free |-> m1.free, made |-> m1.made,
                                io |-> [m1.io EXCEPT ![b] = io]]
    BY <1>4, <1>5, <1>11, WithIO
  <1>13. /\ m2.cell = m.cell /\ m2.next = m1.next /\ m2.free = m1.free /\ m2.made = m1.made
         /\ m2.io = [m.io EXCEPT ![b] = io]
    BY <1>5, <1>12
  <1>14. m2.io[b] = io /\ \A x \in Blocks \ {b} : m2.io[x] = m.io[x] /\ own2[x] = own[x]
    BY <1>0, <1>1, <1>5, <1>7, <1>9, <1>13
  <1>15. own2[0] = own1[0]
    BY <1>0, <1>5, <1>9
  <1>16. \A y \in Blocks \ {b} : m1.next[y] = m.next[y]
    <2>1. m.next \in [Blocks -> 0 .. NumBlocks]
      BY <1>1, MemoryIs
    <2> QED
      BY <1>6, <2>1
  <1>17. Chains(m2, own2)
    <2>1. Threaded(own2[0], m2.free, m2.next)
      BY <1>6, <1>13, <1>15
    <2>2. ASSUME NEW x \in Blocks
          PROVE IF m2.io[x].count > 0 THEN own2[x] # <<>> /\ Threaded(own2[x], x, m2.next) ELSE own2[x] = <<>>
      <3>1. CASE x = b
        <4>1. m2.next[b] = 0
          <5>1. m.next \in [Blocks -> 0 .. NumBlocks]
            BY <1>1, MemoryIs
          <5> QED
            BY <1>5, <1>6, <1>13, <5>1
        <4>2. Threaded(own2[b], b, m2.next)
          BY <1>10, <4>1 DEF Threaded
        <4>3. m2.io[b].count > 0
          BY <1>11, <1>14
        <4> QED
          BY <1>10, <3>1, <4>2, <4>3
      <3>2. CASE x # b
        <4>1. m2.io[x] = m.io[x] /\ own2[x] = own[x] /\ own1[x] = own[x] /\ x \in Owners
          BY <1>0, <1>7, <1>14, <3>2
        <4>2. IF m.io[x].count > 0 THEN own[x] # <<>> /\ Threaded(own[x], x, m.next) ELSE own[x] = <<>>
          BY <1>2 DEF Linked
        <4>3. ASSUME NEW i \in 1 .. Len(own[x]) PROVE m2.next[own[x][i]] = m.next[own[x][i]]
          <5>1. own[x][i] \in Blocks /\ own[x][i] # b
            BY <1>1, <1>6, <4>1, OwnIs DEF Loose
          <5> QED
            BY <1>13, <1>16, <5>1
        <4>4. m.io[x].count > 0 => Threaded(own[x], x, m2.next)
          BY <4>2, <4>3, ThreadedSame
        <4> QED
          BY <4>1, <4>2, <4>4
      <3> QED
        BY <3>1, <3>2
    <2>3. Linked(m2, own2)
      BY <2>1, <2>2 DEF Linked
    <2> QED
      BY <1>9, <1>13, <2>3 DEF Chains
  <1>18. data2 \in [Blocks -> Seq(Nat)] /\ data2[b] = <<>> /\ \A x \in Blocks \ {b} : data2[x] = data[x]
    <2>1. <<>> \in Seq(Nat)
      OBVIOUS
    <2> QED
      BY <1>1, <1>5, <2>1 DEF DataSet
  <1>19. PacketOK(m2.cell, own2[b], io, <<>>)
    <2>1. K(0) = 0 /\ P(0) = Taken
      BY Spots
    <2>2. OnSpot(io, own2[b])
      BY <1>10, <1>11, <2>1 DEF OnSpot
    <2> QED
      BY <1>11, <2>2 DEF PacketOK
  <1>20. \A x \in Blocks : m2.io[x].count > 0 => PacketOK(m2.cell, own2[x], m2.io[x], data2[x])
    <2> TAKE x \in Blocks
    <2> HIDE DEF data2
    <2>1. CASE x = b
      BY <1>14, <1>18, <1>19, <2>1
    <2>2. CASE x # b
      BY <1>1, <1>13, <1>14, <1>18, <2>2
    <2> QED
      BY <2>1, <2>2
  <1>21. MemOK(m2, own2, data2)
    <2> HIDE DEF data2
    <2> QED
      BY <1>12, <1>17, <1>18, <1>20 DEF MemOK
  <1>22. Spare(m2, own2) = Spare(m, own) - 1
    BY <1>7, <1>13, <1>15 DEF Spare
  <1> QED
    BY <1>5, <1>8, <1>10, <1>13, <1>14, <1>21, <1>22 DEF io

\* All is written anew.
LEMMA WrittenAll ==
    ASSUME NEW d \in Seq(Nat), NEW cells \in Seq(Nat), NEW n, n = Len(cells), n >= Len(d)
    PROVE Written(d, 0, cells, n) = cells
  <1> DEFINE t == Written(d, 0, cells, n)
  <1>0. n \in Nat /\ Len(d) \in Nat /\ 0 \in 0 .. Len(d) /\ n \in 0 .. Len(cells) /\ 0 + n = n
        /\ n = IF 0 + n > Len(d) THEN 0 + n ELSE Len(d)
    OBVIOUS
  <1>1. /\ t \in Seq(Nat) /\ Len(t) = n
        /\ \A j \in 1 .. Len(t) : t[j] = IF j \in 0 + 1 .. 0 + n THEN cells[j - 0] ELSE d[j]
    <2>1. t \in Seq(Nat)
      BY <1>0, WrittenIs
    <2>2. Len(t) = IF 0 + n > Len(d) THEN 0 + n ELSE Len(d)
      BY <1>0, WrittenIs
    <2>3. \A j \in 1 .. Len(t) : t[j] = IF j \in 0 + 1 .. 0 + n THEN cells[j - 0] ELSE d[j]
      BY <1>0, WrittenIs
    <2> QED
      BY <1>0, <2>1, <2>2, <2>3
  <1> HIDE DEF t
  <1>2. \A j \in 1 .. n : t[j] = cells[j]
    <2> TAKE j \in 1 .. n
    <2>1. j \in 0 + 1 .. 0 + n /\ j - 0 = j
      BY <1>0
    <2> QED
      BY <1>1, <2>1
  <1>3. t = [j \in 1 .. n |-> t[j]] /\ cells = [j \in 1 .. n |-> cells[j]]
    <2>1. t \in [1 .. n -> Nat] /\ cells \in [1 .. n -> Nat]
      BY <1>1
    <2> QED
      BY ONLY <2>1
  <1>4. t = cells
    BY ONLY <1>2, <1>3
  <1> QED
    BY <1>4 DEF t

\* A new packet.
Opened(m, own, m2, own2, b) ==
    /\ \A x \in Blocks \ {b} : m2.io[x] = m.io[x] /\ own2[x] = own[x]
    /\ m2.io[b].count = 1 /\ m2.io[b].mine = 1
    /\ Spare(m2, own2) + Len(own2[b]) = Spare(m, own)

LEMMA OpenedOnly ==
    ASSUME NEW m, NEW own, NEW m1, NEW own1, NEW b, Opened(m, own, m1, own1, b),
           NEW m2, NEW own2, Only(m1, own1, m2, own2, b)
    PROVE Opened(m, own, m2, own2, b)
  BY DEF Opened, Only

\* rbtP_init
LEMMA InitIs ==
    ASSUME NEW m, NEW own, NEW data, MemOK(m, own, data), K(HeadSize - 1) < Spare(m, own),
           NEW b, b = NewBlock(m), NEW m2, m2 = InitPacket(m)
    PROVE /\ b \in Blocks /\ m.io[b].count = 0
          /\ \E own2 :
                /\ MemOK(m2, own2, DataSet(data, b, <<HeadSize, Plain, 0>>)) /\ Opened(m, own, m2, own2, b)
                /\ m2.io[b].ptr = HeadSize /\ m2.io[b].size = HeadSize
  <1> DEFINE m1 == OpenBlock(m)
             cells == <<HeadSize, Plain, 0>>
             s == Spare(m, own)
             k == K(HeadSize - 1)
  <1>1. HeadSize - 1 \in Nat /\ HeadSize = 3 /\ cells \in Seq(Nat) /\ Len(cells) = 3
    BY DEF HeadSize, Plain
  <1>2. s \in Nat /\ k \in Nat /\ k < s /\ s > 0
    <2>1. s \in Nat /\ k \in Nat /\ k < s
      BY <1>1, SpareIs, Spots
    <2> HIDE DEF s, k
    <2>2. s > 0
      BY <2>1
    <2> QED
      BY <2>1, <2>2
  <1>3. data \in [Blocks -> Seq(Nat)] /\ m.io \in [Blocks -> IORecord]
    BY MemoryIs DEF MemOK
  <1>4. m1 = OpenBlock(m)
    OBVIOUS
  <1>5. m2 = WriteLen(m1, b, cells)
    BY DEF InitPacket
  <1> HIDE DEF m1, cells, s, k
  <1>6. b \in Blocks /\ m.io[b].count = 0
    <2>1. MemOK(m, own, data) /\ Spare(m, own) > 0 /\ b = NewBlock(m)
      BY <1>2 DEF s
    <2>2. /\ b \in Blocks /\ m.io[b].count = 0
          /\ \E own2 :
                /\ MemOK(m1, own2, DataSet(data, b, <<>>)) /\ m1.io = [m.io EXCEPT ![b] = IOFirst(b)]
                /\ (\A x \in Blocks \ {b} : own2[x] = own[x]) /\ Len(own2[b]) = 1
                /\ Spare(m1, own2) = Spare(m, own) - 1
      BY ONLY <2>1, <1>4, OpenIs
    <2> QED
      BY <2>2
  <1>7. PICK own1 :
            /\ MemOK(m1, own1, DataSet(data, b, <<>>)) /\ m1.io = [m.io EXCEPT ![b] = IOFirst(b)]
            /\ (\A x \in Blocks \ {b} : own1[x] = own[x]) /\ Len(own1[b]) = 1
            /\ Spare(m1, own1) = Spare(m, own) - 1
    BY <1>2, <1>4, OpenIs DEF s
  <1>8. m1.io[b] = IOFirst(b) /\ \A x \in Blocks \ {b} : m1.io[x] = m.io[x]
    BY <1>3, <1>6, <1>7
  <1>9. m1.io[b].count = 1 /\ m1.io[b].mine = 1 /\ m1.io[b].ptr = 0 /\ m1.io[b].size = 0
    BY <1>8 DEF IOFirst
  <1>10. Opened(m, own, m1, own1, b)
    <2>1. s - 1 + 1 = s
      BY <1>2
    <2> QED
      BY <1>7, <1>8, <1>9, <2>1 DEF Opened, s
  <1> DEFINE data1 == DataSet(data, b, <<>>)
  <1>11. data1[b] = <<>> /\ \A d : DataSet(data1, b, d) = DataSet(data, b, d)
    <2> DEFINE e == <<>>
    <2>1. data1 = DataSet(data, b, e)
      OBVIOUS
    <2> HIDE DEF data1, e
    <2>2. data1[b] = e
      BY ONLY <1>3, <1>6, <2>1 DEF DataSet
    <2>3. \A d : DataSet(data1, b, d) = DataSet(data, b, d)
      BY <1>3, <1>6, <2>1, DataTwice
    <2> QED
      BY <2>2, <2>3 DEF e
  <1>12. Enough(m1, own1, b, 0 + 3 - 1)
    <2>1. Len(own1[b]) + Spare(m1, own1) = s
      <3>1. Len(own1[b]) = 1 /\ Spare(m1, own1) = s - 1
        BY <1>7 DEF s
      <3> QED
        BY <1>2, <3>1
    <2>2. 0 + 3 - 1 = HeadSize - 1
      BY <1>1
    <2> QED
      BY <1>2, <2>1, <2>2 DEF Enough, k
  <1> HIDE DEF data1
  <1>13. PICK own2 :
            /\ MemOK(m2, own2, DataSet(data1, b, Written(data1[b], 0, cells, 3)))
            /\ Only(m1, own1, m2, own2, b)
            /\ m2.io[b].ptr = 0 + 3 /\ m2.io[b].size = (IF 0 + 3 > m1.io[b].size THEN 0 + 3 ELSE m1.io[b].size)
    <2> DEFINE n == 3
               at == 0
    <2>1. n = Len(cells) /\ at = m1.io[b].ptr /\ cells \in Seq(Nat) /\ m1.io[b].count > 0
          /\ Enough(m1, own1, b, at + n - 1) /\ MemOK(m1, own1, data1) /\ m2 = WriteLen(m1, b, cells) /\ b \in Blocks
      BY <1>1, <1>5, <1>6, <1>7, <1>9, <1>12 DEF data1
    <2> HIDE DEF n, at
    <2>2. \E own2 :
            /\ MemOK(m2, own2, DataSet(data1, b, Written(data1[b], at, cells, n)))
            /\ Only(m1, own1, m2, own2, b)
            /\ m2.io[b].ptr = at + n /\ m2.io[b].size = (IF at + n > m1.io[b].size THEN at + n ELSE m1.io[b].size)
      BY ONLY <2>1, WriteLenIs
    <2> QED
      BY <2>2 DEF n, at
  <1>14. Written(data1[b], 0, cells, 3) = cells
    <2> DEFINE e == <<>>
    <2>1. e \in Seq(Nat) /\ Len(e) = 0 /\ 3 >= Len(e) /\ data1[b] = e
      BY <1>11 DEF data1
    <2> HIDE DEF e
    <2>2. Written(e, 0, cells, 3) = cells
      BY <1>1, <2>1, WrittenAll
    <2> QED
      BY <2>1, <2>2
  <1>15. MemOK(m2, own2, DataSet(data, b, cells))
    BY <1>11, <1>13, <1>14 DEF data1
  <1>16. m2.io[b].ptr = HeadSize /\ m2.io[b].size = HeadSize
    BY <1>1, <1>9, <1>13
  <1>17. Opened(m, own, m2, own2, b)
    BY <1>10, <1>13, OpenedOnly
  <1> QED
    BY <1>6, <1>15, <1>16, <1>17 DEF cells

\* rbtP_parse: all of the frame is written, from its head on.
LEMMA ParseIs ==
    ASSUME NEW m, NEW own, NEW data, MemOK(m, own, data), NEW cells \in Seq(Nat), NEW n, n = Len(cells),
           n >= HeadSize, K(n - 1) < Spare(m, own), NEW b, b = NewBlock(m),
           NEW m2, m2 = SeekCell(WriteLen(SeekCell(InitPacket(m), b, 0), b, cells), b, HeadSize)
    PROVE /\ b \in Blocks /\ m.io[b].count = 0
          /\ \E own2 :
                /\ MemOK(m2, own2, DataSet(data, b, cells)) /\ Opened(m, own, m2, own2, b)
                /\ m2.io[b].ptr = HeadSize /\ m2.io[b].size = n
  <1> DEFINE head == <<HeadSize, Plain, 0>>
             m1 == InitPacket(m)
             m3 == SeekCell(m1, b, 0)
             m4 == WriteLen(m3, b, cells)
             data1 == DataSet(data, b, head)
             s == Spare(m, own)
  <1>0. HeadSize = 3 /\ n \in Nat /\ n >= 3 /\ head \in Seq(Nat) /\ Len(head) = 3 /\ n - 1 \in Nat
        /\ HeadSize - 1 \in Nat
    <2>1. n \in Nat /\ HeadSize = 3 /\ n >= HeadSize
      BY DEF HeadSize
    <2> QED
      BY <2>1 DEF Plain
  <1>1. s \in Nat /\ K(HeadSize - 1) < s
    <2> DEFINE x == K(HeadSize - 1)
               y == K(n - 1)
    <2>1. x \in Nat /\ y \in Nat /\ x <= y /\ y < s /\ s \in Nat
      <3>1. HeadSize - 1 <= n - 1
        BY <1>0
      <3>2. s \in Nat
        BY SpareIs
      <3> QED
        BY <1>0, <3>1, <3>2, Spots
    <2> HIDE DEF x, y, s
    <2>2. x < s
      BY ONLY <2>1
    <2> QED
      BY <2>1, <2>2 DEF x
  <1>2. data \in [Blocks -> Seq(Nat)] /\ m1 = InitPacket(m) /\ m3 = SeekCell(m1, b, 0)
        /\ m4 = WriteLen(m3, b, cells) /\ m2 = SeekCell(m4, b, HeadSize)
    BY DEF MemOK
  <1> HIDE DEF m1, m3, m4, head
  <1>3. b \in Blocks /\ m.io[b].count = 0
    <2>1. MemOK(m, own, data) /\ K(HeadSize - 1) < Spare(m, own) /\ b = NewBlock(m)
      BY <1>1 DEF s
    <2>2. b \in Blocks
      BY ONLY <1>2, <2>1, InitIs
    <2>3. m.io[b].count = 0
      BY ONLY <1>2, <2>1, InitIs
    <2> QED
      BY <2>2, <2>3
  <1>4. PICK own1 :
            /\ MemOK(m1, own1, data1) /\ Opened(m, own, m1, own1, b)
            /\ m1.io[b].ptr = HeadSize /\ m1.io[b].size = HeadSize
    <2>1. MemOK(m, own, data) /\ K(HeadSize - 1) < Spare(m, own) /\ b = NewBlock(m) /\ m1 = InitPacket(m)
      BY <1>1, <1>2 DEF s
    <2>2. \E own1 :
            /\ MemOK(m1, own1, DataSet(data, b, <<HeadSize, Plain, 0>>)) /\ Opened(m, own, m1, own1, b)
            /\ m1.io[b].ptr = HeadSize /\ m1.io[b].size = HeadSize
      BY ONLY <2>1, InitIs
    <2> QED
      BY <2>2 DEF head
  <1> HIDE DEF s, data1
  <1>5. m1.io[b].count > 0
    BY <1>4 DEF Opened
  <1>6. /\ MemOK(m3, own1, data1) /\ Only(m1, own1, m3, own1, b) /\ m3.io[b].count > 0
        /\ m3.io[b].ptr = 0 /\ m3.io[b].size = HeadSize
    <2>1. /\ MemOK(m3, own1, data1) /\ Only(m1, own1, m3, own1, b) /\ m3.io[b].count > 0
          /\ m3.io[b].ptr = (IF 0 > m1.io[b].size THEN m1.io[b].ptr ELSE 0) /\ m3.io[b].size = m1.io[b].size
      BY <1>2, <1>3, <1>4, <1>5, SeekIs
    <2> QED
      BY <1>0, <1>4, <2>1
  <1>7. Opened(m, own, m3, own1, b)
    BY <1>4, <1>6, OpenedOnly
  <1>8. Enough(m3, own1, b, 0 + n - 1) /\ 0 + n - 1 = n - 1 /\ 0 + n = n
    <2>1. 0 + n - 1 = n - 1 /\ 0 + n = n
      BY <1>0
    <2>2. Spare(m3, own1) + Len(own1[b]) = s
      BY <1>7 DEF Opened, s
    <2>3. Spare(m3, own1) \in Nat /\ Len(own1[b]) \in Nat
      BY <1>3, <1>6, SpareIs, LiveIs
    <2>4. Len(own1[b]) + Spare(m3, own1) = s
      BY <2>2, <2>3
    <2> QED
      BY <2>1, <2>4 DEF Enough, s
  <1>9. PICK own2 :
            /\ MemOK(m4, own2, DataSet(data1, b, Written(data1[b], 0, cells, n)))
            /\ Only(m3, own1, m4, own2, b)
            /\ m4.io[b].ptr = 0 + n /\ m4.io[b].size = (IF 0 + n > m3.io[b].size THEN 0 + n ELSE m3.io[b].size)
    <2> DEFINE at == 0
    <2>1. n = Len(cells) /\ at = m3.io[b].ptr /\ cells \in Seq(Nat) /\ m3.io[b].count > 0
          /\ Enough(m3, own1, b, at + n - 1) /\ MemOK(m3, own1, data1) /\ m4 = WriteLen(m3, b, cells) /\ b \in Blocks
      BY <1>2, <1>3, <1>6, <1>8
    <2> HIDE DEF at
    <2>2. \E own2 :
            /\ MemOK(m4, own2, DataSet(data1, b, Written(data1[b], at, cells, n)))
            /\ Only(m3, own1, m4, own2, b)
            /\ m4.io[b].ptr = at + n /\ m4.io[b].size = (IF at + n > m3.io[b].size THEN at + n ELSE m3.io[b].size)
      BY ONLY <2>1, WriteLenIs
    <2> QED
      BY <2>2 DEF at
  <1>10. data1[b] = head /\ \A d : DataSet(data1, b, d) = DataSet(data, b, d)
    <2>1. data1 = DataSet(data, b, head)
      BY DEF data1
    <2>2. data1[b] = head
      BY ONLY <1>2, <1>3, <2>1 DEF DataSet
    <2>3. \A d : DataSet(data1, b, d) = DataSet(data, b, d)
      BY <1>2, <1>3, <2>1, DataTwice
    <2> QED
      BY <2>2, <2>3
  <1>11. Written(head, 0, cells, n) = cells
    BY <1>0, WrittenAll
  <1>12. MemOK(m4, own2, DataSet(data, b, cells)) /\ m4.io[b].size = n /\ m4.io[b].count > 0
    <2>1. m4.io[b].size = n
      BY <1>0, <1>6, <1>8, <1>9
    <2>2. m4.io[b].count > 0
      BY <1>6, <1>9 DEF Only
    <2> QED
      BY <1>9, <1>10, <1>11, <2>1, <2>2
  <1>13. Opened(m, own, m4, own2, b)
    BY <1>7, <1>9, OpenedOnly
  <1> DEFINE data2 == DataSet(data, b, cells)
  <1> HIDE DEF data2
  <1>14. /\ MemOK(m2, own2, data2) /\ Only(m4, own2, m2, own2, b)
         /\ m2.io[b].ptr = (IF HeadSize > m4.io[b].size THEN m4.io[b].ptr ELSE HeadSize) /\ m2.io[b].size = m4.io[b].size
    <2>1. MemOK(m4, own2, data2) /\ b \in Blocks /\ m4.io[b].count > 0 /\ m2 = SeekCell(m4, b, HeadSize) /\ HeadSize \in Nat
      BY <1>0, <1>2, <1>3, <1>12 DEF data2
    <2> QED
      BY ONLY <2>1, SeekIs
  <1>15. m2.io[b].ptr = HeadSize /\ m2.io[b].size = n
    BY <1>0, <1>12, <1>14
  <1>16. Opened(m, own, m2, own2, b)
    BY <1>13, <1>14, OpenedOnly
  <1> QED
    BY <1>3, <1>14, <1>15, <1>16 DEF data2
-----------------------------------------------------------------------------
(* The state of the packets and of the queue. *)
FlatPacket == [data : Seq(Nat), at : Nat, untold : Nat]
Node == [pkt : Blocks, left : Nat, done : Nat, seq : Nat]
Bytes(fl) == [p \in Blocks |-> fl[p].data]
Times(q, p) == {j \in 1 .. Len(q) : q[j].pkt = p}

PacketsOK(m, fl) ==
    \A p \in Blocks : m.io[p].count > 0 =>
        /\ m.io[p].ptr = fl[p].at /\ HeadSize <= Len(fl[p].data) /\ Body(fl[p].data)
        /\ fl[p].data[1] + fl[p].untold = Len(fl[p].data)

\* A packet is held by the program and by each node of the queue.
RefsOK(m, q) == \A p \in Blocks : m.io[p].count = m.io[p].mine + Cardinality(Times(q, p))
\* What is left of a packet in the queue is in its blocks, even if it was made shorter.
QueueOK(own, q) ==
    \A j \in 1 .. Len(q) :
        /\ q[j].left > 0 /\ K(q[j].done + q[j].left - 1) < Len(own[q[j].pkt])
        /\ j > 1 => q[j].done = 0
Core(m, own, fl, q) ==
    /\ fl \in [Blocks -> FlatPacket] /\ q \in Seq(Node) /\ MemOK(m, own, Bytes(fl))
    /\ PacketsOK(m, fl) /\ RefsOK(m, q) /\ QueueOK(own, q)

\* The memory holds the packets of the queue.
Kept(m, fl, q) == \E own : Core(m, own, fl, q)
\* The packets in the queue are as they were; all packets have the same bytes; a packet is not in the queue.
SameFlats(fl, fl2, q) == \A j \in 1 .. Len(q) : fl2[q[j].pkt] = fl[q[j].pkt]
SameBytes(fl, fl2) == \A x \in Blocks : fl2[x].data = fl[x].data
NotQueued(q, p) == \A j \in 1 .. Len(q) : q[j].pkt # p

LEMMA BytesIs ==
    ASSUME NEW fl \in [Blocks -> FlatPacket]
    PROVE Bytes(fl) \in [Blocks -> Seq(Nat)] /\ \A p \in Blocks : Bytes(fl)[p] = fl[p].data
  BY DEF Bytes, FlatPacket

LEMMA FlatPacketIs ==
    ASSUME NEW f \in FlatPacket
    PROVE /\ f = [data |-> f.data, at |-> f.at, untold |-> f.untold]
          /\ f.data \in Seq(Nat) /\ f.at \in Nat /\ f.untold \in Nat
  BY DEF FlatPacket

LEMMA FlatPacketOf ==
    ASSUME NEW d \in Seq(Nat), NEW at \in Nat, NEW untold \in Nat
    PROVE [data |-> d, at |-> at, untold |-> untold] \in FlatPacket
  BY DEF FlatPacket

LEMMA NodeIs ==
    ASSUME NEW x \in Node
    PROVE x.pkt \in Blocks /\ x.left \in Nat /\ x.done \in Nat /\ x.seq \in Nat
  BY DEF Node

\* What a walk along the free list meets.
LEMMA FreeIs ==
    ASSUME NEW m, NEW own, Chains(m, own)
    PROVE /\ \A i \in 0 .. NumBlocks : Behind(m, m.free)[i] = IF i < Len(own[0]) THEN own[0][i + 1] ELSE 0
          /\ Cardinality(ListOf(m, m.free)) = Len(own[0])
  <1>1. 0 \in Owners
    BY Sizes DEF Owners
  <1> DEFINE q == own[0]
             b == m.free
  <1>2. q \in Seq(Blocks) /\ IsInjective(q) /\ Threaded(q, b, m.next)
    BY <1>1, OwnIs DEF Chains, Linked
  <1> HIDE DEF q, b
  <1>3. \A i \in 0 .. NumBlocks : Behind(m, b)[i] = IF i < Len(q) THEN q[i + 1] ELSE 0
    BY <1>2, BehindIs
  <1>4. Cardinality(ListOf(m, b)) = Len(q)
    BY <1>2, BehindIs
  <1> QED
    BY <1>3, <1>4 DEF q, b

\* What a walk along the blocks of a packet meets.
LEMMA OwnedIs ==
    ASSUME NEW m, NEW own, Chains(m, own), NEW p \in Blocks, m.io[p].count > 0
    PROVE /\ \A i \in 0 .. NumBlocks : Behind(m, p)[i] = IF i < Len(own[p]) THEN own[p][i + 1] ELSE 0
          /\ Cardinality(ListOf(m, p)) = Len(own[p])
  <1>1. p \in Owners
    BY Sizes DEF Owners, Blocks
  <1> DEFINE q == own[p]
  <1>2. q \in Seq(Blocks) /\ IsInjective(q) /\ Threaded(q, p, m.next)
    BY <1>1, OwnIs DEF Chains, Linked
  <1> HIDE DEF q
  <1>3. \A i \in 0 .. NumBlocks : Behind(m, p)[i] = IF i < Len(q) THEN q[i + 1] ELSE 0
    BY <1>2, BehindIs
  <1>4. Cardinality(ListOf(m, p)) = Len(q)
    BY <1>2, BehindIs
  <1> QED
    BY <1>3, <1>4 DEF q

\* There are blocks for n cells.
LEMMA RoomIs ==
    ASSUME NEW own, NEW data, MemOK(mem, own, data), NEW list, NEW c \in Nat, c = Cardinality(list),
           NEW n \in Nat, n > 0, HasBlocks(list, n)
    PROVE K(n - 1) < c + Spare(mem, own)
  <1> DEFINE k == K(n - 1)
             s == Spare(mem, own)
             a == (Taken + n - 1) \div BlockSize
  <1>1. Chains(mem, own) /\ s \in Nat /\ k \in Nat /\ Len(own[0]) = Cardinality(ListOf(mem, mem.free))
    <2>1. Chains(mem, own) /\ s \in Nat
      BY SpareIs DEF MemOK
    <2>2. n - 1 \in Nat
      OBVIOUS
    <2> QED
      BY ONLY <2>1, <2>2, Spots, FreeIs
  <1>2. a = k
    <2>1. Taken + n - 1 = Taken + (n - 1)
      BY Sizes
    <2> QED
      BY ONLY <2>1 DEF K
  <1>3. a + 1 - c <= s
    BY <1>1 DEF HasBlocks, Spare
  <1> HIDE DEF k, s, a
  <1>4. k < c + s
    BY <1>1, <1>2, <1>3
  <1> QED
    BY <1>4 DEF k, s

\* Blocks are neither lost nor shared.
LEMMA OnceIs ==
    ASSUME NEW own, Chains(mem, own)
    PROVE BlocksOnce
  <1> DEFINE First(x) == IF x = 0 THEN mem.free ELSE x
             Here(b) == {x \in (Live \cup {0}) \X (0 .. NumBlocks) : Behind(mem, First(x[1]))[x[2]] = b}
  <1>1. \A x \in Live \cup {0} : x \in Owners /\ \A i \in 0 .. NumBlocks :
            Behind(mem, First(x))[i] = IF i < Len(own[x]) THEN own[x][i + 1] ELSE 0
    <2> TAKE x \in Live \cup {0}
    <2>1. CASE x = 0
      BY <2>1, FreeIs, Sizes DEF Owners
    <2>2. CASE x # 0
      <3>1. x \in Blocks /\ mem.io[x].count > 0 /\ First(x) = x /\ x \in Owners
        BY <2>2, Sizes DEF Live, Blocks, Owners
      <3> QED
        BY <3>1, OwnedIs
    <2> QED
      BY <2>1, <2>2
  <1>2. \A x \in Owners : Len(own[x]) \in 0 .. NumBlocks /\ (Len(own[x]) > 0 => x \in Live \cup {0})
    <2> TAKE x \in Owners
    <2>1. Len(own[x]) \in 0 .. NumBlocks
      BY OwnIs
    <2>2. ASSUME x # 0, Len(own[x]) > 0 PROVE x \in Live
      <3>1. x \in Blocks
        BY <2>2, Sizes DEF Owners, Blocks
      <3>2. own[x] # <<>>
        BY <2>2
      <3> QED
        BY <3>1, <3>2 DEF Chains, Linked, Live
    <2> QED
      BY <2>1, <2>2
  <1> HIDE DEF First
  <1>3. ASSUME NEW b \in 1 .. mem.made PROVE Cardinality(Here(b)) = 1
    <2>1. PICK x \in Owners : \E i \in 1 .. Len(own[x]) : own[x][i] = b
      BY DEF Chains, Covers
    <2>2. PICK i \in 1 .. Len(own[x]) : own[x][i] = b
      BY <2>1
    <2>3. x \in Live \cup {0} /\ i - 1 \in 0 .. NumBlocks /\ i - 1 < Len(own[x]) /\ (i - 1) + 1 = i /\ b # 0
      BY <1>2, Sizes
    <2>4. <<x, i - 1>> \in Here(b)
      BY <1>1, <2>2, <2>3
    <2>5. ASSUME NEW y \in Here(b) PROVE y = <<x, i - 1>>
      <3>1. PICK z \in Live \cup {0}, j \in 0 .. NumBlocks : y = <<z, j>> /\ Behind(mem, First(z))[j] = b
        OBVIOUS
      <3>2. z \in Owners /\ j < Len(own[z]) /\ own[z][j + 1] = b
        BY <1>1, <2>3, <3>1
      <3>3. j + 1 \in 1 .. Len(own[z])
        BY <1>2, <3>2
      <3>4. z = x /\ j + 1 = i
        BY <2>2, <3>2, <3>3 DEF Chains, Apart
      <3> QED
        BY <3>1, <3>4
    <2>6. Here(b) = {<<x, i - 1>>}
      BY <2>4, <2>5
    <2> QED
      BY <2>6, FS_Singleton
  <1> QED
    BY <1>3 DEF BlocksOnce, First

\* What the packets hold.
LEMMA SequenceIs ==
    ASSUME NEW own, NEW q, Core(mem, own, flat, q)
    PROVE AsSequence
  <1> SUFFICES ASSUME NEW p \in Live
               PROVE /\ Contents(mem, p) = flat[p].data
                     /\ mem.io[p].ptr = flat[p].at
                     /\ \/ /\ mem.io[p].block = Spot(mem, p, flat[p].at).block
                           /\ mem.io[p].pos = Spot(mem, p, flat[p].at).pos
                        \/ /\ mem.io[p].block = SeekSpot(mem, p, flat[p].at).block
                           /\ mem.io[p].pos = SeekSpot(mem, p, flat[p].at).pos
                     /\ FlatEncode(FlatEncode(flat[p].data)) = flat[p].data
    BY DEF AsSequence
  <1> DEFINE data == Bytes(flat)
             io == mem.io[p]
             d == flat[p].data
  <1>1. p \in Blocks /\ mem.io[p].count > 0 /\ MemOK(mem, own, data) /\ data[p] = d
    BY BytesIs DEF Live, Core
  <1>2. io.ptr = flat[p].at /\ Body(d)
    BY <1>1 DEF Core, PacketsOK
  <1> HIDE DEF data
  <1>3. /\ Chains(mem, own) /\ io \in IORecord /\ data[p] \in Seq(Nat) /\ Threaded(own[p], p, mem.next)
        /\ PacketOK(mem.cell, own[p], io, data[p])
    BY <1>1, LiveIs
  <1>4. io.ptr \in Nat /\ io.size \in Nat
    BY <1>3, IORecordIs
  <1>5. Contents(mem, p) = d
    <2>1. \A i \in 1 .. io.size : CellAt(mem, p, i - 1) = d[i]
      <3> TAKE i \in 1 .. io.size
      <3>1. i - 1 \in 0 .. io.size - 1 /\ i - 1 \in Nat /\ (i - 1) + 1 = i
        BY <1>4
      <3> DEFINE k == i - 1
      <3> HIDE DEF k
      <3>2. K(k) < Len(own[p]) /\ mem.cell[own[p][K(k) + 1]][P(k)] = data[p][k + 1]
        BY <1>1, <3>1, HeldIs DEF k
      <3>3. CellAt(mem, p, k) = mem.cell[own[p][K(k) + 1]][P(k)]
        BY <1>1, <1>3, <3>1, <3>2, SpotIs DEF k
      <3> QED
        BY <1>1, <3>1, <3>2, <3>3 DEF k
    <2>2. d \in Seq(Nat) /\ Len(d) = io.size
      BY <1>1, <1>3 DEF PacketOK
    <2>3. d = [i \in 1 .. io.size |-> d[i]]
      BY <2>2
    <2> QED
      BY ONLY <2>1, <2>3 DEF Contents
  <1>6. \/ /\ io.block = Spot(mem, p, io.ptr).block
           /\ io.pos = Spot(mem, p, io.ptr).pos
        \/ /\ io.block = SeekSpot(mem, p, io.ptr).block
           /\ io.pos = SeekSpot(mem, p, io.ptr).pos
    <2>1. OnSpot(io, own[p])
      BY <1>3 DEF PacketOK
    <2> DEFINE at == io.ptr
    <2>2. CASE K(at) < Len(own[p]) /\ io.block = own[p][K(at) + 1] /\ io.pos = P(at)
      <3>1. Spot(mem, p, at) = [block |-> own[p][K(at) + 1], pos |-> P(at)]
        <4> HIDE DEF at
        <4> QED
          BY <1>1, <1>3, <1>4, <2>2, SpotIs DEF at
      <3> QED
        BY <2>2, <3>1
    <2>3. CASE /\ at > 0 /\ K(at - 1) < Len(own[p])
               /\ io.block = own[p][K(at - 1) + 1] /\ io.pos = P(at - 1) + 1
      <3> DEFINE k == at - 1
      <3>1. k \in Nat /\ at # 0
        BY <1>4, <2>3
      <3>2. Spot(mem, p, k) = [block |-> own[p][K(k) + 1], pos |-> P(k)]
        <4> HIDE DEF k
        <4> QED
          BY <1>1, <1>3, <2>3, <3>1, SpotIs DEF k
      <3> QED
        BY <2>3, <3>1, <3>2 DEF SeekSpot
    <2> QED
      BY <2>1, <2>2, <2>3 DEF OnSpot
  <1>7. FlatEncode(FlatEncode(d)) = d
    BY <1>1, <1>2, <1>3, EncodeTwice
  <1> QED
    BY <1>2, <1>5, <1>6, <1>7
FlatSet(fl, p, f) == [fl EXCEPT ![p] = f]
PacketFits(io, f) ==
    /\ io.ptr = f.at /\ HeadSize <= Len(f.data) /\ Body(f.data) /\ f.data[1] + f.untold = Len(f.data)

LEMMA FlatSetIs ==
    ASSUME NEW fl \in [Blocks -> FlatPacket], NEW p \in Blocks, NEW f \in FlatPacket,
           NEW fl2, fl2 = FlatSet(fl, p, f)
    PROVE /\ fl2 \in [Blocks -> FlatPacket] /\ fl2[p] = f /\ \A x \in Blocks \ {p} : fl2[x] = fl[x]
          /\ Bytes(fl2) = DataSet(Bytes(fl), p, f.data)
  BY DEF FlatSet, Bytes, DataSet, FlatPacket

\* Parts of the invariant.
LEMMA CoreIs ==
    ASSUME NEW m, NEW own, NEW fl, NEW q, Core(m, own, fl, q)
    PROVE /\ m \in Memory /\ Chains(m, own) /\ fl \in [Blocks -> FlatPacket] /\ q \in Seq(Node)
          /\ MemOK(m, own, Bytes(fl)) /\ Bytes(fl) \in [Blocks -> Seq(Nat)]
  BY BytesIs DEF Core, MemOK

\* The same for one packet.
LEMMA CorePacket ==
    ASSUME NEW m, NEW own, NEW fl, NEW q, Core(m, own, fl, q), NEW p \in Blocks, m.io[p].count > 0
    PROVE /\ m.io[p] \in IORecord /\ fl[p] \in FlatPacket /\ PacketFits(m.io[p], fl[p])
          /\ Bytes(fl)[p] = fl[p].data /\ Len(fl[p].data) = m.io[p].size /\ m.io[p].ptr <= m.io[p].size
          /\ m.io[p].size \in Nat /\ m.io[p].ptr \in Nat /\ fl[p].data \in Seq(Nat)
  <1>1. Bytes(fl)[p] = fl[p].data /\ fl[p] \in FlatPacket /\ MemOK(m, own, Bytes(fl))
    BY BytesIs DEF Core
  <1>2. PacketFits(m.io[p], fl[p])
    BY DEF Core, PacketsOK, PacketFits
  <1> DEFINE data == Bytes(fl)
  <1>3. MemOK(m, own, data)
    BY <1>1
  <1> HIDE DEF data
  <1>4. m.io[p] \in IORecord /\ PacketOK(m.cell, own[p], m.io[p], data[p])
    BY <1>3, LiveIs
  <1>5. Len(data[p]) = m.io[p].size /\ m.io[p].ptr <= m.io[p].size
    BY <1>4 DEF PacketOK
  <1>6. m.io[p].size \in Nat /\ m.io[p].ptr \in Nat
    BY <1>4, IORecordIs
  <1> QED
    BY <1>1, <1>2, <1>4, <1>5, <1>6, FlatPacketIs DEF data

\* A packet that somebody holds is there.
LEMMA HeldBy ==
    ASSUME NEW m, NEW own, NEW fl, NEW q, Core(m, own, fl, q), NEW p \in Blocks
    PROVE /\ m.io[p].count \in Nat /\ m.io[p].mine \in Nat /\ Cardinality(Times(q, p)) \in Nat
          /\ m.io[p].count = m.io[p].mine + Cardinality(Times(q, p))
          /\ \A j \in 1 .. Len(q) : q[j].pkt = p => m.io[p].count > 0 /\ Cardinality(Times(q, p)) > 0
  <1>1. m.io[p] \in IORecord /\ q \in Seq(Node)
    BY CoreIs, MemoryIs
  <1>2. m.io[p].count \in Nat /\ m.io[p].mine \in Nat
    BY <1>1, IORecordIs
  <1> DEFINE T == Times(q, p)
  <1>3. T \subseteq 1 .. Len(q) /\ IsFiniteSet(1 .. Len(q))
    <2>1. Len(q) \in Nat
      BY <1>1
    <2> QED
      BY <2>1, FS_Interval DEF Times
  <1>4. IsFiniteSet(T) /\ Cardinality(T) \in Nat
    BY <1>3, FS_Subset, FS_CardinalityType
  <1>5. m.io[p].count = m.io[p].mine + Cardinality(T)
    BY DEF Core, RefsOK
  <1>6. ASSUME NEW j \in 1 .. Len(q), q[j].pkt = p PROVE Cardinality(T) > 0
    <2>1. T # {}
      BY <1>6 DEF Times
    <2>2. Cardinality(T) # 0
      BY <1>4, <2>1, FS_EmptySet
    <2> QED
      BY <1>4, <2>2
  <1> HIDE DEF T
  <1>7. Cardinality(T) > 0 => m.io[p].count > 0
    BY <1>2, <1>4, <1>5
  <1> QED
    BY <1>2, <1>4, <1>5, <1>6, <1>7 DEF T

\* Something is done to a packet that the program holds.
LEMMA PacketChanged ==
    ASSUME NEW m, NEW own, NEW fl, NEW q, Core(m, own, fl, q), NEW p \in Blocks, m.io[p].count > 0,
           NEW m2, NEW own2, NEW f \in FlatPacket, MemOK(m2, own2, DataSet(Bytes(fl), p, f.data)),
           Only(m, own, m2, own2, p), PacketFits(m2.io[p], f), NEW fl2, fl2 = FlatSet(fl, p, f)
    PROVE Core(m2, own2, fl2, q)
  <1>1. fl \in [Blocks -> FlatPacket] /\ q \in Seq(Node) /\ MemOK(m, own, Bytes(fl))
    BY CoreIs
  <1>2. /\ fl2 \in [Blocks -> FlatPacket] /\ fl2[p] = f /\ \A x \in Blocks \ {p} : fl2[x] = fl[x]
        /\ Bytes(fl2) = DataSet(Bytes(fl), p, f.data)
    BY <1>1, FlatSetIs
  <1>3. MemOK(m2, own2, Bytes(fl2))
    BY <1>2
  <1>4. PacketsOK(m2, fl2)
    <2>1. PacketsOK(m, fl)
      BY DEF Core
    <2> SUFFICES ASSUME NEW x \in Blocks, m2.io[x].count > 0 PROVE PacketFits(m2.io[x], fl2[x])
      BY DEF PacketsOK, PacketFits
    <2>2. CASE x = p
      BY <1>2, <2>2
    <2>3. CASE x # p
      BY <1>2, <2>1, <2>3 DEF PacketsOK, PacketFits, Only
    <2> QED
      BY <2>2, <2>3
  <1>5. RefsOK(m2, q)
    BY DEF Core, RefsOK, Only
  <1>6. QueueOK(own2, q)
    <2> SUFFICES ASSUME NEW j \in 1 .. Len(q)
                 PROVE /\ q[j].left > 0 /\ K(q[j].done + q[j].left - 1) < Len(own2[q[j].pkt])
                       /\ j > 1 => q[j].done = 0
      BY DEF QueueOK
    <2>1. /\ q[j].left > 0 /\ K(q[j].done + q[j].left - 1) < Len(own[q[j].pkt])
          /\ j > 1 => q[j].done = 0
      BY DEF Core, QueueOK
    <2> DEFINE x == q[j].pkt
               i == q[j].done + q[j].left - 1
               k == K(i)
    <2>2. x \in Blocks /\ i \in Nat
      BY <1>1, <2>1, NodeIs
    <2>3. k \in Nat
      BY <2>2, Spots
    <2>4. Len(own2[x]) \in Nat /\ Len(own[x]) \in Nat
      <3>1. own \in [Owners -> Seq(Blocks)] /\ own2 \in [Owners -> Seq(Blocks)]
        BY <1>1 DEF MemOK, Chains
      <3>2. x \in Owners
        BY <2>2, Sizes DEF Owners, Blocks
      <3> QED
        BY <3>1, <3>2
    <2>5. Len(own2[x]) >= Len(own[x])
      <3>1. CASE x = p
        BY <3>1 DEF Only
      <3>2. CASE x # p
        <4>1. own2[x] = own[x]
          BY <2>2, <3>2 DEF Only
        <4> QED
          BY <2>4, <4>1
      <3> QED
        BY <3>1, <3>2
    <2> HIDE DEF k, x, i
    <2>6. k < Len(own[x])
      BY <2>1 DEF k, x, i
    <2>7. k < Len(own2[x])
      BY <2>3, <2>4, <2>5, <2>6
    <2> QED
      BY <2>1, <2>7 DEF k, x, i
  <1> QED
    BY <1>1, <1>2, <1>3, <1>4, <1>5, <1>6 DEF Core

\* Another packet.
LEMMA PacketMade ==
    ASSUME NEW m, NEW own, NEW fl, NEW q, Core(m, own, fl, q), NEW p \in Blocks, m.io[p].count = 0,
           NEW m2, NEW own2, NEW f \in FlatPacket, MemOK(m2, own2, DataSet(Bytes(fl), p, f.data)),
           Opened(m, own, m2, own2, p), PacketFits(m2.io[p], f), NEW fl2, fl2 = FlatSet(fl, p, f)
    PROVE Core(m2, own2, fl2, q) /\ \A j \in 1 .. Len(q) : q[j].pkt # p
  <1>1. fl \in [Blocks -> FlatPacket] /\ q \in Seq(Node) /\ MemOK(m, own, Bytes(fl))
    BY CoreIs
  <1>2. /\ fl2 \in [Blocks -> FlatPacket] /\ fl2[p] = f /\ \A x \in Blocks \ {p} : fl2[x] = fl[x]
        /\ Bytes(fl2) = DataSet(Bytes(fl), p, f.data)
    BY <1>1, FlatSetIs
  <1>3. MemOK(m2, own2, Bytes(fl2))
    BY <1>2
  <1>4. PacketsOK(m2, fl2)
    <2>1. PacketsOK(m, fl)
      BY DEF Core
    <2> SUFFICES ASSUME NEW x \in Blocks, m2.io[x].count > 0 PROVE PacketFits(m2.io[x], fl2[x])
      BY DEF PacketsOK, PacketFits
    <2>2. CASE x = p
      BY <1>2, <2>2
    <2>3. CASE x # p
      BY <1>2, <2>1, <2>3 DEF PacketsOK, PacketFits, Opened
    <2> QED
      BY <2>2, <2>3
  <1>5. m.io[p].mine = 0 /\ Cardinality(Times(q, p)) = 0 /\ \A j \in 1 .. Len(q) : q[j].pkt # p
    <2>1. /\ m.io[p].count \in Nat /\ m.io[p].mine \in Nat /\ Cardinality(Times(q, p)) \in Nat
          /\ m.io[p].count = m.io[p].mine + Cardinality(Times(q, p))
          /\ \A j \in 1 .. Len(q) : q[j].pkt = p => m.io[p].count > 0 /\ Cardinality(Times(q, p)) > 0
      BY HeldBy
    <2> QED
      BY <2>1
  <1>6. RefsOK(m2, q)
    <2> SUFFICES ASSUME NEW x \in Blocks PROVE m2.io[x].count = m2.io[x].mine + Cardinality(Times(q, x))
      BY DEF RefsOK
    <2>1. CASE x = p
      BY <1>5, <2>1 DEF Opened
    <2>2. CASE x # p
      BY <2>2 DEF Opened, Core, RefsOK
    <2> QED
      BY <2>1, <2>2
  <1>7. QueueOK(own2, q)
    <2>1. \A j \in 1 .. Len(q) : q[j].pkt \in Blocks
      BY <1>1, NodeIs
    <2>2. \A j \in 1 .. Len(q) : own2[q[j].pkt] = own[q[j].pkt]
      BY <1>5, <2>1 DEF Opened
    <2> QED
      BY <2>2 DEF Core, QueueOK
  <1> QED
    BY <1>1, <1>2, <1>3, <1>4, <1>5, <1>6, <1>7 DEF Core
-----------------------------------------------------------------------------
(* The functions on sequences. *)
LEMMA FlatMoved ==
    ASSUME NEW f \in FlatPacket, NEW d, NEW at, NEW w, w = [f EXCEPT !.data = d, !.at = at]
    PROVE w = [data |-> d, at |-> at, untold |-> f.untold]
  <1> DEFINE r1 == [f EXCEPT !.data = d]
             r2 == [r1 EXCEPT !.at = at]
  <1>1. w = r2
    OBVIOUS
  <1>2. r1 = [data |-> d, at |-> f.at, untold |-> f.untold]
    BY FlatPacketIs
  <1> HIDE DEF r1
  <1>3. r2 = [data |-> d, at |-> at, untold |-> f.untold]
    BY <1>2
  <1> HIDE DEF r2
  <1> QED
    BY <1>1, <1>3

\* The functions on sequences give such records.
LEMMA FlatWriteIs ==
    ASSUME NEW f \in FlatPacket, NEW cells \in Seq(Nat), NEW w, w = FlatWrite(f, cells)
    PROVE w = [data |-> Written(f.data, f.at, cells, Len(cells)), at |-> f.at + Len(cells), untold |-> f.untold]
  <1> DEFINE d == f.data
             end == f.at + Len(cells)
             new == [i \in 1 .. (IF end > Len(d) THEN end ELSE Len(d)) |->
                        IF i \in f.at + 1 .. end THEN cells[i - f.at] ELSE d[i]]
  <1>1. w = [f EXCEPT !.data = new, !.at = end]
    BY Zenon DEF FlatWrite
  <1>2. new = Written(d, f.at, cells, Len(cells))
    BY DEF Written
  <1> HIDE DEF new, end
  <1>3. w = [data |-> new, at |-> end, untold |-> f.untold]
    BY <1>1, FlatMoved
  <1> QED
    BY <1>2, <1>3 DEF end

LEMMA FlatHeadIs ==
    ASSUME NEW f \in FlatPacket, NEW at, NEW c, NEW w, w = FlatHead(f, at, c)
    PROVE w = [data |-> HeadSet(f.data, at, c), at |-> f.at, untold |-> f.untold]
  <1>1. f = [data |-> f.data, at |-> f.at, untold |-> f.untold]
    BY FlatPacketIs
  <1> QED
    BY <1>1 DEF FlatHead, HeadSet

\* A field of the head is not in the data.
LEMMA HeadSetIs ==
    ASSUME NEW d \in Seq(Nat), NEW at \in Nat, at < HeadSize, HeadSize <= Len(d), NEW c \in Nat,
           NEW e, e = HeadSet(d, at, c)
    PROVE /\ e \in Seq(Nat) /\ Len(e) = Len(d) /\ e[at + 1] = c /\ at + 1 \in 1 .. Len(d)
          /\ \A i \in 1 .. Len(d) : i # at + 1 => e[i] = d[i]
          /\ Body(d) => Body(e)
  <1>1. at + 1 \in 1 .. Len(d) /\ HeadSize = 3 /\ Len(d) \in Nat
    BY DEF HeadSize
  <1>2. e \in Seq(Nat) /\ Len(e) = Len(d) /\ e[at + 1] = c /\ \A i \in 1 .. Len(d) : i # at + 1 => e[i] = d[i]
    BY <1>1 DEF HeadSet
  <1>3. ASSUME Body(d) PROVE Body(e)
    <2> SUFFICES ASSUME NEW i \in HeadSize + 1 .. Len(e) PROVE e[i] \in {0, 1}
      BY DEF Body
    <2>1. i \in 1 .. Len(d) /\ i # at + 1 /\ i \in HeadSize + 1 .. Len(d)
      BY <1>1, <1>2
    <2> QED
      BY <1>2, <1>3, <2>1 DEF Body
  <1> QED
    BY <1>1, <1>2, <1>3

\* The length in the head is the length.
LEMMA FlatToldIs ==
    ASSUME NEW d \in Seq(Nat), HeadSize <= Len(d), Body(d), NEW at \in Nat, NEW untold \in Nat, NEW w,
           w = FlatTold([data |-> d, at |-> at, untold |-> untold])
    PROVE /\ w \in FlatPacket /\ w.data = HeadSet(d, LenPos, Len(d)) /\ w.at = at
          /\ HeadSize <= Len(w.data) /\ Body(w.data) /\ w.data[1] + w.untold = Len(w.data)
  <1> DEFINE f == [data |-> d, at |-> at, untold |-> untold]
             e == HeadSet(d, LenPos, Len(d))
             h == FlatHead(f, LenPos, Len(d))
  <1>1. f \in FlatPacket /\ f.data = d
    BY FlatPacketOf
  <1>2. h = [data |-> e, at |-> at, untold |-> untold]
    BY <1>1, FlatHeadIs
  <1>3. w = [h EXCEPT !.untold = 0]
    BY <1>1 DEF FlatTold
  <1>4. w = [data |-> e, at |-> at, untold |-> 0]
    <2> HIDE DEF h, e
    <2> QED
      BY <1>2, <1>3
  <1>5. LenPos \in Nat /\ LenPos < HeadSize /\ LenPos + 1 = 1
    BY DEF LenPos, HeadSize
  <1>6. e = HeadSet(d, LenPos, Len(d)) /\ Len(d) \in Nat
    OBVIOUS
  <1> HIDE DEF e, f, h
  <1>7. e \in Seq(Nat) /\ Len(e) = Len(d) /\ e[1] = Len(d) /\ Body(e)
    <2>1. /\ e \in Seq(Nat) /\ Len(e) = Len(d) /\ e[LenPos + 1] = Len(d) /\ LenPos + 1 \in 1 .. Len(d)
          /\ \A i \in 1 .. Len(d) : i # LenPos + 1 => e[i] = d[i]
          /\ Body(d) => Body(e)
      BY <1>5, <1>6, HeadSetIs
    <2> QED
      BY <1>5, <2>1
  <1>8. w \in FlatPacket
    BY <1>4, <1>7, FlatPacketOf
  <1>9. w.data = e /\ w.at = at /\ w.untold = 0
    BY <1>4
  <1>10. w.data[1] + w.untold = Len(w.data)
    BY <1>6, <1>7, <1>9
  <1> QED
    BY <1>7, <1>8, <1>9, <1>10 DEF e

\* Bytes behind the head.
LEMMA WrittenBody ==
    ASSUME NEW d \in Seq(Nat), HeadSize <= Len(d), Body(d), NEW at \in 0 .. Len(d), HeadSize <= at,
           NEW cells \in Seq({0, 1}), NEW w, w = Written(d, at, cells, Len(cells))
    PROVE w \in Seq(Nat) /\ Body(w) /\ Len(d) <= Len(w) /\ Len(w) \in Nat /\ w[1] = d[1] /\ HeadSize <= Len(w)
          /\ Len(w) = (IF at + Len(cells) > Len(d) THEN at + Len(cells) ELSE Len(d))
  <1> DEFINE n == Len(cells)
  <1>1. n \in Nat /\ cells \in Seq(Nat) /\ n \in 0 .. Len(cells) /\ Len(d) \in Nat /\ at \in Nat
        /\ \A i \in 1 .. n : cells[i] \in {0, 1}
    OBVIOUS
  <1>2. HeadSize = 3
    BY DEF HeadSize
  <1> HIDE DEF n
  <1>3. /\ Written(d, at, cells, n) \in Seq(Nat)
        /\ Len(Written(d, at, cells, n)) = IF at + n > Len(d) THEN at + n ELSE Len(d)
        /\ \A j \in 1 .. Len(Written(d, at, cells, n)) :
                Written(d, at, cells, n)[j] = IF j \in at + 1 .. at + n THEN cells[j - at] ELSE d[j]
    <2>1. Written(d, at, cells, n) \in Seq(Nat)
      BY <1>1, WrittenIs
    <2>2. Len(Written(d, at, cells, n)) = IF at + n > Len(d) THEN at + n ELSE Len(d)
      BY <1>1, WrittenIs
    <2>3. \A j \in 1 .. Len(Written(d, at, cells, n)) :
                Written(d, at, cells, n)[j] = IF j \in at + 1 .. at + n THEN cells[j - at] ELSE d[j]
      BY <1>1, WrittenIs
    <2> QED
      BY <2>1, <2>2, <2>3
  <1>4. /\ w \in Seq(Nat) /\ Len(w) = IF at + n > Len(d) THEN at + n ELSE Len(d)
    BY <1>3 DEF n
  <1>5. \A j \in 1 .. Len(w) : w[j] = IF j \in at + 1 .. at + n THEN cells[j - at] ELSE d[j]
    BY <1>3 DEF n
  <1>6. Len(w) \in Nat /\ Len(d) <= Len(w)
    BY <1>1, <1>4
  <1>7. w[1] = d[1]
    <2>1. 1 \in 1 .. Len(w) /\ 1 \notin at + 1 .. at + n
      BY <1>1, <1>2, <1>6
    <2> QED
      BY <1>5, <2>1
  <1>8. Body(w)
    <2> SUFFICES ASSUME NEW i \in HeadSize + 1 .. Len(w) PROVE w[i] \in {0, 1}
      BY DEF Body
    <2>1. i \in 1 .. Len(w) /\ i \in Nat
      BY <1>2, <1>6
    <2>2. CASE i \in at + 1 .. at + n
      <3>1. i - at \in 1 .. n
        BY <1>1, <2>1, <2>2
      <3> QED
        BY <1>1, <1>5, <2>1, <2>2, <3>1
    <2>3. CASE i \notin at + 1 .. at + n
      <3>1. i \in HeadSize + 1 .. Len(d)
        BY <1>1, <1>2, <1>4, <1>6, <2>1, <2>3
      <3> QED
        BY <1>5, <2>1, <2>3, <3>1 DEF Body
    <2> QED
      BY <2>2, <2>3
  <1> QED
    BY <1>2, <1>4, <1>6, <1>7, <1>8 DEF n

LEMMA FlatSeekIs ==
    ASSUME NEW f \in FlatPacket, NEW at \in Nat, NEW w, w = FlatSeek(f, at)
    PROVE w \in FlatPacket /\ w.data = f.data /\ w.untold = f.untold
          /\ w.at = (IF at > Len(f.data) THEN f.at ELSE at)
  <1>1. f = [data |-> f.data, at |-> f.at, untold |-> f.untold]
        /\ f.data \in Seq(Nat) /\ f.at \in Nat /\ f.untold \in Nat
    BY FlatPacketIs
  <1>2. w = [data |-> f.data, at |-> (IF at > Len(f.data) THEN f.at ELSE at), untold |-> f.untold]
    BY <1>1 DEF FlatSeek
  <1>3. (IF at > Len(f.data) THEN f.at ELSE at) \in Nat
    BY <1>1
  <1> QED
    BY <1>1, <1>2, <1>3, FlatPacketOf

LEMMA FlatEraseIs ==
    ASSUME NEW f \in FlatPacket, NEW n \in Nat, NEW s, s = Len(f.data) - n, s > 0, NEW w, w = FlatErase(f, n)
    PROVE w = [data |-> SubSeq(f.data, 1, s), at |-> (IF f.at > s THEN s ELSE f.at), untold |-> f.untold]
  <1>1. f = [data |-> f.data, at |-> f.at, untold |-> f.untold]
        /\ f.data \in Seq(Nat) /\ f.at \in Nat /\ f.untold \in Nat
    BY FlatPacketIs
  <1> DEFINE size == IF Len(f.data) > n THEN Len(f.data) - n ELSE 0
             at == IF f.at > size THEN size ELSE f.at
             d == SubSeq(f.data, 1, size)
  <1>2. size = s
    BY <1>1
  <1>3. w = [f EXCEPT !.data = d, !.at = at]
    BY Zenon DEF FlatErase
  <1> HIDE DEF d, at
  <1>4. w = [data |-> d, at |-> at, untold |-> f.untold]
    BY <1>3, FlatMoved
  <1> QED
    BY <1>2, <1>4 DEF d, at

\* The data is cut off.
LEMMA ShorterIs ==
    ASSUME NEW d \in Seq(Nat), Body(d), NEW s \in 0 .. Len(d), NEW e, e = SubSeq(d, 1, s)
    PROVE e \in Seq(Nat) /\ Len(e) = s /\ Body(e)
  <1>1. e \in Seq(Nat) /\ Len(e) = s /\ \A i \in 1 .. s : e[i] = d[i]
    OBVIOUS
  <1> QED
    BY <1>1 DEF Body, HeadSize
-----------------------------------------------------------------------------
(* The calls of the program. *)
\* Bytes are written, and the length in the head is not told yet.
LEMMA WriteStep ==
    ASSUME NEW m, NEW own, NEW fl, NEW q, Core(m, own, fl, q), NEW p \in Blocks, m.io[p].count > 0,
           NEW cells \in Seq({0, 1}), NEW n, n = Len(cells), n > 0, HeadSize <= m.io[p].ptr,
           Enough(m, own, p, m.io[p].ptr + n - 1), NEW m1, m1 = WriteLen(m, p, cells),
           NEW d, d = Written(fl[p].data, fl[p].at, cells, n)
    PROVE /\ FlatWrite(fl[p], cells) = [data |-> d, at |-> fl[p].at + n, untold |-> fl[p].untold]
          /\ d \in Seq(Nat) /\ Body(d) /\ HeadSize <= Len(d) /\ fl[p].at + n \in Nat /\ fl[p].untold \in Nat
          /\ Len(d) \in Nat /\ d[1] \in Nat /\ d[1] <= Len(d)
          /\ \E own2 : /\ MemOK(m1, own2, DataSet(Bytes(fl), p, d)) /\ Only(m, own, m1, own2, p)
                       /\ m1.io[p].ptr = fl[p].at + n /\ m1.io[p].size = Len(d)
  <1> DEFINE f == fl[p]
             e == f.data
             at == f.at
             data == Bytes(fl)
  <1>1. /\ f \in FlatPacket /\ PacketFits(m.io[p], f) /\ data[p] = e /\ Len(e) = m.io[p].size
        /\ m.io[p].ptr <= m.io[p].size
        /\ m.io[p].size \in Nat /\ m.io[p].ptr \in Nat /\ e \in Seq(Nat) /\ MemOK(m, own, data)
    BY CorePacket, CoreIs
  <1>2. /\ e \in Seq(Nat) /\ at \in Nat /\ f.untold \in Nat /\ m.io[p].ptr = at /\ HeadSize <= Len(e) /\ Body(e)
        /\ e[1] + f.untold = Len(e)
    BY <1>1, FlatPacketIs DEF PacketFits
  <1>3. n \in Nat /\ cells \in Seq(Nat) /\ at \in 0 .. Len(e) /\ HeadSize <= at
    BY <1>1, <1>2
  <1> HIDE DEF f, e, at, data
  <1>4. d = Written(e, at, cells, Len(cells))
    BY DEF e, f, at
  <1>5. d \in Seq(Nat) /\ Body(d) /\ Len(e) <= Len(d) /\ Len(d) \in Nat /\ d[1] = e[1] /\ HeadSize <= Len(d)
          /\ Len(d) = (IF at + Len(cells) > Len(e) THEN at + Len(cells) ELSE Len(e))
    BY ONLY <1>2, <1>3, <1>4, WrittenBody, cells \in Seq({0, 1})
  <1>6. FlatWrite(f, cells) = [data |-> d, at |-> at + n, untold |-> f.untold]
    <2> DEFINE w == FlatWrite(f, cells)
    <2>1. w = [data |-> Written(f.data, f.at, cells, Len(cells)), at |-> f.at + Len(cells), untold |-> f.untold]
      BY <1>1, <1>3, FlatWriteIs
    <2> QED
      BY <1>4, <2>1 DEF e, at
  <1>7. d[1] \in Nat /\ d[1] <= Len(d)
    <2>1. 1 \in 1 .. Len(e)
      BY <1>2 DEF HeadSize
    <2>2. e[1] \in Nat /\ Len(e) \in Nat
      BY <1>2, <2>1
    <2> QED
      BY <1>2, <1>5, <2>2
  <1>8. at + n \in Nat
    BY <1>2, <1>3
  <1>9. \E own2 : /\ MemOK(m1, own2, DataSet(data, p, d)) /\ Only(m, own, m1, own2, p)
                  /\ m1.io[p].ptr = at + n /\ m1.io[p].size = Len(d)
    <2>1. n > 0 => Enough(m, own, p, at + n - 1)
      BY <1>2
    <2>2. at = m.io[p].ptr /\ d = Written(data[p], at, cells, n) /\ n = Len(cells) /\ MemOK(m, own, data)
          /\ m1 = WriteLen(m, p, cells) /\ p \in Blocks /\ m.io[p].count > 0 /\ cells \in Seq(Nat)
      BY <1>1, <1>2, <1>3, <1>4
    <2>3. \E own2 :
            /\ MemOK(m1, own2, DataSet(data, p, Written(data[p], at, cells, n)))
            /\ Only(m, own, m1, own2, p)
            /\ m1.io[p].ptr = at + n /\ m1.io[p].size = (IF at + n > m.io[p].size THEN at + n ELSE m.io[p].size)
      BY ONLY <2>1, <2>2, WriteLenIs
    <2> QED
      BY <1>1, <1>5, <2>2, <2>3
  <1> QED
    BY <1>2, <1>5, <1>6, <1>7, <1>8, <1>9 DEF f, at, data

\* rbtP_writeInt and the others.
LEMMA WriteCore ==
    ASSUME NEW m, NEW own, NEW fl, NEW q, Core(m, own, fl, q), NEW p \in Blocks, m.io[p].count > 0,
           NEW cells \in Seq({0, 1}), NEW n, n = Len(cells), n > 0, HeadSize <= m.io[p].ptr,
           Enough(m, own, p, m.io[p].ptr + n - 1), NEW m2, m2 = ResetSize(WriteLen(m, p, cells), p),
           NEW fl2, fl2 = FlatSet(fl, p, FlatTold(FlatWrite(fl[p], cells)))
    PROVE Kept(m2, fl2, q)
  <1> SUFFICES \E own2 : Core(m2, own2, fl2, q)
    BY DEF Kept
  <1> DEFINE m1 == WriteLen(m, p, cells)
             d == Written(fl[p].data, fl[p].at, cells, n)
             f == FlatTold(FlatWrite(fl[p], cells))
             data == Bytes(fl)
             data1 == DataSet(data, p, d)
  <1>1. m1 = WriteLen(m, p, cells) /\ d = Written(fl[p].data, fl[p].at, cells, n)
    OBVIOUS
  <1> HIDE DEF m1, d
  <1>2. /\ FlatWrite(fl[p], cells) = [data |-> d, at |-> fl[p].at + n, untold |-> fl[p].untold]
        /\ d \in Seq(Nat) /\ Body(d) /\ HeadSize <= Len(d) /\ fl[p].at + n \in Nat /\ fl[p].untold \in Nat
        /\ Len(d) \in Nat /\ d[1] \in Nat /\ d[1] <= Len(d)
        /\ \E own2 : /\ MemOK(m1, own2, DataSet(Bytes(fl), p, d)) /\ Only(m, own, m1, own2, p)
                     /\ m1.io[p].ptr = fl[p].at + n /\ m1.io[p].size = Len(d)
    BY <1>1, WriteStep
  <1>3. PICK own2 : /\ MemOK(m1, own2, data1) /\ Only(m, own, m1, own2, p)
                    /\ m1.io[p].ptr = fl[p].at + n /\ m1.io[p].size = Len(d)
    BY <1>2
  <1>4. /\ f \in FlatPacket /\ f.data = HeadSet(d, LenPos, Len(d)) /\ f.at = fl[p].at + n
        /\ HeadSize <= Len(f.data) /\ Body(f.data) /\ f.data[1] + f.untold = Len(f.data)
    <2> DEFINE at == fl[p].at + n
               untold == fl[p].untold
    <2> HIDE DEF at, untold
    <2>1. f = FlatTold([data |-> d, at |-> at, untold |-> untold]) /\ at \in Nat /\ untold \in Nat
      BY <1>2 DEF at, untold
    <2> HIDE DEF f
    <2>2. /\ f \in FlatPacket /\ f.data = HeadSet(d, LenPos, Len(d)) /\ f.at = at
          /\ HeadSize <= Len(f.data) /\ Body(f.data) /\ f.data[1] + f.untold = Len(f.data)
      BY ONLY <1>2, <2>1, FlatToldIs
    <2> QED
      BY <2>2 DEF at
  <1>5. data \in [Blocks -> Seq(Nat)] /\ m1.io[p].count > 0 /\ m1.io[p].size > 0
    <2>1. data \in [Blocks -> Seq(Nat)]
      BY CoreIs
    <2>2. m1.io[p].count > 0
      BY <1>3 DEF Only
    <2>3. m1.io[p].size > 0
      BY <1>2, <1>3 DEF HeadSize
    <2> QED
      BY <2>1, <2>2, <2>3
  <1>6. data1[p] = d /\ \A e : DataSet(data1, p, e) = DataSet(data, p, e)
    <2>1. data1 = DataSet(data, p, d)
      OBVIOUS
    <2> HIDE DEF data1, data
    <2>2. data1[p] = d
      BY <1>5, <2>1 DEF DataSet
    <2>3. \A e : DataSet(data1, p, e) = DataSet(data, p, e)
      BY <1>5, <2>1, DataTwice
    <2> QED
      BY <2>2, <2>3
  <1> HIDE DEF data1, data, f
  <1>7. /\ MemOK(m2, own2, DataSet(data1, p, HeadSet(data1[p], LenPos, Len(data1[p])))) /\ Only(m1, own2, m2, own2, p)
        /\ m2.io[p].ptr = m1.io[p].ptr /\ m2.io[p].size = m1.io[p].size /\ m2.io[p].count > 0
    <2>1. MemOK(m1, own2, data1) /\ p \in Blocks /\ m1.io[p].count > 0 /\ m1.io[p].size > 0 /\ m2 = ResetSize(m1, p)
      BY <1>3, <1>5 DEF m1
    <2> QED
      BY ONLY <2>1, ResetSizeIs
  <1>8. MemOK(m2, own2, DataSet(data, p, f.data)) /\ PacketFits(m2.io[p], f)
    BY <1>3, <1>4, <1>6, <1>7 DEF PacketFits
  <1>9. Only(m, own, m2, own2, p)
    <2>1. Len(own[p]) \in Nat /\ Len(own2[p]) \in Nat
      <3>1. MemOK(m, own, data)
        BY CoreIs DEF data
      <3>2. Len(own[p]) \in Nat
        BY ONLY <3>1, LiveIs, p \in Blocks, m.io[p].count > 0
      <3>3. Len(own2[p]) \in Nat
        BY ONLY <1>3, <1>5, LiveIs, p \in Blocks
      <3> QED
        BY <3>2, <3>3
    <2> QED
      BY ONLY <1>3, <1>7, <2>1, OnlyTwice
  <1>10. Core(m2, own2, fl2, q)
    <2>1. fl2 = FlatSet(fl, p, f)
      BY DEF f
    <2> QED
      BY <1>4, <1>8, <1>9, <2>1, PacketChanged DEF data
  <1> QED
    BY <1>10

\* What reset_size would have put into the head.
FlatUntold(f) == [f EXCEPT !.untold = Len(f.data) - f.data[LenPos + 1]]

\* rbtP_writeDouble
LEMMA DoubleCore ==
    ASSUME NEW m, NEW own, NEW fl, NEW q, Core(m, own, fl, q), NEW p \in Blocks, m.io[p].count > 0,
           NEW cells \in Seq({0, 1}), NEW n, n = Len(cells), n > 0, HeadSize <= m.io[p].ptr,
           Enough(m, own, p, m.io[p].ptr + n - 1), NEW m2, m2 = WriteLen(m, p, cells),
           NEW fl2, fl2 = FlatSet(fl, p, FlatUntold(FlatWrite(fl[p], cells)))
    PROVE Kept(m2, fl2, q)
  <1> SUFFICES \E own2 : Core(m2, own2, fl2, q)
    BY DEF Kept
  <1> DEFINE m1 == WriteLen(m, p, cells)
             d == Written(fl[p].data, fl[p].at, cells, n)
             f == FlatUntold(FlatWrite(fl[p], cells))
  <1>1. m1 = WriteLen(m, p, cells) /\ d = Written(fl[p].data, fl[p].at, cells, n)
    OBVIOUS
  <1> HIDE DEF m1, d
  <1>2. /\ FlatWrite(fl[p], cells) = [data |-> d, at |-> fl[p].at + n, untold |-> fl[p].untold]
        /\ d \in Seq(Nat) /\ Body(d) /\ HeadSize <= Len(d) /\ fl[p].at + n \in Nat /\ fl[p].untold \in Nat
        /\ Len(d) \in Nat /\ d[1] \in Nat /\ d[1] <= Len(d)
        /\ \E own2 : /\ MemOK(m1, own2, DataSet(Bytes(fl), p, d)) /\ Only(m, own, m1, own2, p)
                     /\ m1.io[p].ptr = fl[p].at + n /\ m1.io[p].size = Len(d)
    BY <1>1, WriteStep
  <1>3. f = [data |-> d, at |-> fl[p].at + n, untold |-> Len(d) - d[1]]
    <2> DEFINE g == FlatWrite(fl[p], cells)
    <2>1. g = [data |-> d, at |-> fl[p].at + n, untold |-> fl[p].untold]
      BY <1>2
    <2> HIDE DEF g
    <2>2. f = [g EXCEPT !.untold = Len(g.data) - g.data[1]]
      BY DEF FlatUntold, LenPos, g
    <2> QED
      BY <2>1, <2>2
  <1>4. Len(d) - d[1] \in Nat /\ d[1] + (Len(d) - d[1]) = Len(d)
    <2> DEFINE x == d[1]
               y == Len(d)
    <2>1. x \in Nat /\ y \in Nat /\ x <= y
      BY <1>2
    <2> HIDE DEF x, y
    <2>2. y - x \in Nat /\ x + (y - x) = y
      BY <2>1
    <2> QED
      BY <2>2 DEF x, y
  <1> HIDE DEF f
  <1>5. f \in FlatPacket /\ f.data = d /\ f.at = fl[p].at + n /\ f.data[1] + f.untold = Len(f.data)
    <2>1. f \in FlatPacket
      BY <1>2, <1>3, <1>4, FlatPacketOf
    <2>2. f.data = d /\ f.at = fl[p].at + n /\ f.untold = Len(d) - d[1]
      BY <1>3
    <2> QED
      BY <1>4, <2>1, <2>2
  <1>6. PICK own2 : /\ MemOK(m2, own2, DataSet(Bytes(fl), p, d)) /\ Only(m, own, m2, own2, p)
                    /\ m2.io[p].ptr = fl[p].at + n /\ m2.io[p].size = Len(d)
    BY <1>2 DEF m1
  <1>7. PacketFits(m2.io[p], f)
    BY <1>2, <1>5, <1>6 DEF PacketFits
  <1>8. fl2 = FlatSet(fl, p, f)
    BY DEF f
  <1>9. Core(m2, own2, fl2, q)
    BY <1>5, <1>6, <1>7, <1>8, PacketChanged
  <1> QED
    BY <1>9

\* The cursor is moved.
LEMMA MovedCore ==
    ASSUME NEW m, NEW own, NEW fl, NEW q, Core(m, own, fl, q), NEW p \in Blocks, m.io[p].count > 0,
           NEW m2, MemOK(m2, own, Bytes(fl)), Only(m, own, m2, own, p),
           NEW f \in FlatPacket, f.data = fl[p].data, f.untold = fl[p].untold, m2.io[p].ptr = f.at,
           NEW fl2, fl2 = FlatSet(fl, p, f)
    PROVE Core(m2, own, fl2, q)
  <1> DEFINE data == Bytes(fl)
  <1>1. data \in [Blocks -> Seq(Nat)] /\ data[p] = f.data /\ PacketFits(m2.io[p], f)
    BY CoreIs, CorePacket DEF PacketFits
  <1>2. MemOK(m2, own, data)
    OBVIOUS
  <1> HIDE DEF data
  <1>3. DataSet(data, p, f.data) = data
    <2>1. DataSet(data, p, data[p]) = data
      BY <1>1, DataSame
    <2> QED
      BY <1>1, <2>1
  <1>4. MemOK(m2, own, DataSet(data, p, f.data))
    BY <1>2, <1>3
  <1> QED
    BY <1>1, <1>4, PacketChanged DEF data

\* rbtP_readInt and the others.
LEMMA ReadCore ==
    ASSUME NEW m, NEW own, NEW fl, NEW q, Core(m, own, fl, q), NEW p \in Blocks, m.io[p].count > 0,
           NEW m2, m2 = ReadCell(m, p), NEW fl2, fl2 = FlatSet(fl, p, FlatSeek(fl[p], fl[p].at + 1))
    PROVE Core(m2, own, fl2, q) /\ SameBytes(fl, fl2)
  <1> SUFFICES Core(m2, own, fl2, q) /\ fl2[p].data = fl[p].data /\ \A x \in Blocks \ {p} : fl2[x] = fl[x]
    BY DEF SameBytes
  <1> DEFINE at == fl[p].at + 1
             f == FlatSeek(fl[p], at)
  <1>1. /\ fl[p] \in FlatPacket /\ PacketFits(m.io[p], fl[p]) /\ Len(fl[p].data) = m.io[p].size
        /\ MemOK(m, own, Bytes(fl)) /\ fl \in [Blocks -> FlatPacket]
    BY CorePacket, CoreIs
  <1>2. at \in Nat /\ m.io[p].ptr = fl[p].at
    BY <1>1, FlatPacketIs DEF PacketFits
  <1>3. f \in FlatPacket /\ f.data = fl[p].data /\ f.untold = fl[p].untold
        /\ f.at = (IF at > Len(fl[p].data) THEN fl[p].at ELSE at)
    <2> HIDE DEF at
    <2> QED
      BY <1>1, <1>2, FlatSeekIs
  <1> HIDE DEF f
  <1>4. /\ MemOK(m2, own, Bytes(fl)) /\ Only(m, own, m2, own, p)
        /\ m2.io[p].ptr = (IF m.io[p].ptr + 1 > m.io[p].size THEN m.io[p].ptr ELSE m.io[p].ptr + 1)
    <2> DEFINE data == Bytes(fl)
    <2>1. MemOK(m, own, data)
      BY <1>1
    <2> HIDE DEF data
    <2>2. /\ MemOK(m2, own, data) /\ Only(m, own, m2, own, p)
          /\ m2.io[p].ptr = (IF m.io[p].ptr + 1 > m.io[p].size THEN m.io[p].ptr ELSE m.io[p].ptr + 1)
      BY <2>1, ReadIs
    <2> QED
      BY <2>2 DEF data
  <1>5. m2.io[p].ptr = f.at /\ fl2 = FlatSet(fl, p, f)
    BY <1>1, <1>2, <1>3, <1>4 DEF f
  <1>6. Core(m2, own, fl2, q)
    BY <1>3, <1>4, <1>5, MovedCore
  <1> QED
    BY <1>1, <1>3, <1>5, <1>6, FlatSetIs

\* rbtP_seek
LEMMA SeekCore ==
    ASSUME NEW m, NEW own, NEW fl, NEW q, Core(m, own, fl, q), NEW p \in Blocks, m.io[p].count > 0,
           NEW at \in Nat, NEW m2, m2 = SeekCell(m, p, at), NEW fl2, fl2 = FlatSet(fl, p, FlatSeek(fl[p], at))
    PROVE Core(m2, own, fl2, q) /\ SameBytes(fl, fl2)
  <1> SUFFICES Core(m2, own, fl2, q) /\ fl2[p].data = fl[p].data /\ \A x \in Blocks \ {p} : fl2[x] = fl[x]
    BY DEF SameBytes
  <1> DEFINE f == FlatSeek(fl[p], at)
             data == Bytes(fl)
  <1>1. /\ fl[p] \in FlatPacket /\ PacketFits(m.io[p], fl[p]) /\ Len(fl[p].data) = m.io[p].size
        /\ MemOK(m, own, data) /\ fl \in [Blocks -> FlatPacket]
    BY CorePacket, CoreIs
  <1>2. m.io[p].ptr = fl[p].at
    BY <1>1 DEF PacketFits
  <1>3. f \in FlatPacket /\ f.data = fl[p].data /\ f.untold = fl[p].untold
        /\ f.at = (IF at > Len(fl[p].data) THEN fl[p].at ELSE at)
    BY <1>1, FlatSeekIs
  <1> HIDE DEF f, data
  <1>4. /\ MemOK(m2, own, data) /\ Only(m, own, m2, own, p) /\ m2.cell = m.cell /\ m2.io[p].count > 0
        /\ m2.io[p].ptr = (IF at > m.io[p].size THEN m.io[p].ptr ELSE at) /\ m2.io[p].size = m.io[p].size
        /\ m2.next = m.next
    BY <1>1, SeekIs
  <1>5. m2.io[p].ptr = f.at /\ fl2 = FlatSet(fl, p, f)
    BY <1>1, <1>2, <1>3, <1>4 DEF f
  <1>6. Core(m2, own, fl2, q)
    BY <1>3, <1>4, <1>5, MovedCore DEF data
  <1> QED
    BY <1>1, <1>3, <1>5, <1>6, FlatSetIs

\* rbtP_erase
LEMMA EraseCore ==
    ASSUME NEW m, NEW own, NEW fl, NEW q, Core(m, own, fl, q), NEW p \in Blocks, m.io[p].count > 0,
           NEW n \in Nat, m.io[p].size - n >= HeadSize, NEW m2, m2 = ResetSize(EraseCells(m, p, n), p),
           NEW fl2, fl2 = FlatSet(fl, p, FlatTold(FlatErase(fl[p], n)))
    PROVE Core(m2, own, fl2, q)
  <1> DEFINE s == m.io[p].size - n
             m1 == EraseCells(m, p, n)
             e == fl[p].data
             d == SubSeq(e, 1, s)
             at == IF fl[p].at > s THEN s ELSE fl[p].at
             g == FlatErase(fl[p], n)
             f == FlatTold(g)
             data == Bytes(fl)
             data1 == DataSet(data, p, d)
  <1>1. /\ fl[p] \in FlatPacket /\ PacketFits(m.io[p], fl[p]) /\ Len(e) = m.io[p].size /\ data[p] = e
        /\ MemOK(m, own, data) /\ data \in [Blocks -> Seq(Nat)] /\ m.io[p].size \in Nat
    BY CorePacket, CoreIs
  <1>2. /\ s \in 0 .. Len(e) /\ s > 0 /\ s >= HeadSize /\ s = Len(e) - n /\ s \in Nat
    BY <1>1 DEF HeadSize
  <1>3. e \in Seq(Nat) /\ Body(e) /\ m.io[p].ptr = fl[p].at /\ fl[p].at \in Nat /\ fl[p].untold \in Nat
    BY <1>1, FlatPacketIs DEF PacketFits
  <1>4. g = [data |-> d, at |-> at, untold |-> fl[p].untold]
    <2> DEFINE x == fl[p]
    <2>1. x \in FlatPacket /\ n \in Nat /\ s = Len(x.data) - n /\ s > 0 /\ g = FlatErase(x, n)
      BY <1>1, <1>2
    <2> HIDE DEF s, g, x
    <2>2. g = [data |-> SubSeq(x.data, 1, s), at |-> (IF x.at > s THEN s ELSE x.at), untold |-> x.untold]
      BY ONLY <2>1, FlatEraseIs
    <2> QED
      BY <2>2 DEF x
  <1>5. d \in Seq(Nat) /\ Len(d) = s /\ Body(d)
    <2> HIDE DEF s, e
    <2> QED
      BY <1>2, <1>3, ShorterIs
  <1>6. s = m.io[p].size - n /\ m1 = EraseCells(m, p, n) /\ m2 = ResetSize(m1, p) /\ at \in Nat
    BY <1>2, <1>3
  <1>7. SubSeq(data[p], 1, s) = d /\ at = (IF m.io[p].ptr > s THEN s ELSE m.io[p].ptr)
    BY <1>1, <1>3
  <1> HIDE DEF s, m1, d, at, g, f, e, data
  <1>8. /\ MemOK(m1, own, data1) /\ Only(m, own, m1, own, p)
        /\ m1.io[p].ptr = at /\ m1.io[p].size = s
        /\ m1.io[p].count > 0
    <2>1. /\ MemOK(m1, own, DataSet(data, p, SubSeq(data[p], 1, s))) /\ Only(m, own, m1, own, p)
          /\ m1.io[p].ptr = (IF m.io[p].ptr > s THEN s ELSE m.io[p].ptr) /\ m1.io[p].size = s
          /\ m1.io[p].count > 0
      <3>1. /\ MemOK(m, own, data) /\ p \in Blocks /\ m.io[p].count > 0 /\ n \in Nat /\ s = m.io[p].size - n
            /\ s > 0 /\ m1 = EraseCells(m, p, n)
        BY <1>1, <1>2, <1>6
      <3> QED
        BY ONLY <3>1, EraseIs
    <2> QED
      BY <1>7, <2>1
  <1>9. data1[p] = d /\ \A x : DataSet(data1, p, x) = DataSet(data, p, x)
    <2>1. data1 = DataSet(data, p, d)
      OBVIOUS
    <2> HIDE DEF data1
    <2>2. data1[p] = d
      BY <1>1, <2>1 DEF DataSet
    <2>3. \A x : DataSet(data1, p, x) = DataSet(data, p, x)
      BY <1>1, <2>1, DataTwice
    <2> QED
      BY <2>2, <2>3
  <1> HIDE DEF data1
  <1>10. /\ MemOK(m2, own, DataSet(data1, p, HeadSet(data1[p], LenPos, Len(data1[p])))) /\ Only(m1, own, m2, own, p)
        /\ m2.io[p].ptr = m1.io[p].ptr /\ m2.io[p].size = m1.io[p].size /\ m2.io[p].count > 0
    <2>1. MemOK(m1, own, data1) /\ p \in Blocks /\ m1.io[p].count > 0 /\ m1.io[p].size > 0 /\ m2 = ResetSize(m1, p)
      BY <1>2, <1>6, <1>8
    <2> QED
      BY ONLY <2>1, ResetSizeIs
  <1>11. /\ f \in FlatPacket /\ f.data = HeadSet(d, LenPos, Len(d)) /\ f.at = at
         /\ HeadSize <= Len(f.data) /\ Body(f.data) /\ f.data[1] + f.untold = Len(f.data)
    <2> DEFINE untold == fl[p].untold
    <2> HIDE DEF untold
    <2>1. f = FlatTold([data |-> d, at |-> at, untold |-> untold]) /\ untold \in Nat /\ HeadSize <= Len(d)
      BY <1>2, <1>3, <1>4, <1>5 DEF f, untold
    <2> QED
      BY ONLY <1>5, <1>6, <2>1, FlatToldIs
  <1>12. MemOK(m2, own, DataSet(data, p, f.data)) /\ PacketFits(m2.io[p], f)
    BY <1>8, <1>9, <1>10, <1>11 DEF PacketFits
  <1>13. Only(m, own, m2, own, p)
    <2>1. Len(own[p]) \in Nat
      BY ONLY <1>1, LiveIs, p \in Blocks, m.io[p].count > 0
    <2> QED
      BY ONLY <1>8, <1>10, <2>1, OnlyTwice
  <1>14. fl2 = FlatSet(fl, p, f)
    BY DEF f, g
  <1> QED
    BY <1>11, <1>12, <1>13, <1>14, PacketChanged DEF data

\* The macros rbtP_encode and rbtP_decode.
LEMMA EncodeCore ==
    ASSUME NEW m, NEW own, NEW fl, NEW q, Core(m, own, fl, q), NEW p \in Blocks, m.io[p].count > 0,
           NEW c \in Nat,
           NEW m2, m2 = SeekCell(EncodeCells(PutHead(m, p, FlagPos, c), p), p, m.io[p].ptr),
           NEW fl2, fl2 = FlatSet(fl, p, [fl[p] EXCEPT !.data = FlatEncode(FlatHead(fl[p], FlagPos, c).data)])
    PROVE Core(m2, own, fl2, q)
  <1> DEFINE m1 == PutHead(m, p, FlagPos, c)
             m3 == EncodeCells(m1, p)
             e == fl[p].data
             d1 == HeadSet(e, FlagPos, c)
             d2 == FlatEncode(d1)
             g == fl[p]
             f == [g EXCEPT !.data = d2]
             data == Bytes(fl)
             data1 == DataSet(data, p, d1)
             data2 == DataSet(data, p, d2)
  <1>1. /\ g \in FlatPacket /\ PacketFits(m.io[p], g) /\ Len(e) = m.io[p].size /\ data[p] = e
        /\ m.io[p].ptr <= m.io[p].size /\ m.io[p].ptr \in Nat
        /\ MemOK(m, own, data) /\ data \in [Blocks -> Seq(Nat)] /\ m.io[p].size \in Nat
    BY CorePacket, CoreIs
  <1>2. /\ e \in Seq(Nat) /\ Body(e) /\ HeadSize <= Len(e) /\ m.io[p].ptr = g.at /\ g.at \in Nat /\ g.untold \in Nat
        /\ g = [data |-> e, at |-> g.at, untold |-> g.untold] /\ e[1] + g.untold = Len(e)
    BY <1>1, FlatPacketIs DEF PacketFits
  <1>3. FlagPos \in Nat /\ FlagPos < HeadSize /\ FlagPos + 1 = 2 /\ FlagPos < m.io[p].size
    BY <1>1, <1>2 DEF FlagPos, HeadSize
  <1>4. FlatHead(g, FlagPos, c).data = d1
    <2> DEFINE h == FlatHead(g, FlagPos, c)
    <2>1. h = [data |-> HeadSet(g.data, FlagPos, c), at |-> g.at, untold |-> g.untold]
      BY <1>1, FlatHeadIs
    <2> HIDE DEF h
    <2>2. h.data = HeadSet(g.data, FlagPos, c)
      BY <2>1
    <2> QED
      BY <2>2 DEF h
  <1>5. fl2 = FlatSet(fl, p, f)
    BY <1>4
  <1>6. m1 = PutHead(m, p, FlagPos, c) /\ m3 = EncodeCells(m1, p) /\ m2 = SeekCell(m3, p, m.io[p].ptr)
        /\ d1 = HeadSet(e, FlagPos, c) /\ d2 = FlatEncode(d1)
    OBVIOUS
  <1>7. f = [g EXCEPT !.data = d2]
    OBVIOUS
  <1> HIDE DEF m1, m3, d1, d2, g, f, e, data
  <1>8. /\ d1 \in Seq(Nat) /\ Len(d1) = Len(e) /\ d1[FlagPos + 1] = c /\ FlagPos + 1 \in 1 .. Len(e)
        /\ \A i \in 1 .. Len(e) : i # FlagPos + 1 => d1[i] = e[i]
        /\ Body(e) => Body(d1)
    <2> DEFINE at == FlagPos
    <2>1. /\ e \in Seq(Nat) /\ at \in Nat /\ at < HeadSize /\ HeadSize <= Len(e) /\ c \in Nat
          /\ d1 = HeadSet(e, at, c)
      BY <1>2, <1>3, <1>6
    <2> HIDE DEF at
    <2>2. /\ d1 \in Seq(Nat) /\ Len(d1) = Len(e) /\ d1[at + 1] = c /\ at + 1 \in 1 .. Len(e)
          /\ \A i \in 1 .. Len(e) : i # at + 1 => d1[i] = e[i]
          /\ Body(e) => Body(d1)
      BY ONLY <2>1, HeadSetIs
    <2> QED
      BY <2>2 DEF at
  <1>9. FlatEncode(FlatEncode(d1)) = d1 /\ Body(FlatEncode(d1))
    BY <1>2, <1>8, EncodeTwice
  <1>10. /\ FlatEncode(d1) \in Seq(Nat) /\ Len(FlatEncode(d1)) = Len(d1)
         /\ \A i \in 1 .. Len(d1) :
               /\ FlatEncode(d1)[i] = IF i <= HeadSize \/ IsKey(d1, i) THEN d1[i] ELSE (d1[i] + KeyAt(d1, i)) % 2
               /\ i > HeadSize => KeyAt(d1, i) \in {0, 1}
    BY <1>8, FlatEncodeIs
  <1>11. d2 \in Seq(Nat) /\ Len(d2) = Len(e) /\ Body(d2) /\ d2[1] = e[1]
    <2>1. 1 \in 1 .. Len(e) /\ 1 # FlagPos + 1 /\ 1 <= HeadSize
      BY <1>2, <1>3 DEF HeadSize
    <2>2. d2[1] = d1[1]
      BY <1>6, <1>8, <1>10, <2>1
    <2> QED
      BY <1>6, <1>8, <1>9, <1>10, <2>1, <2>2
  <1>12. f = [data |-> d2, at |-> g.at, untold |-> g.untold]
    <2> DEFINE x == g.at
               y == g.untold
    <2>1. g = [data |-> e, at |-> x, untold |-> y]
      BY <1>2
    <2> HIDE DEF x, y
    <2>2. f = [data |-> d2, at |-> x, untold |-> y]
      BY <1>7, <2>1
    <2> QED
      BY <2>2 DEF x, y
  <1>13. /\ f \in FlatPacket /\ f.data = d2 /\ f.at = g.at /\ f.untold = g.untold
    <2>1. f \in FlatPacket
      BY <1>2, <1>11, <1>12, FlatPacketOf
    <2> QED
      BY <1>12, <2>1
  <1>14. /\ MemOK(m1, own, DataSet(data, p, HeadSet(data[p], FlagPos, c))) /\ Only(m, own, m1, own, p)
         /\ m1.io[p].ptr = m.io[p].ptr /\ m1.io[p].size = m.io[p].size /\ m1.io[p].count > 0
    <2>1. MemOK(m, own, data) /\ p \in Blocks /\ m.io[p].count > 0 /\ FlagPos \in Nat /\ FlagPos < m.io[p].size
          /\ c \in Nat /\ m1 = PutHead(m, p, FlagPos, c)
      BY <1>1, <1>3, <1>6
    <2> QED
      BY ONLY <2>1, PutHeadIs
  <1>15. data1[p] = d1 /\ \A x : DataSet(data1, p, x) = DataSet(data, p, x)
    <2>1. data1 = DataSet(data, p, d1)
      OBVIOUS
    <2> HIDE DEF data1
    <2>2. data1[p] = d1
      BY <1>1, <2>1 DEF DataSet
    <2>3. \A x : DataSet(data1, p, x) = DataSet(data, p, x)
      BY <1>1, <2>1, DataTwice
    <2> QED
      BY <2>2, <2>3
  <1>16. MemOK(m1, own, data1)
    BY <1>1, <1>6, <1>14
  <1> HIDE DEF data1
  <1>17. /\ MemOK(m3, own, DataSet(data1, p, FlatEncode(data1[p])))
         /\ m3.io = m1.io /\ m3.made = m1.made /\ m3.next = m1.next
    <2>1. MemOK(m1, own, data1) /\ p \in Blocks /\ m1.io[p].count > 0 /\ m1.io[p].size >= HeadSize
          /\ m3 = EncodeCells(m1, p)
      BY <1>1, <1>2, <1>6, <1>14, <1>16
    <2> QED
      BY ONLY <2>1, EncodeIs
  <1>18. MemOK(m3, own, data2)
    BY <1>6, <1>15, <1>17
  <1>19. Only(m1, own, m3, own, p) /\ Len(own[p]) \in Nat
    <2>1. Len(own[p]) \in Nat
      BY ONLY <1>1, LiveIs, p \in Blocks, m.io[p].count > 0
    <2> QED
      BY <1>17, <2>1 DEF Only, Spare
  <1> HIDE DEF data2
  <1>20. /\ MemOK(m2, own, data2) /\ Only(m3, own, m2, own, p) /\ m2.cell = m3.cell /\ m2.io[p].count > 0
         /\ m2.io[p].ptr = (IF m.io[p].ptr > m3.io[p].size THEN m3.io[p].ptr ELSE m.io[p].ptr)
         /\ m2.io[p].size = m3.io[p].size /\ m2.next = m3.next
    <2> DEFINE at == m.io[p].ptr
    <2>1. MemOK(m3, own, data2) /\ p \in Blocks /\ m3.io[p].count > 0 /\ at \in Nat /\ m2 = SeekCell(m3, p, at)
      BY <1>1, <1>6, <1>14, <1>17, <1>18
    <2> HIDE DEF at
    <2>2. /\ MemOK(m2, own, data2) /\ Only(m3, own, m2, own, p) /\ m2.cell = m3.cell /\ m2.io[p].count > 0
         /\ m2.io[p].ptr = (IF at > m3.io[p].size THEN m3.io[p].ptr ELSE at) /\ m2.io[p].size = m3.io[p].size
         /\ m2.next = m3.next
      BY ONLY <2>1, SeekIs
    <2> QED
      BY <2>2 DEF at
  <1>21. m2.io[p].ptr = f.at
    BY <1>1, <1>2, <1>13, <1>14, <1>17, <1>20
  <1>22. Only(m, own, m2, own, p)
    <2>1. Only(m, own, m3, own, p)
      BY ONLY <1>14, <1>19, OnlyTwice
    <2> QED
      BY ONLY <1>19, <1>20, <2>1, OnlyTwice
  <1>23. PacketFits(m2.io[p], f)
    BY <1>2, <1>11, <1>13, <1>21 DEF PacketFits
  <1>24. MemOK(m2, own, DataSet(data, p, f.data))
    BY <1>13, <1>20 DEF data2
  <1> QED
    BY <1>5, <1>13, <1>22, <1>23, <1>24, PacketChanged DEF data

\* rbtP_init
LEMMA InitCore ==
    ASSUME NEW m, NEW own, NEW fl, NEW q, Core(m, own, fl, q), K(HeadSize - 1) < Spare(m, own),
           NEW b, b = NewBlock(m), NEW m2, m2 = InitPacket(m),
           NEW f, f = [data |-> <<HeadSize, Plain, 0>>, at |-> HeadSize, untold |-> 0],
           NEW fl2, fl2 = FlatSet(fl, b, f)
    PROVE b \in Blocks /\ Kept(m2, fl2, q) /\ NotQueued(q, b)
  <1> SUFFICES b \in Blocks /\ (\E own2 : Core(m2, own2, fl2, q)) /\ \A j \in 1 .. Len(q) : q[j].pkt # b
    BY DEF Kept, NotQueued
  <1> DEFINE head == <<HeadSize, Plain, 0>>
             data == Bytes(fl)
  <1>1. head \in Seq(Nat) /\ Len(head) = HeadSize /\ head[1] = HeadSize /\ HeadSize \in Nat /\ 0 \in Nat /\ HeadSize = 3
    BY DEF HeadSize, Plain
  <1>2. f = [data |-> head, at |-> HeadSize, untold |-> 0]
    OBVIOUS
  <1>3. MemOK(m, own, data)
    BY CoreIs
  <1> HIDE DEF data
  <1>4. /\ b \in Blocks /\ m.io[b].count = 0
        /\ \E own2 :
                /\ MemOK(m2, own2, DataSet(data, b, <<HeadSize, Plain, 0>>)) /\ Opened(m, own, m2, own2, b)
                /\ m2.io[b].ptr = HeadSize /\ m2.io[b].size = HeadSize
    BY <1>3, InitIs
  <1>5. PICK own2 :
                /\ MemOK(m2, own2, DataSet(data, b, head)) /\ Opened(m, own, m2, own2, b)
                /\ m2.io[b].ptr = HeadSize /\ m2.io[b].size = HeadSize
    BY <1>4
  <1> HIDE DEF head
  <1>6. f \in FlatPacket /\ f.data = head /\ f.at = HeadSize /\ f.untold = 0
    <2>1. f \in FlatPacket
      BY ONLY <1>1, <1>2, FlatPacketOf
    <2> QED
      BY ONLY <1>2, <2>1
  <1>7. PacketFits(m2.io[b], f)
    <2>1. Body(head)
      BY <1>1 DEF Body
    <2>2. head[1] + 0 = Len(head) /\ HeadSize <= Len(head)
      BY ONLY <1>1
    <2> QED
      BY ONLY <1>1, <1>5, <1>6, <2>1, <2>2 DEF PacketFits
  <1>8. Core(m2, own2, fl2, q) /\ \A j \in 1 .. Len(q) : q[j].pkt # b
    <2>1. MemOK(m2, own2, DataSet(Bytes(fl), b, f.data))
      BY <1>5, <1>6 DEF data
    <2>2. Core(m, own, fl, q) /\ fl2 = FlatSet(fl, b, f)
      OBVIOUS
    <2> QED
      BY ONLY <1>4, <1>5, <1>6, <1>7, <2>1, <2>2, PacketMade
  <1> QED
    BY <1>4, <1>8

\* rbtP_parse
LEMMA ParseCore ==
    ASSUME NEW m, NEW own, NEW fl, NEW q, Core(m, own, fl, q), NEW cells \in Seq(Nat), NEW n, n = Len(cells),
           n >= HeadSize, cells[1] = n, Body(cells), K(n - 1) < Spare(m, own), NEW b, b = NewBlock(m),
           NEW m2, m2 = SeekCell(WriteLen(SeekCell(InitPacket(m), b, 0), b, cells), b, HeadSize),
           NEW f, f = [data |-> cells, at |-> HeadSize, untold |-> 0],
           NEW fl2, fl2 = FlatSet(fl, b, f)
    PROVE b \in Blocks /\ Kept(m2, fl2, q) /\ NotQueued(q, b)
  <1> SUFFICES b \in Blocks /\ (\E own2 : Core(m2, own2, fl2, q)) /\ \A j \in 1 .. Len(q) : q[j].pkt # b
    BY DEF Kept, NotQueued
  <1> DEFINE data == Bytes(fl)
  <1>1. HeadSize \in Nat /\ 0 \in Nat /\ n \in Nat
    BY DEF HeadSize
  <1>3. MemOK(m, own, data)
    BY CoreIs
  <1> HIDE DEF data
  <1>4. /\ b \in Blocks /\ m.io[b].count = 0
        /\ \E own2 :
                /\ MemOK(m2, own2, DataSet(data, b, cells)) /\ Opened(m, own, m2, own2, b)
                /\ m2.io[b].ptr = HeadSize /\ m2.io[b].size = n
    BY <1>3, ParseIs
  <1>5. PICK own2 :
                /\ MemOK(m2, own2, DataSet(data, b, cells)) /\ Opened(m, own, m2, own2, b)
                /\ m2.io[b].ptr = HeadSize /\ m2.io[b].size = n
    BY <1>4
  <1>6. f \in FlatPacket /\ f.data = cells /\ f.at = HeadSize /\ f.untold = 0
    BY <1>1, FlatPacketOf
  <1>7. PacketFits(m2.io[b], f)
    BY <1>1, <1>5, <1>6 DEF PacketFits
  <1>8. Core(m2, own2, fl2, q) /\ \A j \in 1 .. Len(q) : q[j].pkt # b
    <2>1. MemOK(m2, own2, DataSet(Bytes(fl), b, f.data))
      BY <1>5, <1>6 DEF data
    <2>2. Core(m, own, fl, q) /\ fl2 = FlatSet(fl, b, f)
      OBVIOUS
    <2> QED
      BY ONLY <1>4, <1>5, <1>6, <1>7, <2>1, <2>2, PacketMade
  <1> QED
    BY <1>4, <1>8
-----------------------------------------------------------------------------
(* References: how often a packet is in the queue. *)
LEMMA TimesFinite ==
    ASSUME NEW q \in Seq(Node), NEW p
    PROVE IsFiniteSet(Times(q, p)) /\ Cardinality(Times(q, p)) \in Nat /\ Times(q, p) \subseteq 1 .. Len(q)
  <1>1. Times(q, p) \subseteq 1 .. Len(q) /\ IsFiniteSet(1 .. Len(q))
    <2>1. Len(q) \in Nat
      OBVIOUS
    <2> QED
      BY <2>1, FS_Interval DEF Times
  <1> QED
    BY <1>1, FS_Subset, FS_CardinalityType

LEMMA TimesNone ==
    ASSUME NEW q \in Seq(Node), NEW p, Cardinality(Times(q, p)) = 0
    PROVE \A j \in 1 .. Len(q) : q[j].pkt # p
  <1>1. Times(q, p) = {}
    BY TimesFinite, FS_EmptySet
  <1> QED
    BY <1>1 DEF Times

LEMMA TimesOfNone ==
    ASSUME NEW q \in Seq(Node), NEW p, \A j \in 1 .. Len(q) : q[j].pkt # p
    PROVE Cardinality(Times(q, p)) = 0
  <1>1. Times(q, p) = {}
    BY DEF Times
  <1> QED
    BY <1>1, FS_EmptySet

OneMore(q, r, x) == \A p : Cardinality(Times(r, p)) = Cardinality(Times(q, p)) + IF x = p THEN 1 ELSE 0
\* A packet is queued once more.
LEMMA TimesAppend ==
    ASSUME NEW q \in Seq(Node), NEW x \in Node, NEW r, r = Append(q, x)
    PROVE OneMore(q, r, x.pkt)
  <1> SUFFICES ASSUME NEW p PROVE Cardinality(Times(r, p)) = Cardinality(Times(q, p)) + IF x.pkt = p THEN 1 ELSE 0
    BY DEF OneMore
  <1>1. /\ Len(r) = Len(q) + 1 /\ r[Len(q) + 1] = x /\ Len(q) \in Nat
        /\ \A j \in 1 .. Len(q) : r[j] = q[j]
    OBVIOUS
  <1>2. 1 .. Len(r) = (1 .. Len(q)) \cup {Len(q) + 1} /\ Len(q) + 1 \notin 1 .. Len(q)
    BY <1>1
  <1>3. Times(r, p) = IF x.pkt = p THEN Times(q, p) \cup {Len(q) + 1} ELSE Times(q, p)
    BY <1>1, <1>2 DEF Times
  <1>4. IsFiniteSet(Times(q, p)) /\ Len(q) + 1 \notin Times(q, p) /\ Cardinality(Times(q, p)) \in Nat
    BY <1>2, TimesFinite
  <1>5. CASE x.pkt = p
    <2>1. Cardinality(Times(q, p) \cup {Len(q) + 1}) = Cardinality(Times(q, p)) + 1
      BY <1>4, FS_AddElement
    <2> QED
      BY <1>3, <1>5, <2>1
  <1>6. CASE x.pkt # p
    BY <1>3, <1>4, <1>6
  <1> QED
    BY <1>5, <1>6

\* The first of the queue is taken.
LEMMA TimesTail ==
    ASSUME NEW q \in Seq(Node), Len(q) > 0, NEW r, r = Tail(q), NEW p
    PROVE Cardinality(Times(r, p)) = Cardinality(Times(q, p)) - IF q[1].pkt = p THEN 1 ELSE 0
  <1>1. /\ r \in Seq(Node) /\ Len(r) = Len(q) - 1 /\ Len(q) \in Nat
        /\ \A j \in 1 .. Len(q) - 1 : r[j] = q[j + 1]
    OBVIOUS
  <1> DEFINE T == Times(q, p)
             rest == T \ {1}
             R == Times(r, p)
             f == [j \in R |-> j + 1]
  <1>2. R \subseteq 1 .. Len(q) - 1 /\ IsFiniteSet(R) /\ IsFiniteSet(T) /\ T \subseteq 1 .. Len(q)
    BY <1>1, TimesFinite
  <1>3. f \in Bijection(R, rest)
    <2>1. \A j \in R : j + 1 \in rest
      BY <1>1, <1>2 DEF Times
    <2>2. \A i \in rest : i - 1 \in R /\ (i - 1) + 1 = i
      <3> TAKE i \in rest
      <3>1. i \in 1 .. Len(q) /\ i # 1 /\ q[i].pkt = p
        BY DEF Times
      <3>2. i - 1 \in 1 .. Len(q) - 1 /\ (i - 1) + 1 = i
        BY <1>1, <3>1
      <3> QED
        BY <1>1, <3>1, <3>2 DEF Times
    <2>3. \A i, j \in R : f[i] = f[j] => i = j
      BY <1>2
    <2> HIDE DEF R, T
    <2>4. f \in [R -> rest]
      BY <2>1
    <2>5. f \in Injection(R, rest)
      BY <2>3, <2>4 DEF Injection, IsInjective
    <2>6. f \in Surjection(R, rest)
      BY <2>2, <2>4 DEF Surjection
    <2> QED
      BY <2>5, <2>6 DEF Bijection
  <1>4. Cardinality(rest) = Cardinality(R)
    BY <1>2, <1>3, FS_Bijection DEF ExistsBijection
  <1>5. Cardinality(rest) = IF 1 \in T THEN Cardinality(T) - 1 ELSE Cardinality(T)
    BY <1>2, FS_RemoveElement
  <1>6. 1 \in T <=> q[1].pkt = p
    BY <1>1 DEF Times
  <1>7. Cardinality(T) \in Nat
    BY TimesFinite
  <1> QED
    BY <1>4, <1>5, <1>6, <1>7
IOHeld(io, c, n) == [block |-> io.block, pos |-> io.pos, ptr |-> io.ptr, size |-> io.size, count |-> c, mine |-> n]

LEMMA HeldTo ==
    ASSUME NEW io \in IORecord, NEW x
    PROVE [io EXCEPT !.count = x] = IOHeld(io, x, io.mine) /\ [io EXCEPT !.mine = x] = IOHeld(io, io.count, x)
  <1>1. io = [block |-> io.block, pos |-> io.pos, ptr |-> io.ptr, size |-> io.size, count |-> io.count,
              mine |-> io.mine]
    BY IORecordIs
  <1> QED
    BY <1>1 DEF IOHeld

\* Only who holds a packet changes.
LEMMA RefsSetIs ==
    ASSUME NEW m, NEW own, NEW data, MemOK(m, own, data), NEW p \in Blocks, m.io[p].count > 0,
           NEW c \in Nat, c > 0, NEW n \in Nat, NEW io2, io2 = IOHeld(m.io[p], c, n),
           NEW m2, m2 = IOSet(m, p, io2)
    PROVE /\ MemOK(m2, own, data) /\ \A x \in Blocks \ {p} : m2.io[x] = m.io[x]
          /\ m2.io[p].count = c /\ m2.io[p].mine = n
          /\ m2.io[p].ptr = m.io[p].ptr /\ m2.io[p].size = m.io[p].size
  <1> DEFINE io == m.io[p]
  <1>0. m.io \in [Blocks -> IORecord] /\ io \in IORecord
    BY MemoryIs DEF MemOK
  <1>3. /\ own[p] \in Seq(Blocks) /\ data[p] \in Seq(Nat) /\ data \in [Blocks -> Seq(Nat)]
        /\ PacketOK(m.cell, own[p], io, data[p])
    BY LiveIs
  <1>5. io2 = [block |-> io.block, pos |-> io.pos, ptr |-> io.ptr, size |-> io.size, count |-> c, mine |-> n]
    BY DEF IOHeld
  <1>6. io2 \in IORecord
    <2>1. io.block \in 0 .. NumBlocks /\ io.pos \in 0 .. BlockSize /\ io.ptr \in Nat /\ io.size \in Nat
      BY <1>0, IORecordIs
    <2> HIDE DEF io
    <2> QED
      BY <1>5, <2>1, IORecordOf
  <1>7. io2.block = io.block /\ io2.pos = io.pos /\ io2.ptr = io.ptr /\ io2.size = io.size
        /\ io2.count = c /\ io2.mine = n
    <2> HIDE DEF io
    <2> QED
      BY <1>5
  <1>8. PacketOK(m.cell, own[p], io2, data[p])
    BY ONLY <1>3, <1>7 DEF PacketOK, OnSpot
  <1>9. /\ MemOK(m2, own, DataSet(data, p, data[p]))
        /\ m2.io = [m.io EXCEPT ![p] = io2] /\ m2.io[p] = io2
    <2> DEFINE d == data[p]
    <2>1. io2.count > 0 /\ m.io[p].count > 0 /\ d \in Seq(Nat) /\ MemOK(m, own, data) /\ p \in Blocks
          /\ m2 = IOSet(m, p, io2)
      BY <1>3, <1>7
    <2>2. PacketOK(m.cell, own[p], io2, d)
      BY <1>8
    <2> HIDE DEF d
    <2>3. MemOK(m2, own, DataSet(data, p, d))
      BY ONLY <1>6, <2>1, <2>2, CursorIs
    <2>4. m2.io = [m.io EXCEPT ![p] = io2] /\ m2.io[p] = io2
      BY ONLY <1>6, <2>1, <2>2, CursorIs
    <2> QED
      BY <2>3, <2>4 DEF d
  <1>10. DataSet(data, p, data[p]) = data
    BY <1>3, DataSame
  <1>11. \A x \in Blocks \ {p} : m2.io[x] = m.io[x]
    BY <1>0, <1>9
  <1> QED
    BY <1>7, <1>9, <1>10, <1>11

LEMMA NoFlatIs == NoFlat \in FlatPacket /\ NoFlat.data = <<>>
  BY DEF NoFlat, FlatPacket

\* The last reference is dropped.
LEMMA GoneCore ==
    ASSUME NEW m, NEW own, NEW fl \in [Blocks -> FlatPacket], NEW q \in Seq(Node), MemOK(m, own, Bytes(fl)),
           PacketsOK(m, fl), QueueOK(own, q), NEW p \in Blocks, m.io[p].count > 0, ~(m.io[p].count > 1),
           \A j \in 1 .. Len(q) : q[j].pkt # p,
           \A x \in Blocks \ {p} : m.io[x].count = m.io[x].mine + Cardinality(Times(q, x)),
           NEW m2, m2 = DropPacket(m, p), NEW fl2, fl2 = FlatSet(fl, p, NoFlat)
    PROVE (\E own2 : Core(m2, own2, fl2, q)) /\ m2.io[p] = NoIO /\ m2 \in Memory
  <1> DEFINE own2 == OwnFreed(own, p)
             data == Bytes(fl)
             e == <<>>
  <1>1. MemOK(m, own, data) /\ own2 = OwnFreed(own, p)
    OBVIOUS
  <1> HIDE DEF own2, data
  <1>2. /\ MemOK(m2, own2, DataSet(data, p, e))
        /\ m2.io = [m.io EXCEPT ![p] = NoIO] /\ \A x \in Blocks \ {p} : own2[x] = own[x]
    BY <1>1, DropLastIs
  <1>3. /\ fl2 \in [Blocks -> FlatPacket] /\ fl2[p] = NoFlat /\ \A x \in Blocks \ {p} : fl2[x] = fl[x]
        /\ Bytes(fl2) = DataSet(Bytes(fl), p, NoFlat.data)
    BY NoFlatIs, FlatSetIs
  <1>4. MemOK(m2, own2, Bytes(fl2))
    BY <1>2, <1>3, NoFlatIs DEF data
  <1>5. m.io \in [Blocks -> IORecord] /\ m2 \in Memory
    BY <1>1, <1>2, MemoryIs DEF MemOK
  <1>6. m2.io[p] = NoIO /\ \A x \in Blocks \ {p} : m2.io[x] = m.io[x]
    BY <1>2, <1>5
  <1>7. PacketsOK(m2, fl2)
    <2> SUFFICES ASSUME NEW x \in Blocks, m2.io[x].count > 0 PROVE PacketFits(m2.io[x], fl2[x])
      BY DEF PacketsOK, PacketFits
    <2>1. x # p
      BY <1>6, NoIOIs
    <2> QED
      BY <1>3, <1>6, <2>1 DEF PacketsOK, PacketFits
  <1>8. RefsOK(m2, q)
    <2> SUFFICES ASSUME NEW x \in Blocks PROVE m2.io[x].count = m2.io[x].mine + Cardinality(Times(q, x))
      BY DEF RefsOK
    <2>1. CASE x = p
      BY <1>6, <2>1, NoIOIs, TimesOfNone
    <2>2. CASE x # p
      BY <1>6, <2>2
    <2> QED
      BY <2>1, <2>2
  <1>9. QueueOK(own2, q)
    <2>1. \A j \in 1 .. Len(q) : q[j].pkt \in Blocks
      BY NodeIs
    <2>2. \A j \in 1 .. Len(q) : own2[q[j].pkt] = own[q[j].pkt]
      BY <1>2, <2>1
    <2> QED
      BY <2>2 DEF QueueOK
  <1>10. Core(m2, own2, fl2, q)
    BY <1>3, <1>4, <1>7, <1>8, <1>9 DEF Core
  <1> QED
    BY <1>5, <1>6, <1>10

\* rbtP_drop by the program.
LEMMA DropCore ==
    ASSUME NEW m, NEW own, NEW fl, NEW q, Core(m, own, fl, q), NEW p \in Blocks, m.io[p].count > 0,
           m.io[p].mine > 0, NEW m2, m2 = [DropPacket(m, p) EXCEPT !.io[p].mine = m.io[p].mine - 1],
           NEW fl2, fl2 = IF m.io[p].count > 1 THEN fl ELSE FlatSet(fl, p, NoFlat)
    PROVE Kept(m2, fl2, q) /\ SameFlats(fl, fl2, q)
  <1> SUFFICES (\E own2 : Core(m2, own2, fl2, q)) /\ \A j \in 1 .. Len(q) : fl2[q[j].pkt] = fl[q[j].pkt]
    BY DEF Kept, SameFlats
  <1> DEFINE m1 == DropPacket(m, p)
             k == m.io[p].mine - 1
             data == Bytes(fl)
  <1>1. /\ m.io[p].count \in Nat /\ m.io[p].mine \in Nat /\ Cardinality(Times(q, p)) \in Nat
        /\ m.io[p].count = m.io[p].mine + Cardinality(Times(q, p))
    BY HeldBy
  <1>2. MemOK(m, own, data) /\ fl \in [Blocks -> FlatPacket] /\ q \in Seq(Node) /\ k \in Nat
    BY <1>1, CoreIs
  <1>3. m1 = DropPacket(m, p) /\ m2 = [m1 EXCEPT !.io[p].mine = k]
    OBVIOUS
  <1>4. PacketsOK(m, fl) /\ RefsOK(m, q) /\ QueueOK(own, q)
    BY DEF Core
  <1> HIDE DEF m1, data
  <1>5. CASE m.io[p].count > 1
    <2>1. /\ MemOK(m1, own, data) /\ \A x \in Blocks \ {p} : m1.io[x] = m.io[x]
          /\ m1.io[p].count = m.io[p].count - 1 /\ m1.io[p].mine = m.io[p].mine
          /\ m1.io[p].ptr = m.io[p].ptr /\ m1.io[p].size = m.io[p].size /\ m1.made = m.made
      BY <1>2, <1>3, <1>5, DropMoreIs
    <2> DEFINE c == m1.io[p].count
               io2 == IOHeld(m1.io[p], c, k)
    <2>2. c \in Nat /\ c > 0 /\ m1.io[p] \in IORecord
      <3>1. m1.io[p] \in IORecord
        BY <2>1, MemoryIs DEF MemOK
      <3> QED
        BY <1>1, <1>5, <2>1, <3>1
    <2>3. m2 = IOSet(m1, p, io2)
      <3>1. [m1.io[p] EXCEPT !.mine = k] = io2
        BY <2>2, HeldTo
      <3>2. m2 = [m1 EXCEPT !.io[p] = [m1.io[p] EXCEPT !.mine = k]]
        BY <1>3
      <3> QED
        BY <3>1, <3>2 DEF IOSet
    <2>4. io2 = IOHeld(m1.io[p], c, k) /\ m1.io[p].count > 0
      BY <2>2
    <2> HIDE DEF c, io2, k
    <2>5. /\ MemOK(m2, own, data) /\ \A x \in Blocks \ {p} : m2.io[x] = m1.io[x]
          /\ m2.io[p].count = c /\ m2.io[p].mine = k
          /\ m2.io[p].ptr = m1.io[p].ptr /\ m2.io[p].size = m1.io[p].size
      <3>1. /\ MemOK(m1, own, data) /\ p \in Blocks /\ m1.io[p].count > 0 /\ c \in Nat /\ c > 0 /\ k \in Nat
            /\ io2 = IOHeld(m1.io[p], c, k) /\ m2 = IOSet(m1, p, io2)
        BY <1>2, <2>1, <2>2, <2>3, <2>4
      <3> QED
        BY ONLY <3>1, RefsSetIs
    <2>6. PacketsOK(m2, fl)
      <3> SUFFICES ASSUME NEW x \in Blocks, m2.io[x].count > 0 PROVE PacketFits(m2.io[x], fl[x])
        BY DEF PacketsOK, PacketFits
      <3>1. m.io[x].count > 0 /\ m2.io[x].ptr = m.io[x].ptr
        BY <2>1, <2>5
      <3> QED
        BY <1>4, <3>1 DEF PacketsOK, PacketFits
    <2>7. RefsOK(m2, q)
      <3> SUFFICES ASSUME NEW x \in Blocks PROVE m2.io[x].count = m2.io[x].mine + Cardinality(Times(q, x))
        BY DEF RefsOK
      <3>1. CASE x = p
        BY <1>1, <2>1, <2>5, <3>1 DEF c, k
      <3>2. CASE x # p
        BY <1>4, <2>1, <2>5, <3>2 DEF RefsOK
      <3> QED
        BY <3>1, <3>2
    <2>8. Core(m2, own, fl, q)
      BY <1>2, <1>4, <2>5, <2>6, <2>7 DEF Core, data
    <2> QED
      BY <1>5, <2>8
  <1>6. CASE ~(m.io[p].count > 1)
    <2>1. m.io[p].mine = 1 /\ Cardinality(Times(q, p)) = 0 /\ k = 0
      BY <1>1, <1>6
    <2>2. \A j \in 1 .. Len(q) : q[j].pkt # p /\ q[j].pkt \in Blocks
      BY <1>2, <2>1, TimesNone, NodeIs
    <2>3. fl2 = FlatSet(fl, p, NoFlat)
      BY <1>6
    <2>4. (\E own2 : Core(m1, own2, fl2, q)) /\ m1.io[p] = NoIO /\ m1 \in Memory
      <3>1. \A x \in Blocks \ {p} : m.io[x].count = m.io[x].mine + Cardinality(Times(q, x))
        BY <1>4 DEF RefsOK
      <3>2. MemOK(m, own, Bytes(fl)) /\ \A j \in 1 .. Len(q) : q[j].pkt # p
        BY <1>2, <2>2 DEF data
      <3> QED
        BY <1>2, <1>3, <1>4, <1>6, <2>3, <3>1, <3>2, GoneCore
    <2>5. m2 = m1
      <3> DEFINE io == m1.io
      <3>1. io \in [Blocks -> IORecord] /\ io[p] = NoIO /\ [NoIO EXCEPT !.mine = 0] = NoIO
        BY <2>4, MemoryIs DEF NoIO
      <3>2. [io EXCEPT ![p] = [io[p] EXCEPT !.mine = 0]] = io
        BY <3>1
      <3>3. m1 = [cell |-> m1.cell, next |-> m1.next, free |-> m1.free, made |-> m1.made, io |-> io]
        BY <2>4, MemoryIs
      <3>4. m2 = [m1 EXCEPT !.io = [io EXCEPT ![p] = [io[p] EXCEPT !.mine = 0]]]
        BY <1>3, <2>1
      <3> HIDE DEF io
      <3>5. m2 = [m1 EXCEPT !.io = io]
        BY <3>2, <3>4
      <3> QED
        BY ONLY <3>3, <3>5
    <2>6. \A j \in 1 .. Len(q) : fl2[q[j].pkt] = fl[q[j].pkt]
      <3>1. \A x \in Blocks \ {p} : fl2[x] = fl[x]
        BY <1>2, <2>3, NoFlatIs, FlatSetIs
      <3> QED
        BY <2>2, <3>1
    <2> QED
      BY <2>4, <2>5, <2>6
  <1> QED
    BY <1>5, <1>6
-----------------------------------------------------------------------------
(* The wire. *)
SentOK(st) == \A k \in 1 .. Len(st) : HeadSize <= Len(st[k]) /\ Body(st[k])
\* Where the frames begin.
Offsets(off, st) ==
    /\ off \in [0 .. Len(st) -> Nat] /\ off[0] = 0
    /\ \A k \in 1 .. Len(st) : off[k] = off[k - 1] + Len(st[k])

\* Of the frames that were sent one behind the other, so much as is not in the queue was written.
Written_(off, w, st) ==
    \A k \in 1 .. Len(st) : \A i \in 1 .. Len(st[k]) : off[k - 1] + i <= Len(w) => w[off[k - 1] + i] = st[k][i]
WireOK(off, q, w, st) ==
    /\ Len(q) <= Len(st) /\ Written_(off, w, st)
    /\ Len(w) = off[Len(st) - Len(q)] + IF q = <<>> THEN 0 ELSE q[1].done

\* A packet in the queue is as it was sent, but for the number of another sending.
FrameOK(d, node, f) ==
    /\ Len(d) = Len(f) /\ node.done + node.left = Len(f) /\ f[SeqPos + 1] = node.seq
    /\ \A i \in 1 .. Len(f) : i # SeqPos + 1 => d[i] = f[i]
FramesOK(fl, q, st) ==
    /\ \A k \in 1 .. Len(st) : st[k][1] = Len(st[k])
    /\ \A j \in 1 .. Len(q) : FrameOK(fl[q[j].pkt].data, q[j], st[Len(st) - Len(q) + j])

\* These cells are those of a packet from a place on.
IsPart(more, d, done, n) == Len(more) = n /\ \A i \in 1 .. n : more[i] = d[done + i]

\* Frames follow each other.
LEMMA OffsetsGrow ==
    ASSUME NEW st \in Seq(Seq(Nat)), NEW off, Offsets(off, st)
    PROVE \A i, j \in 0 .. Len(st) : i <= j => off[i] <= off[j]
  <1> DEFINE N == Len(st)
             T == {j \in 0 .. N : \A i \in 0 .. N : i <= j => off[i] <= off[j]}
  <1>1. N \in Nat /\ \A i \in 0 .. N : off[i] \in Nat
    <2>1. off \in [0 .. Len(st) -> Nat]
      BY DEF Offsets
    <2>2. Len(st) \in Nat
      OBVIOUS
    <2> QED
      BY ONLY <2>1, <2>2
  <1>2. 0 \in T
    <2>1. \A i \in 0 .. N : i <= 0 => i = 0
      BY <1>1
    <2> QED
      BY <1>1, <2>1
  <1>3. \A n \in 0 .. N - 1 : n \in T => n + 1 \in T
    <2> SUFFICES ASSUME NEW n \in 0 .. N - 1, n \in T PROVE n + 1 \in T
      OBVIOUS
    <2>1. n + 1 \in 1 .. N /\ n + 1 \in 0 .. N /\ n \in 0 .. N /\ (n + 1) - 1 = n /\ n \in Nat
      BY <1>1
    <2>2. off[n + 1] = off[n] + Len(st[n + 1]) /\ Len(st[n + 1]) \in Nat
      BY <2>1 DEF Offsets
    <2> DEFINE x == off[n]
               y == off[n + 1]
    <2>3. x \in Nat /\ y \in Nat /\ x <= y
      BY <1>1, <2>1, <2>2
    <2>4. \A i \in 0 .. N : i <= n + 1 => off[i] <= y
      <3> TAKE i \in 0 .. N
      <3>1. HAVE i <= n + 1
      <3>2. CASE i = n + 1
        BY <2>3, <3>2
      <3>3. CASE i <= n
        <4>1. off[i] <= x /\ off[i] \in Nat
          BY <1>1, <3>3
        <4> HIDE DEF x, y
        <4> QED
          BY <2>3, <4>1
      <3> QED
        BY <2>1, <3>1, <3>2, <3>3
    <2> QED
      BY <2>1, <2>4
  <1> HIDE DEF T
  <1>4. 0 .. N \subseteq T
    BY <1>1, <1>2, <1>3, IntervalInduction
  <1> QED
    BY <1>4 DEF T

\* What is in the queue is in the last frames.
LEMMA FrameOf ==
    ASSUME NEW st \in Seq(Seq(Nat)), NEW q \in Seq(Node), NEW fl, Len(q) <= Len(st), FramesOK(fl, q, st),
           NEW j \in 1 .. Len(q), NEW k, k = Len(st) - Len(q) + j
    PROVE k \in 1 .. Len(st) /\ st[k] \in Seq(Nat) /\ FrameOK(fl[q[j].pkt].data, q[j], st[k])
  <1>1. k \in 1 .. Len(st)
    OBVIOUS
  <1> QED
    BY <1>1 DEF FramesOK

\* So many more cells of the first packet in the queue are written.
MoreWritten(off, w, w2, st, a, node, n) ==
    /\ Written_(off, w2, st) /\ Len(w2) = Len(w) + n /\ w2 \in Seq(Nat)
    /\ Len(w) = off[a] + node.done
    /\ off[a + 1] = off[a] + node.done + node.left

\* What is written for the first of the queue continues its frame.
LEMMA WireMore ==
    ASSUME NEW st \in Seq(Seq(Nat)), NEW q \in Seq(Node), NEW off, Offsets(off, st), NEW w \in Seq(Nat),
           WireOK(off, q, w, st), NEW fl, FramesOK(fl, q, st), Len(q) > 0,
           NEW node, node = q[1], NEW d, d = fl[node.pkt].data, d[SeqPos + 1] = node.seq,
           NEW n \in Nat, n <= node.left, NEW more \in Seq(Nat), IsPart(more, d, node.done, n),
           NEW w2, w2 = w \o more, NEW a, a = Len(st) - Len(q)
    PROVE MoreWritten(off, w, w2, st, a, node, n)
  <1> DEFINE f == st[a + 1]
             done == node.done
             left == node.left
             x == off[a]
  <1>0. Len(more) = n /\ \A i \in 1 .. n : more[i] = d[node.done + i]
    BY DEF IsPart
  <1>1. node \in Node /\ Len(q) <= Len(st) /\ Len(q) \in Nat /\ Len(st) \in Nat /\ 1 \in 1 .. Len(q)
        /\ Written_(off, w, st)
    BY DEF WireOK
  <1>2. done \in Nat /\ left \in Nat
    BY <1>1, NodeIs
  <1>3. a \in 0 .. Len(st) /\ a + 1 \in 1 .. Len(st) /\ a + 1 \in 0 .. Len(st) /\ (a + 1) - 1 = a /\ a \in Nat
    BY <1>1
  <1>4. f \in Seq(Nat) /\ FrameOK(d, node, f)
    <2> DEFINE k == a + 1
    <2>1. k = Len(st) - Len(q) + 1
      OBVIOUS
    <2> HIDE DEF k
    <2>2. st[k] \in Seq(Nat) /\ FrameOK(fl[q[1].pkt].data, q[1], st[k])
      BY <1>1, <2>1, FrameOf
    <2> QED
      BY <2>2 DEF k
  <1>5. x \in Nat /\ off[a + 1] = x + Len(f) /\ Len(f) \in Nat /\ Len(f) = done + left
    <2>1. off \in [0 .. Len(st) -> Nat] /\ \A k \in 1 .. Len(st) : off[k] = off[k - 1] + Len(st[k])
      BY DEF Offsets
    <2>2. x \in Nat
      BY ONLY <1>3, <2>1
    <2> DEFINE k == a + 1
    <2>3. k \in 1 .. Len(st) /\ k - 1 = a /\ f = st[k]
      BY <1>3
    <2> HIDE DEF k
    <2>4. off[k] = off[k - 1] + Len(st[k])
      BY ONLY <2>1, <2>3
    <2>5. Len(f) \in Nat
      BY ONLY <1>4
    <2>6. Len(f) = done + left
      BY <1>4 DEF FrameOK
    <2> QED
      BY <2>2, <2>3, <2>4, <2>5, <2>6 DEF k
  <1>6. Len(w) = x + done /\ Len(w) \in Nat
    <2>1. q # <<>>
      BY <1>1
    <2> QED
      BY <2>1 DEF WireOK
  <1>7. /\ w2 \in Seq(Nat) /\ Len(w2) = Len(w) + n
        /\ \A i \in 1 .. Len(w) : w2[i] = w[i]
        /\ \A i \in 1 .. n : w2[Len(w) + i] = more[i]
    <2>1. w \in Seq(Nat) /\ more \in Seq(Nat) /\ Len(more) = n /\ n \in Nat /\ w2 = w \o more
      BY <1>0
    <2>2. /\ w \o more \in Seq(Nat) /\ Len(w \o more) = Len(w) + Len(more)
          /\ \A i \in 1 .. Len(w) + Len(more) : (w \o more)[i] = IF i <= Len(w) THEN w[i] ELSE more[i - Len(w)]
      BY ONLY <2>1, ConcatProperties
    <2>3. /\ w2 \in Seq(Nat) /\ Len(w2) = Len(w) + n /\ Len(w) \in Nat /\ n \in Nat
          /\ \A i \in 1 .. Len(w) + n : w2[i] = IF i <= Len(w) THEN w[i] ELSE more[i - Len(w)]
      BY ONLY <2>1, <2>2
    <2>6. \A i \in 1 .. Len(w) : w2[i] = w[i]
      <3> SUFFICES ASSUME NEW i \in 1 .. Len(w) PROVE w2[i] = w[i]
        OBVIOUS
      <3>1. i \in 1 .. Len(w) + n /\ i <= Len(w)
        BY ONLY <2>3, i \in 1 .. Len(w)
      <3> QED
        BY ONLY <2>3, <3>1
    <2>4. \A i \in 1 .. n : Len(w) + i \in 1 .. Len(w) + n /\ ~(Len(w) + i <= Len(w)) /\ (Len(w) + i) - Len(w) = i
      BY ONLY <2>3
    <2>5. \A i \in 1 .. n : w2[Len(w) + i] = more[i]
      BY ONLY <2>3, <2>4
    <2> QED
      BY ONLY <2>3, <2>5, <2>6
  <1>8. \A i \in done + 1 .. done + n : d[i] = f[i] /\ i \in 1 .. Len(f)
    <2> TAKE i \in done + 1 .. done + n
    <2> DEFINE l == Len(f)
    <2>1. i \in 1 .. l
      <3>1. done \in Nat /\ left \in Nat /\ l = done + left /\ n <= left /\ n \in Nat /\ i \in done + 1 .. done + n
        BY <1>2, <1>5
      <3> HIDE DEF l, done, left
      <3> QED
        BY ONLY <3>1
    <2> QED
      BY <1>4, <2>1 DEF FrameOK
  <1>9. \A i, j \in 0 .. Len(st) : i <= j => off[i] <= off[j]
    BY OffsetsGrow
  <1>10. \A i \in 0 .. Len(st) : off[i] \in Nat
    <2>1. off \in [0 .. Len(st) -> Nat]
      BY DEF Offsets
    <2> QED
      BY ONLY <1>1, <2>1
  <1> HIDE DEF f, done, left, x
  <1>11. Written_(off, w2, st)
    <2> SUFFICES ASSUME NEW k \in 1 .. Len(st), NEW i \in 1 .. Len(st[k]), off[k - 1] + i <= Len(w2)
                 PROVE w2[off[k - 1] + i] = st[k][i]
      BY DEF Written_
    <2> DEFINE y == off[k - 1]
               z == off[k]
               e == y + i
    <2>1. k \in 0 .. Len(st) /\ k - 1 \in 0 .. Len(st) /\ k \in Nat /\ st[k] \in Seq(Nat) /\ i \in Nat /\ i >= 1
          /\ Len(st[k]) \in Nat
      <3>1. k \in 0 .. Len(st) /\ k - 1 \in 0 .. Len(st) /\ k \in Nat
        BY ONLY <1>1, k \in 1 .. Len(st)
      <3>2. st[k] \in Seq(Nat)
        BY ONLY st \in Seq(Seq(Nat)), k \in 1 .. Len(st)
      <3>3. Len(st[k]) \in Nat
        BY ONLY <3>2
      <3> DEFINE l == Len(st[k])
      <3>4. i \in 1 .. l /\ l \in Nat
        BY <3>3
      <3> HIDE DEF l
      <3>5. i \in Nat /\ i >= 1
        BY ONLY <3>4
      <3> QED
        BY <3>1, <3>2, <3>3, <3>5
    <2>2. z = y + Len(st[k]) /\ y \in Nat /\ z \in Nat /\ i <= Len(st[k])
      <3>1. \A j \in 1 .. Len(st) : off[j] = off[j - 1] + Len(st[j])
        BY DEF Offsets
      <3>2. z = y + Len(st[k]) /\ y \in Nat /\ z \in Nat
        BY ONLY <1>10, <2>1, <3>1, k \in 1 .. Len(st)
      <3>3. i <= Len(st[k])
        BY <2>1
      <3> QED
        BY <3>2, <3>3
    <2> HIDE DEF y, z
    <2>3. CASE e <= Len(w)
      <3>1. e \in 1 .. Len(w)
        BY ONLY <1>6, <2>1, <2>2, <2>3
      <3>2. w[e] = st[k][i]
        BY <1>1, <2>3 DEF Written_, y
      <3> QED
        BY <1>7, <3>1, <3>2 DEF y
    <2>4. CASE ~(e <= Len(w))
      <3>1. e > x + done /\ e <= x + done + n /\ e > x /\ e <= x + Len(f)
        <4>1. e <= Len(w2)
          BY DEF y
        <4>2. n <= left
          BY DEF left
        <4> HIDE DEF e
        <4>3. e \in Nat
          BY ONLY <2>1, <2>2 DEF e
        <4> QED
          BY <1>2, <1>5, <1>6, <1>7, <2>4, <4>1, <4>2, <4>3
      <3>2. ~(k - 1 < a)
        <4> SUFFICES ASSUME k - 1 < a PROVE FALSE
          OBVIOUS
        <4>1. k <= a
          BY <1>3, <2>1
        <4>2. z <= x
          BY <1>3, <1>9, <2>1, <4>1 DEF z, x
        <4> DEFINE l == Len(st[k])
        <4>3. z = y + l /\ e = y + i /\ i <= l /\ e > x /\ y \in Nat /\ z \in Nat /\ i \in Nat
          BY <2>1, <2>2, <3>1
        <4>4. l \in Nat /\ x \in Nat
          BY <2>1, <1>5
        <4> HIDE DEF l, e
        <4> QED
          BY ONLY <4>2, <4>3, <4>4
      <3>3. ~(k - 1 > a)
        <4> SUFFICES ASSUME k - 1 > a PROVE FALSE
          OBVIOUS
        <4>1. a + 1 <= k - 1
          BY <1>3, <2>1
        <4> DEFINE b == off[a + 1]
        <4>2. b <= y
          BY <1>3, <1>9, <2>1, <4>1 DEF y
        <4>3. b = x + Len(f) /\ x + Len(f) \in Nat
          BY ONLY <1>5
        <4>4. e = y + i /\ y \in Nat /\ i \in Nat /\ i >= 1 /\ e <= x + Len(f)
          BY <2>1, <2>2, <3>1
        <4> HIDE DEF b, e
        <4> QED
          BY ONLY <4>2, <4>3, <4>4
      <3>4. k - 1 = a /\ k = a + 1
        BY ONLY <1>3, <2>1, <3>2, <3>3
      <3>5. y = x /\ st[k] = f
        BY <3>4 DEF y, x, f
      <3> DEFINE g == i - done
      <3>6. g \in 1 .. n /\ e = Len(w) + g /\ done + g = i /\ i \in done + 1 .. done + n
        BY <1>2, <1>5, <1>6, <2>1, <2>2, <3>1, <3>5
      <3> HIDE DEF g
      <3>7. w2[e] = more[g] /\ more[g] = d[done + g]
        BY <1>0, <1>7, <3>6 DEF done
      <3>8. d[i] = f[i]
        BY <1>8, <3>6
      <3> QED
        BY <3>5, <3>6, <3>7, <3>8 DEF y
    <2> QED
      BY <2>3, <2>4
  <1>12. off[a + 1] = x + done + left
    BY <1>2, <1>5
  <1> QED
    BY <1>6, <1>7, <1>11, <1>12 DEF x, done, left, MoreWritten
-----------------------------------------------------------------------------
(* A turn of write_data. *)
TurnMem(s) == PutHead(s.mem, Head(s.out).pkt, SeqPos, Head(s.out).seq)
TurnFlat(s) == FlatSet(s.flat, Head(s.out).pkt, FlatHead(s.flat[Head(s.out).pkt], SeqPos, Head(s.out).seq))
TurnSize(s) == IF s.taken < Head(s.out).left THEN s.taken ELSE Head(s.out).left
TurnCells(m, p, done, size) == [i \in 1 .. size |-> CellAt(m, p, done + i - 1)]
Rest(node, n) == [node EXCEPT !.left = @ - n, !.done = @ + n]

TurnWire(s) == s.wire \o TurnCells(TurnMem(s), Head(s.out).pkt, Head(s.out).done, TurnSize(s))
TurnRest(s) == <<Rest(Head(s.out), TurnSize(s))>> \o Tail(s.out)
DropFlat(m, fl, p) == IF m.io[p].count = 1 THEN FlatSet(fl, p, NoFlat) ELSE fl
TurnSome(s) == [mem |-> TurnMem(s), flat |-> TurnFlat(s), wire |-> TurnWire(s), taken |-> 0, over |-> TRUE,
                out |-> TurnRest(s)]
TurnAll(s) == [mem |-> DropPacket(TurnMem(s), Head(s.out).pkt), wire |-> TurnWire(s),
               taken |-> s.taken - TurnSize(s), over |-> FALSE,
               flat |-> DropFlat(TurnMem(s), TurnFlat(s), Head(s.out).pkt), out |-> Tail(s.out)]

\* A turn leaves a rest of the packet or finishes it.
LEMMA TurnIs ==
    ASSUME NEW s, NEW t, t = Turn(s)
    PROVE t = IF TurnSize(s) < Head(s.out).left THEN TurnSome(s) ELSE TurnAll(s)
  BY DEF Turn, TurnWith, TurnSome, TurnAll, TurnMem, TurnFlat, TurnSize, TurnCells, TurnWire, TurnRest, Rest,
         FlatSet, DropFlat

\* The number is put into the head.
Numbered(fl, fl2, p, c) ==
    /\ fl2[p].data[SeqPos + 1] = c /\ Len(fl2[p].data) = Len(fl[p].data)
    /\ \A i \in 1 .. Len(fl[p].data) : i # SeqPos + 1 => fl2[p].data[i] = fl[p].data[i]
    /\ \A x \in Blocks \ {p} : fl2[x] = fl[x]

\* rbtP_set_seq, before a packet is written.
LEMMA NumberCore ==
    ASSUME NEW m, NEW own, NEW fl, NEW q, Core(m, own, fl, q), Len(q) > 0, NEW node, node = q[1],
           NEW p, p = node.pkt, NEW c, c = node.seq, NEW m2, m2 = PutHead(m, p, SeqPos, c),
           NEW fl2, fl2 = FlatSet(fl, p, FlatHead(fl[p], SeqPos, c))
    PROVE Core(m2, own, fl2, q) /\ p \in Blocks /\ m2.io[p].count > 0 /\ Numbered(fl, fl2, p, c)
  <1> DEFINE data == Bytes(fl)
             g == fl[p]
             e == g.data
             d == HeadSet(e, SeqPos, c)
             f == FlatHead(g, SeqPos, c)
  <1>1. fl \in [Blocks -> FlatPacket] /\ q \in Seq(Node) /\ MemOK(m, own, data) /\ data \in [Blocks -> Seq(Nat)]
    BY CoreIs
  <1>2. 1 \in 1 .. Len(q) /\ p \in Blocks /\ c \in Nat
    <2>1. 1 \in 1 .. Len(q)
      BY <1>1
    <2> QED
      BY <1>1, <2>1, NodeIs
  <1>3. m.io[p].count > 0
    <2>1. \A j \in 1 .. Len(q) : q[j].pkt = p => m.io[p].count > 0 /\ Cardinality(Times(q, p)) > 0
      BY ONLY <1>2, HeldBy, Core(m, own, fl, q)
    <2> QED
      BY <1>2, <2>1
  <1>4. /\ g \in FlatPacket /\ PacketFits(m.io[p], g) /\ Len(e) = m.io[p].size /\ data[p] = e
        /\ m.io[p].size \in Nat
    BY <1>2, <1>3, CorePacket
  <1>5. /\ e \in Seq(Nat) /\ Body(e) /\ HeadSize <= Len(e) /\ m.io[p].ptr = g.at /\ g.at \in Nat /\ g.untold \in Nat
        /\ e[1] + g.untold = Len(e)
    BY <1>4, FlatPacketIs DEF PacketFits
  <1>6. SeqPos \in Nat /\ SeqPos < HeadSize /\ SeqPos < m.io[p].size /\ SeqPos + 1 # 1 /\ 1 \in 1 .. Len(e)
    <2>1. SeqPos = 2 /\ HeadSize = 3
      BY DEF SeqPos, HeadSize
    <2> DEFINE l == Len(e)
    <2>2. l = m.io[p].size /\ m.io[p].size \in Nat /\ HeadSize <= l
      BY <1>4, <1>5
    <2> HIDE DEF l
    <2>3. SeqPos \in Nat /\ SeqPos < HeadSize /\ SeqPos < m.io[p].size /\ SeqPos + 1 # 1 /\ 1 \in 1 .. l
      BY ONLY <2>1, <2>2
    <2> QED
      BY <2>3 DEF l
  <1>7. f = [data |-> d, at |-> g.at, untold |-> g.untold] /\ d = HeadSet(e, SeqPos, c)
    BY <1>4, FlatHeadIs
  <1>8. fl2 = FlatSet(fl, p, f)
    OBVIOUS
  <1> HIDE DEF data, g, e, d, f
  <1>9. /\ d \in Seq(Nat) /\ Len(d) = Len(e) /\ d[SeqPos + 1] = c /\ SeqPos + 1 \in 1 .. Len(e)
        /\ \A i \in 1 .. Len(e) : i # SeqPos + 1 => d[i] = e[i]
        /\ Body(e) => Body(d)
    <2> DEFINE at == SeqPos
    <2>1. /\ e \in Seq(Nat) /\ at \in Nat /\ at < HeadSize /\ HeadSize <= Len(e) /\ c \in Nat
          /\ d = HeadSet(e, at, c)
      BY <1>2, <1>5, <1>6, <1>7
    <2> HIDE DEF at
    <2>2. /\ d \in Seq(Nat) /\ Len(d) = Len(e) /\ d[at + 1] = c /\ at + 1 \in 1 .. Len(e)
          /\ \A i \in 1 .. Len(e) : i # at + 1 => d[i] = e[i]
          /\ Body(e) => Body(d)
      BY ONLY <2>1, HeadSetIs
    <2> QED
      BY <2>2 DEF at
  <1>10. f \in FlatPacket /\ f.data = d /\ f.at = g.at /\ f.untold = g.untold
    <2>1. f \in FlatPacket
      BY <1>5, <1>7, <1>9, FlatPacketOf
    <2> QED
      BY <1>7, <2>1
  <1>11. /\ MemOK(m2, own, DataSet(data, p, HeadSet(data[p], SeqPos, c))) /\ Only(m, own, m2, own, p)
         /\ m2.io[p].ptr = m.io[p].ptr /\ m2.io[p].size = m.io[p].size /\ m2.io[p].count > 0
    <2>1. MemOK(m, own, data) /\ p \in Blocks /\ m.io[p].count > 0 /\ SeqPos \in Nat /\ SeqPos < m.io[p].size
          /\ c \in Nat /\ m2 = PutHead(m, p, SeqPos, c)
      BY <1>1, <1>2, <1>3, <1>6
    <2> QED
      BY ONLY <2>1, PutHeadIs
  <1>12. MemOK(m2, own, DataSet(Bytes(fl), p, f.data))
    BY <1>4, <1>7, <1>10, <1>11 DEF data
  <1>13. PacketFits(m2.io[p], f)
    BY <1>5, <1>6, <1>9, <1>10, <1>11 DEF PacketFits
  <1>14. Core(m2, own, fl2, q)
    BY <1>2, <1>3, <1>8, <1>10, <1>11, <1>12, <1>13, PacketChanged
  <1>15. fl2[p] = f /\ \A x \in Blocks \ {p} : fl2[x] = fl[x]
    <2>1. fl \in [Blocks -> FlatPacket] /\ p \in Blocks /\ f \in FlatPacket /\ fl2 = FlatSet(fl, p, f)
      BY <1>1, <1>2, <1>8, <1>10
    <2> QED
      BY ONLY <2>1, FlatSetIs
  <1> QED
    BY <1>2, <1>9, <1>10, <1>11, <1>14, <1>15 DEF e, g, Numbered

\* It does not matter that the number is that of another sending.
LEMMA FramesNumbered ==
    ASSUME NEW q \in Seq(Node), NEW st \in Seq(Seq(Nat)), NEW fl, Len(q) <= Len(st), FramesOK(fl, q, st), NEW fl2,
           NEW p \in Blocks, NEW c,
           Numbered(fl, fl2, p, c)
    PROVE FramesOK(fl2, q, st)
  <1> SUFFICES ASSUME NEW j \in 1 .. Len(q)
               PROVE FrameOK(fl2[q[j].pkt].data, q[j], st[Len(st) - Len(q) + j])
    BY DEF FramesOK
  <1> DEFINE f == st[Len(st) - Len(q) + j]
             x == q[j].pkt
             d == fl[x].data
             d2 == fl2[x].data
  <1>1. FrameOK(d, q[j], f)
    BY DEF FramesOK
  <1>2. x \in Blocks
    BY NodeIs
  <1>3. Len(d2) = Len(d) /\ \A i \in 1 .. Len(d) : i # SeqPos + 1 => d2[i] = d[i]
    <2>1. CASE x = p
      BY <2>1 DEF Numbered
    <2>2. CASE x # p
      BY <1>2, <2>2 DEF Numbered
    <2> QED
      BY <2>1, <2>2
  <1> HIDE DEF f, d, d2, x
  <1>4. FrameOK(d2, q[j], f)
    BY <1>1, <1>3 DEF FrameOK
  <1> QED
    BY <1>4 DEF d2, x, f

\* What is read for the socket.
LEMMA CellsAre ==
    ASSUME NEW m, NEW own, NEW fl, NEW q, Core(m, own, fl, q), NEW p \in Blocks, m.io[p].count > 0,
           NEW i \in Nat, K(i) < Len(own[p])
    PROVE CellAt(m, p, i) \in Nat /\ (i < Len(fl[p].data) => CellAt(m, p, i) = fl[p].data[i + 1])
  <1> DEFINE data == Bytes(fl)
             b == own[p][K(i) + 1]
  <1>1. MemOK(m, own, data) /\ m \in Memory /\ Chains(m, own)
    BY CoreIs
  <1>2. /\ Len(fl[p].data) = m.io[p].size /\ m.io[p].size \in Nat /\ data[p] = fl[p].data
    BY CorePacket
  <1> HIDE DEF data
  <1>3. Threaded(own[p], p, m.next)
    BY <1>1, LiveIs
  <1>4. CellAt(m, p, i) = m.cell[b][P(i)] /\ b \in Blocks /\ P(i) \in 0 .. BlockSize - 1
    <2>1. Chains(m, own) /\ p \in Blocks /\ Threaded(own[p], p, m.next) /\ i \in Nat /\ K(i) < Len(own[p])
      BY <1>1, <1>3
    <2> QED
      BY ONLY <2>1, SpotIs
  <1> HIDE DEF b
  <1>5. CellAt(m, p, i) \in Nat
    <2>1. m.cell \in [Blocks -> [0 .. BlockSize - 1 -> Nat]]
      BY <1>1, MemoryIs
    <2> DEFINE pos == P(i)
    <2> HIDE DEF pos
    <2>2. m.cell[b][pos] \in Nat
      BY <1>4, <2>1 DEF pos
    <2> QED
      BY <1>4, <2>2 DEF pos
  <1>6. ASSUME i < Len(fl[p].data) PROVE CellAt(m, p, i) = fl[p].data[i + 1]
    <2>1. i \in 0 .. m.io[p].size - 1
      BY <1>2, <1>6
    <2>2. m.cell[own[p][K(i) + 1]][P(i)] = data[p][i + 1]
      BY <1>1, <2>1, HeldIs
    <2> QED
      BY <1>2, <1>4, <2>2 DEF b
  <1> QED
    BY <1>5, <1>6

LEMMA RestIs ==
    ASSUME NEW node \in Node, NEW n \in Nat, n <= node.left, NEW r, r = Rest(node, n)
    PROVE r \in Node /\ r.pkt = node.pkt /\ r.seq = node.seq /\ r.left = node.left - n /\ r.done = node.done + n
  <1> DEFINE x == node.left - n
             y == node.done + n
             r1 == [node EXCEPT !.left = x]
  <1>1. node = [pkt |-> node.pkt, left |-> node.left, done |-> node.done, seq |-> node.seq]
    BY DEF Node
  <1>2. r = [r1 EXCEPT !.done = y]
    BY DEF Rest
  <1>3. x \in Nat /\ y \in Nat /\ node.pkt \in Blocks /\ node.seq \in Nat
    BY NodeIs
  <1> HIDE DEF x, y
  <1>4. r1 = [pkt |-> node.pkt, left |-> x, done |-> node.done, seq |-> node.seq]
    BY <1>1
  <1> HIDE DEF r1
  <1>5. r = [pkt |-> node.pkt, left |-> x, done |-> y, seq |-> node.seq]
    BY <1>2, <1>4
  <1> QED
    BY <1>3, <1>5 DEF Node, x, y

LEMMA FirstRest ==
    ASSUME NEW q \in Seq(Node), Len(q) > 0, NEW r \in Node, NEW q2, q2 = <<r>> \o Tail(q)
    PROVE q2 \in Seq(Node) /\ Len(q2) = Len(q) /\ q2[1] = r /\ \A j \in 2 .. Len(q) : q2[j] = q[j]
  <1>1. Tail(q) \in Seq(Node) /\ Len(Tail(q)) = Len(q) - 1 /\ \A j \in 1 .. Len(q) - 1 : Tail(q)[j] = q[j + 1]
    OBVIOUS
  <1> DEFINE t == Tail(q)
             u == <<r>>
  <1>2. u \in Seq(Node) /\ Len(u) = 1 /\ u[1] = r /\ t \in Seq(Node)
    BY <1>1
  <1> HIDE DEF t, u
  <1>3. /\ u \o t \in Seq(Node) /\ Len(u \o t) = Len(u) + Len(t)
        /\ \A i \in 1 .. Len(u) + Len(t) : (u \o t)[i] = IF i <= Len(u) THEN u[i] ELSE t[i - Len(u)]
    BY ONLY <1>2, ConcatProperties
  <1>4. /\ q2 \in Seq(Node) /\ Len(q2) = 1 + Len(t)
        /\ \A i \in 1 .. 1 + Len(t) : q2[i] = IF i <= 1 THEN u[i] ELSE t[i - 1]
    BY <1>2, <1>3 DEF t, u
  <1>5. Len(t) = Len(q) - 1 /\ Len(q) \in Nat /\ \A j \in 1 .. Len(q) - 1 : t[j] = q[j + 1]
    BY <1>1 DEF t
  <1>6. Len(q2) = Len(q) /\ 1 \in 1 .. 1 + Len(t) /\ 1 <= 1
    BY <1>4, <1>5
  <1>7. \A j \in 2 .. Len(q) : j \in 1 .. 1 + Len(t) /\ ~(j <= 1) /\ j - 1 \in 1 .. Len(q) - 1 /\ (j - 1) + 1 = j
    BY ONLY <1>5
  <1>8. \A j \in 2 .. Len(q) : q2[j] = q[j]
    BY ONLY <1>4, <1>5, <1>7
  <1> QED
    BY <1>2, <1>4, <1>6, <1>8

\* Not all of the first packet was written.
LEMMA RestCore ==
    ASSUME NEW m, NEW own, NEW fl, NEW q, Core(m, own, fl, q), Len(q) > 0, NEW n \in Nat, n < q[1].left,
           NEW r, r = Rest(q[1], n), NEW q2, q2 = <<r>> \o Tail(q)
    PROVE Core(m, own, fl, q2)
  <1>1. q \in Seq(Node) /\ 1 \in 1 .. Len(q) /\ q[1] \in Node
    BY CoreIs
  <1>2. q[1].left \in Nat /\ q[1].done \in Nat /\ n <= q[1].left
    BY <1>1, NodeIs
  <1>3. r \in Node /\ r.pkt = q[1].pkt /\ r.seq = q[1].seq /\ r.left = q[1].left - n /\ r.done = q[1].done + n
    BY <1>1, <1>2, RestIs
  <1>4. q2 \in Seq(Node) /\ Len(q2) = Len(q) /\ q2[1] = r /\ \A j \in 2 .. Len(q) : q2[j] = q[j]
    BY <1>1, <1>3, FirstRest
  <1>5. \A j \in 1 .. Len(q) : q2[j].pkt = q[j].pkt
    <2> TAKE j \in 1 .. Len(q)
    <2>1. j = 1 \/ j \in 2 .. Len(q)
      BY <1>1
    <2> QED
      BY <1>3, <1>4, <2>1
  <1>6. \A p : Times(q2, p) = Times(q, p)
    BY <1>4, <1>5 DEF Times
  <1>7. RefsOK(m, q2)
    BY <1>6 DEF Core, RefsOK
  <1>8. QueueOK(own, q2)
    <2> SUFFICES ASSUME NEW j \in 1 .. Len(q)
                 PROVE /\ q2[j].left > 0 /\ K(q2[j].done + q2[j].left - 1) < Len(own[q2[j].pkt])
                       /\ j > 1 => q2[j].done = 0
      BY <1>4 DEF QueueOK
    <2>1. /\ q[j].left > 0 /\ K(q[j].done + q[j].left - 1) < Len(own[q[j].pkt])
          /\ j > 1 => q[j].done = 0
      BY DEF Core, QueueOK
    <2>2. CASE j = 1
      <3>1. r.left > 0 /\ r.done + r.left - 1 = q[1].done + q[1].left - 1
        BY <1>2, <1>3
      <3> QED
        BY <1>3, <1>4, <2>1, <2>2, <3>1
    <2>3. CASE j \in 2 .. Len(q)
      BY <1>4, <2>1, <2>3
    <2> QED
      BY <1>1, <2>2, <2>3
  <1> QED
    BY <1>4, <1>7, <1>8 DEF Core

LEMMA TailIs ==
    ASSUME NEW q \in Seq(Node), Len(q) > 0, NEW r, r = Tail(q)
    PROVE /\ r \in Seq(Node) /\ Len(r) = Len(q) - 1 /\ Len(q) \in Nat
          /\ \A j \in 1 .. Len(r) : r[j] = q[j + 1] /\ j + 1 \in 1 .. Len(q) /\ j + 1 > 1
  <1>1. r \in Seq(Node) /\ Len(r) = Len(q) - 1 /\ Len(q) \in Nat
    OBVIOUS
  <1>2. \A j \in 1 .. Len(r) : r[j] = q[j + 1]
    BY <1>1
  <1>3. \A j \in 1 .. Len(r) : j + 1 \in 1 .. Len(q) /\ j + 1 > 1
    BY ONLY <1>1
  <1> QED
    BY <1>1, <1>2, <1>3

\* All of it was written.
LEMMA DoneCore ==
    ASSUME NEW m, NEW own, NEW fl, NEW q, Core(m, own, fl, q), Len(q) > 0, NEW p, p = q[1].pkt,
           NEW q2, q2 = Tail(q), NEW m2, m2 = DropPacket(m, p),
           NEW fl2, fl2 = DropFlat(m, fl, p)
    PROVE Kept(m2, fl2, q2) /\ SameFlats(fl, fl2, q2)
  <1> SUFFICES (\E own2 : Core(m2, own2, fl2, q2)) /\ \A j \in 1 .. Len(q2) : fl2[q2[j].pkt] = fl[q2[j].pkt]
    BY DEF Kept, SameFlats
  <1> DEFINE data == Bytes(fl)
  <1>1. /\ MemOK(m, own, data) /\ fl \in [Blocks -> FlatPacket] /\ q \in Seq(Node) /\ 1 \in 1 .. Len(q)
    BY CoreIs
  <1>2. p \in Blocks
    BY <1>1, NodeIs
  <1>3. /\ m.io[p].count \in Nat /\ m.io[p].mine \in Nat /\ Cardinality(Times(q, p)) \in Nat
        /\ m.io[p].count = m.io[p].mine + Cardinality(Times(q, p))
        /\ \A j \in 1 .. Len(q) : q[j].pkt = p => m.io[p].count > 0 /\ Cardinality(Times(q, p)) > 0
    BY ONLY <1>2, HeldBy, Core(m, own, fl, q)
  <1>4. m.io[p].count > 0 /\ Cardinality(Times(q, p)) > 0
    BY <1>1, <1>3
  <1>5. /\ q2 \in Seq(Node) /\ Len(q2) = Len(q) - 1 /\ Len(q) \in Nat
        /\ \A j \in 1 .. Len(q2) : q2[j] = q[j + 1] /\ j + 1 \in 1 .. Len(q) /\ j + 1 > 1
    BY <1>1, TailIs
  <1>6. PacketsOK(m, fl) /\ RefsOK(m, q) /\ QueueOK(own, q)
    BY DEF Core
  <1>7. \A x : Cardinality(Times(q2, x)) = Cardinality(Times(q, x)) - IF p = x THEN 1 ELSE 0
    BY <1>1, TimesTail
  <1>8. Cardinality(Times(q2, p)) = Cardinality(Times(q, p)) - 1
    BY <1>7
  <1>9. \A x \in Blocks \ {p} : m.io[x].count = m.io[x].mine + Cardinality(Times(q2, x))
    <2> TAKE x \in Blocks \ {p}
    <2>1. m.io[x].count = m.io[x].mine + Cardinality(Times(q, x))
      BY <1>6 DEF RefsOK
    <2>2. Cardinality(Times(q2, x)) = Cardinality(Times(q, x)) - 0
      BY <1>7
    <2>3. Cardinality(Times(q, x)) \in Nat
      BY <1>1, TimesFinite
    <2> QED
      BY <2>1, <2>2, <2>3
  <1>10. QueueOK(own, q2)
    <2> SUFFICES ASSUME NEW j \in 1 .. Len(q2)
                 PROVE /\ q2[j].left > 0 /\ K(q2[j].done + q2[j].left - 1) < Len(own[q2[j].pkt])
                       /\ q2[j].done = 0
      BY DEF QueueOK
    <2> DEFINE i == j + 1
    <2>1. i \in 1 .. Len(q) /\ i > 1 /\ q2[j] = q[i]
      BY <1>5
    <2> HIDE DEF i
    <2> QED
      BY <1>6, <2>1 DEF QueueOK
  <1> HIDE DEF data
  <1>11. CASE m.io[p].count > 1
    <2>1. fl2 = fl
      BY <1>11 DEF DropFlat
    <2>2. /\ MemOK(m2, own, data) /\ \A x \in Blocks \ {p} : m2.io[x] = m.io[x]
          /\ m2.io[p].count = m.io[p].count - 1 /\ m2.io[p].mine = m.io[p].mine
          /\ m2.io[p].ptr = m.io[p].ptr /\ m2.io[p].size = m.io[p].size /\ m2.made = m.made
      BY <1>1, <1>2, <1>11, DropMoreIs
    <2>3. PacketsOK(m2, fl)
      <3> SUFFICES ASSUME NEW x \in Blocks, m2.io[x].count > 0 PROVE PacketFits(m2.io[x], fl[x])
        BY DEF PacketsOK, PacketFits
      <3>1. m.io[x].count > 0 /\ m2.io[x].ptr = m.io[x].ptr
        BY <1>4, <2>2
      <3> QED
        BY <1>6, <3>1 DEF PacketsOK, PacketFits
    <2>4. RefsOK(m2, q2)
      <3> SUFFICES ASSUME NEW x \in Blocks PROVE m2.io[x].count = m2.io[x].mine + Cardinality(Times(q2, x))
        BY DEF RefsOK
      <3>1. CASE x = p
        BY <1>3, <1>8, <2>2, <3>1
      <3>2. CASE x # p
        BY <1>9, <2>2, <3>2
      <3> QED
        BY <3>1, <3>2
    <2>5. Core(m2, own, fl, q2)
      BY <1>1, <1>5, <1>10, <2>2, <2>3, <2>4 DEF Core, data
    <2> QED
      BY <2>1, <2>5
  <1>12. CASE ~(m.io[p].count > 1)
    <2>1. m.io[p].count = 1 /\ Cardinality(Times(q2, p)) = 0
      BY <1>3, <1>4, <1>8, <1>12
    <2>2. \A j \in 1 .. Len(q2) : q2[j].pkt # p /\ q2[j].pkt \in Blocks
      <3>1. \A j \in 1 .. Len(q2) : q2[j].pkt # p
        BY ONLY <1>5, <2>1, TimesNone
      <3>2. \A j \in 1 .. Len(q2) : q2[j] \in Node
        BY ONLY <1>5
      <3> QED
        BY <3>1, <3>2, NodeIs
    <2>3. fl2 = FlatSet(fl, p, NoFlat)
      BY <2>1 DEF DropFlat
    <2>4. \E own2 : Core(m2, own2, fl2, q2)
      <3>1. /\ MemOK(m, own, Bytes(fl)) /\ fl \in [Blocks -> FlatPacket] /\ q2 \in Seq(Node) /\ PacketsOK(m, fl)
            /\ QueueOK(own, q2) /\ p \in Blocks /\ m.io[p].count > 0 /\ ~(m.io[p].count > 1)
            /\ (\A j \in 1 .. Len(q2) : q2[j].pkt # p)
            /\ m2 = DropPacket(m, p) /\ fl2 = FlatSet(fl, p, NoFlat)
        BY <1>1, <1>2, <1>4, <1>5, <1>6, <1>10, <1>12, <2>2, <2>3 DEF data
      <3> QED
        BY ONLY <1>9, <3>1, GoneCore
    <2>5. \A j \in 1 .. Len(q2) : fl2[q2[j].pkt] = fl[q2[j].pkt]
      <3>1. \A x \in Blocks \ {p} : fl2[x] = fl[x]
        BY <1>1, <1>2, <2>3, NoFlatIs, FlatSetIs
      <3> QED
        BY <2>2, <3>1
    <2> QED
      BY <2>4, <2>5
  <1> QED
    BY <1>11, <1>12

\* The cells for a turn are those of the packet, even if there are no more so many in it.
LEMMA TurnCellsAre ==
    ASSUME NEW m, NEW own, NEW fl, NEW q, Core(m, own, fl, q), Len(q) > 0, NEW node, node = q[1],
           NEW p, p = node.pkt, m.io[p].count > 0, NEW n \in Nat, n <= node.left,
           NEW more, more = TurnCells(m, p, node.done, n)
    PROVE more \in Seq(Nat) /\ (node.done + node.left = Len(fl[p].data) => IsPart(more, fl[p].data, node.done, n))
  <1> DEFINE done == node.done
             left == node.left
             d == fl[p].data
             l == Len(own[p])
  <1>1. q \in Seq(Node) /\ 1 \in 1 .. Len(q)
    BY CoreIs
  <1>2. done \in Nat /\ left \in Nat /\ p \in Blocks
    BY <1>1, NodeIs
  <1>3. left > 0 /\ K(done + left - 1) < l
    BY <1>1 DEF Core, QueueOK
  <1>4. l \in Nat
    <2> DEFINE data == Bytes(fl)
    <2>1. MemOK(m, own, data)
      BY CoreIs
    <2> HIDE DEF data
    <2> QED
      BY <1>2, <2>1, LiveIs
  <1>5. \A i \in 1 .. n : done + i - 1 \in Nat /\ K(done + i - 1) < l
    <2> TAKE i \in 1 .. n
    <2> DEFINE a == done + i - 1
               b == done + left - 1
    <2>1. a \in Nat /\ b \in Nat /\ a <= b
      <3>1. i \in Nat /\ i >= 1 /\ i <= n /\ n <= left
        OBVIOUS
      <3> HIDE DEF done, left
      <3> QED
        BY <1>2, <3>1
    <2> HIDE DEF a, b, done, left, l
    <2>2. K(a) <= K(b) /\ K(a) \in Nat /\ K(b) \in Nat
      BY <2>1, Spots
    <2>3. K(b) < l
      BY <1>3 DEF b
    <2> DEFINE x == K(a)
               y == K(b)
    <2> HIDE DEF x, y
    <2>4. x < l
      BY <1>4, <2>2, <2>3 DEF x, y
    <2> QED
      BY <2>1, <2>4 DEF a, x
  <1>6. \A i \in 1 .. n : CellAt(m, p, done + i - 1) \in Nat
                          /\ (done + i - 1 < Len(d) => CellAt(m, p, done + i - 1) = d[(done + i - 1) + 1])
    <2> TAKE i \in 1 .. n
    <2> DEFINE a == done + i - 1
    <2>1. Core(m, own, fl, q) /\ p \in Blocks /\ m.io[p].count > 0 /\ a \in Nat /\ K(a) < Len(own[p])
      BY <1>2, <1>5
    <2> HIDE DEF a
    <2>2. CellAt(m, p, a) \in Nat /\ (a < Len(fl[p].data) => CellAt(m, p, a) = fl[p].data[a + 1])
      BY ONLY <2>1, CellsAre
    <2> QED
      BY <2>2 DEF a
  <1>7. more = [i \in 1 .. n |-> CellAt(m, p, done + i - 1)]
    BY DEF TurnCells
  <1> HIDE DEF done, left, d
  <1>8. more \in Seq(Nat) /\ Len(more) = n /\ \A i \in 1 .. n : more[i] = CellAt(m, p, done + i - 1)
    <2>1. more \in [1 .. n -> Nat]
      BY <1>6, <1>7
    <2>2. more \in Seq(Nat)
      BY <2>1
    <2>3. Len(more) = n
      BY <1>7
    <2> QED
      BY <1>7, <2>2, <2>3
  <1>9. ASSUME done + left = Len(d), NEW i \in 1 .. n PROVE more[i] = d[done + i]
    <2>1. done + i - 1 < Len(d) /\ (done + i - 1) + 1 = done + i
      <3>1. i \in Nat /\ i >= 1 /\ i <= n /\ n <= left
        BY DEF left
      <3> DEFINE x == Len(d)
      <3>2. x = done + left
        BY <1>9
      <3> HIDE DEF x
      <3>3. done + i - 1 < x /\ (done + i - 1) + 1 = done + i
        BY <1>2, <3>1, <3>2
      <3> QED
        BY <3>3 DEF x
    <2> QED
      BY <1>6, <1>8, <2>1
  <1> QED
    BY <1>8, <1>9 DEF done, left, d, IsPart

LEMMA HeadIs ==
    ASSUME NEW q \in Seq(Node), Len(q) > 0
    PROVE Head(q) = q[1] /\ q[1] \in Node /\ q # <<>> /\ 1 \in 1 .. Len(q)
  OBVIOUS

\* A turn of write_data keeps the packets and the queue.
LEMMA TurnKeeps ==
    ASSUME NEW s, NEW own, Core(s.mem, own, s.flat, s.out), s.wire \in Seq(Nat), s.taken \in Nat, Len(s.out) > 0,
           NEW t, t = Turn(s)
    PROVE /\ Kept(t.mem, t.flat, t.out)
          /\ t.wire \in Seq(Nat) /\ t.taken \in Nat /\ (t.over = TRUE \/ (t.over = FALSE /\ Len(t.out) = Len(s.out) - 1))
  <1> DEFINE q == s.out
             node == Head(q)
             p == node.pkt
             m == TurnMem(s)
             f == TurnFlat(s)
             size == TurnSize(s)
             more == TurnCells(m, p, node.done, size)
             taken == s.taken
             w == s.wire
  <1>1. q \in Seq(Node)
    BY CoreIs
  <1>2. node = q[1] /\ node \in Node /\ q # <<>>
    BY <1>1, HeadIs
  <1>3. node.left \in Nat /\ node.done \in Nat /\ taken \in Nat /\ w \in Seq(Nat)
    BY <1>2, NodeIs
  <1>4. size = IF taken < node.left THEN taken ELSE node.left
    BY DEF TurnSize
  <1>5. m = PutHead(s.mem, p, SeqPos, node.seq) /\ f = FlatSet(s.flat, p, FlatHead(s.flat[p], SeqPos, node.seq))
    BY DEF TurnMem, TurnFlat
  <1>6. t = IF size < node.left THEN TurnSome(s) ELSE TurnAll(s)
    BY TurnIs
  <1>7. Core(m, own, f, q) /\ p \in Blocks /\ m.io[p].count > 0
    <2> DEFINE c == node.seq
               m0 == s.mem
               fl == s.flat
    <2>1. Core(m0, own, fl, q) /\ Len(q) > 0 /\ node = q[1] /\ p = node.pkt /\ c = node.seq /\ m = PutHead(m0, p, SeqPos, c)
          /\ f = FlatSet(fl, p, FlatHead(fl[p], SeqPos, c))
      BY <1>2, <1>5
    <2> HIDE DEF c, m0, fl, p, m, f, q, node
    <2>2. Core(m, own, f, q)
      BY ONLY <2>1, NumberCore
    <2>3. p \in Blocks
      BY ONLY <2>1, NumberCore
    <2>4. m.io[p].count > 0
      BY ONLY <2>1, NumberCore
    <2> QED
      BY <2>2, <2>3, <2>4
  <1>8. size \in Nat /\ size <= node.left
    <2> HIDE DEF size, taken, node
    <2> QED
      BY <1>3, <1>4
  <1>9. more \in Seq(Nat)
    <2> DEFINE done == node.done
    <2>1. Core(m, own, f, q) /\ Len(q) > 0 /\ node = q[1] /\ p = node.pkt /\ m.io[p].count > 0 /\ size \in Nat
          /\ size <= node.left /\ more = TurnCells(m, p, node.done, size)
      BY <1>2, <1>7, <1>8
    <2> HIDE DEF more, p, m, f, q, node, size
    <2> QED
      BY ONLY <2>1, TurnCellsAre
  <1>10. w \o more \in Seq(Nat)
    <2> HIDE DEF more, w
    <2> QED
      BY <1>3, <1>9
  <1>11. TurnWire(s) = w \o more
    BY DEF TurnWire
  <1>12. CASE size < node.left
    <2> DEFINE r == Rest(node, size)
               q2 == <<r>> \o Tail(q)
    <2>1. t = [mem |-> m, flat |-> f, wire |-> TurnWire(s), taken |-> 0, over |-> TRUE, out |-> q2]
      BY <1>6, <1>12 DEF TurnSome, TurnRest
    <2>2. Core(m, own, f, q2)
      <3>1. Core(m, own, f, q) /\ Len(q) > 0 /\ size \in Nat /\ size < q[1].left /\ r = Rest(q[1], size)
            /\ q2 = <<r>> \o Tail(q)
        BY <1>2, <1>7, <1>8, <1>12
      <3> HIDE DEF r, q2, m, f, q, size
      <3> QED
        BY ONLY <3>1, RestCore
    <2> HIDE DEF m, f, q2, q
    <2>8. Kept(m, f, q2)
      BY <2>2 DEF Kept
    <2>3. t.mem = m /\ t.flat = f /\ t.wire = TurnWire(s) /\ t.taken = 0 /\ t.over = TRUE /\ t.out = q2
      BY ONLY <2>1
    <2>4. t.wire \in Seq(Nat) /\ t.taken \in Nat
      BY <1>10, <1>11, <2>3
    <2> QED
      BY ONLY <2>3, <2>4, <2>8
  <1>13. CASE ~(size < node.left)
    <2> DEFINE m2 == DropPacket(m, p)
               f2 == DropFlat(m, f, p)
               q2 == Tail(q)
               less == taken - size
    <2>1. t = [mem |-> m2, wire |-> TurnWire(s), taken |-> less, over |-> FALSE, flat |-> f2, out |-> q2]
      BY <1>6, <1>13 DEF TurnAll
    <2>2. Core(m, own, f, q) /\ Len(q) > 0 /\ p = q[1].pkt /\ q2 = Tail(q) /\ m2 = DropPacket(m, p)
          /\ f2 = DropFlat(m, f, p)
      BY <1>2, <1>7
    <2>3. less \in Nat
      <3> HIDE DEF taken, size, node
      <3> QED
        BY <1>3, <1>4
    <2>4. Len(q2) = Len(q) - 1
      BY <1>1
    <2> HIDE DEF m2, f2, q2, p, m, f, q, less
    <2>5. Kept(m2, f2, q2)
      BY ONLY <2>2, DoneCore
    <2>6. t.mem = m2 /\ t.flat = f2 /\ t.wire = TurnWire(s) /\ t.taken = less /\ t.over = FALSE /\ t.out = q2
      BY ONLY <2>1
    <2>7. t.wire \in Seq(Nat) /\ t.taken \in Nat
      BY <1>10, <1>11, <2>3, <2>6
    <2>8. Len(t.out) = Len(s.out) - 1
      BY <2>4, <2>6 DEF q
    <2> QED
      BY ONLY <2>5, <2>6, <2>7, <2>8
  <1> QED
    BY <1>12, <1>13

\* Less than the first packet was written.
LEMMA SomeWired ==
    ASSUME NEW st \in Seq(Seq(Nat)), NEW q \in Seq(Node), Len(q) > 0, Len(q) <= Len(st), NEW off, NEW fl,
           FramesOK(fl, q, st), NEW n \in Nat, n <= q[1].left, NEW r, r = Rest(q[1], n), NEW q2, q2 = <<r>> \o Tail(q),
           NEW w \in Seq(Nat), Len(w) = off[Len(st) - Len(q)] + q[1].done, off[Len(st) - Len(q)] \in Nat,
           NEW w2, Written_(off, w2, st), Len(w2) = Len(w) + n
    PROVE WireOK(off, q2, w2, st) /\ FramesOK(fl, q2, st)
  <1>1. 1 \in 1 .. Len(q) /\ q[1] \in Node
    OBVIOUS
  <1>2. q[1].left \in Nat /\ q[1].done \in Nat
    BY <1>1, NodeIs
  <1>3. r \in Node /\ r.pkt = q[1].pkt /\ r.seq = q[1].seq /\ r.left = q[1].left - n /\ r.done = q[1].done + n
    BY <1>1, RestIs
  <1>4. q2 \in Seq(Node) /\ Len(q2) = Len(q) /\ q2[1] = r /\ \A j \in 2 .. Len(q) : q2[j] = q[j]
    BY <1>3, FirstRest
  <1>5. WireOK(off, q2, w2, st)
    <2> DEFINE x == off[Len(st) - Len(q)]
               done == q[1].done
               l == Len(w)
    <2>1. l = x + done /\ l \in Nat /\ x \in Nat /\ done \in Nat /\ n \in Nat /\ Len(w2) = l + n
      BY <1>2
    <2> HIDE DEF x, done, l
    <2>2. Len(w2) = x + (done + n)
      BY ONLY <2>1
    <2>3. q2 # <<>> /\ q2[1].done = done + n
      BY <1>3, <1>4 DEF done
    <2>4. Len(w2) = off[Len(st) - Len(q2)] + q2[1].done
      BY <1>4, <2>2, <2>3 DEF x
    <2> QED
      BY <1>4, <2>3, <2>4 DEF WireOK
  <1>6. FramesOK(fl, q2, st)
    <2> SUFFICES ASSUME NEW j \in 1 .. Len(q)
                 PROVE FrameOK(fl[q2[j].pkt].data, q2[j], st[Len(st) - Len(q) + j])
      BY <1>4 DEF FramesOK
    <2> DEFINE f == st[Len(st) - Len(q) + j]
               d == fl[q[j].pkt].data
    <2>1. FrameOK(d, q[j], f)
      BY DEF FramesOK
    <2> HIDE DEF f, d
    <2>2. q2[j].pkt = q[j].pkt /\ q2[j].seq = q[j].seq /\ q2[j].done + q2[j].left = q[j].done + q[j].left
      <3>1. CASE j = 1
        BY <1>2, <1>3, <1>4, <3>1
      <3>2. CASE j \in 2 .. Len(q)
        BY <1>4, <3>2
      <3> QED
        BY <1>1, <3>1, <3>2
    <2>3. FrameOK(d, q2[j], f)
      BY <2>1, <2>2 DEF FrameOK
    <2> QED
      BY <2>2, <2>3 DEF f, d
  <1> QED
    BY <1>5, <1>6

\* All of it was written.
LEMMA AllWired ==
    ASSUME NEW st \in Seq(Seq(Nat)), NEW q \in Seq(Node), Len(q) > 0, Len(q) <= Len(st), NEW off, NEW fl,
           FramesOK(fl, q, st), NEW q2, q2 = Tail(q), NEW own, QueueOK(own, q), NEW fl2, SameFlats(fl, fl2, q2),
           NEW w \in Seq(Nat), Len(w) = off[Len(st) - Len(q)] + q[1].done, off[Len(st) - Len(q)] \in Nat,
           off[Len(st) - Len(q) + 1] = off[Len(st) - Len(q)] + q[1].done + q[1].left,
           NEW w2, Written_(off, w2, st), Len(w2) = Len(w) + q[1].left
    PROVE WireOK(off, q2, w2, st) /\ FramesOK(fl2, q2, st)
  <1>1. /\ q2 \in Seq(Node) /\ Len(q2) = Len(q) - 1 /\ Len(q) \in Nat
        /\ \A j \in 1 .. Len(q2) : q2[j] = q[j + 1] /\ j + 1 \in 1 .. Len(q) /\ j + 1 > 1
    BY TailIs
  <1>2. q[1].left \in Nat /\ q[1].done \in Nat /\ Len(st) \in Nat
    <2>1. q[1] \in Node
      OBVIOUS
    <2> QED
      BY <2>1, NodeIs
  <1>3. Len(st) - Len(q2) = Len(st) - Len(q) + 1 /\ Len(q2) <= Len(st)
    BY <1>1, <1>2
  <1>4. \A j \in 1 .. Len(q2) : Len(st) - Len(q2) + j = Len(st) - Len(q) + (j + 1)
    BY <1>1, <1>2
  <1>5. WireOK(off, q2, w2, st)
    <2> DEFINE x == off[Len(st) - Len(q)]
               y == off[Len(st) - Len(q2)]
               done == q[1].done
               left == q[1].left
               l == Len(w)
    <2>1. l = x + done /\ x \in Nat /\ done \in Nat /\ left \in Nat /\ Len(w2) = l + left /\ y = x + done + left
      BY <1>2, <1>3
    <2> HIDE DEF x, y, done, l, left
    <2>2. Len(w2) = y /\ y \in Nat
      BY ONLY <2>1
    <2>3. y = y + IF q2 = <<>> THEN 0 ELSE q2[1].done
      <3>1. CASE q2 = <<>>
        BY ONLY <2>2, <3>1
      <3>2. CASE q2 # <<>>
        <4> DEFINE i == 2
        <4>1. Len(q2) > 0 /\ 1 \in 1 .. Len(q2)
          <5>1. q2 \in Seq(Node)
            BY <1>1
          <5> QED
            BY ONLY <5>1, <3>2
        <4>2. q2[1] = q[1 + 1] /\ 1 + 1 = i /\ i \in 1 .. Len(q) /\ i > 1
          BY <1>1, <4>1
        <4> HIDE DEF i
        <4>3. q[i].done = 0
          BY <4>2 DEF QueueOK
        <4>4. q2[1].done = 0
          BY ONLY <4>2, <4>3
        <4> QED
          BY ONLY <2>2, <3>2, <4>4
      <3> QED
        BY ONLY <3>1, <3>2
    <2>4. Len(w2) = off[Len(st) - Len(q2)] + IF q2 = <<>> THEN 0 ELSE q2[1].done
      BY <2>2, <2>3 DEF y
    <2> QED
      BY <1>3, <2>4 DEF WireOK
  <1>6. FramesOK(fl2, q2, st)
    <2> SUFFICES ASSUME NEW j \in 1 .. Len(q2)
                 PROVE FrameOK(fl2[q2[j].pkt].data, q2[j], st[Len(st) - Len(q2) + j])
      BY DEF FramesOK
    <2> DEFINE i == j + 1
    <2>1. i \in 1 .. Len(q) /\ q2[j] = q[i] /\ st[Len(st) - Len(q2) + j] = st[Len(st) - Len(q) + i]
      BY <1>1, <1>4
    <2> HIDE DEF i
    <2>2. FrameOK(fl[q[i].pkt].data, q[i], st[Len(st) - Len(q) + i])
      BY <2>1 DEF FramesOK
    <2>3. fl2[q2[j].pkt] = fl[q2[j].pkt]
      BY DEF SameFlats
    <2> QED
      BY <2>1, <2>2, <2>3
  <1> QED
    BY <1>5, <1>6

\* A turn of write_data keeps the wire.
LEMMA TurnWired ==
    ASSUME NEW s, NEW own, Core(s.mem, own, s.flat, s.out), s.wire \in Seq(Nat), s.taken \in Nat, Len(s.out) > 0,
           NEW t, t = Turn(s), NEW st \in Seq(Seq(Nat)), NEW off, Offsets(off, st),
           WireOK(off, s.out, s.wire, st), FramesOK(s.flat, s.out, st)
    PROVE WireOK(off, t.out, t.wire, st) /\ FramesOK(t.flat, t.out, st)
  <1> DEFINE q == s.out
             node == Head(q)
             p == node.pkt
             m == TurnMem(s)
             f == TurnFlat(s)
             size == TurnSize(s)
             more == TurnCells(m, p, node.done, size)
             taken == s.taken
             w == s.wire
             w2 == TurnWire(s)
             d == f[p].data
  <1>1. q \in Seq(Node)
    BY CoreIs
  <1>2. node = q[1] /\ node \in Node /\ q # <<>> /\ 1 \in 1 .. Len(q) /\ Len(q) <= Len(st) /\ Len(q) \in Nat
        /\ Len(st) \in Nat
    <2>1. Len(q) <= Len(st)
      BY DEF WireOK
    <2> QED
      BY <1>1, <2>1, HeadIs
  <1>3. node.left \in Nat /\ node.done \in Nat /\ taken \in Nat /\ w \in Seq(Nat)
    BY <1>2, NodeIs
  <1>4. size = IF taken < node.left THEN taken ELSE node.left
    BY DEF TurnSize
  <1>5. m = PutHead(s.mem, p, SeqPos, node.seq) /\ f = FlatSet(s.flat, p, FlatHead(s.flat[p], SeqPos, node.seq))
    BY DEF TurnMem, TurnFlat
  <1>6. t = IF size < node.left THEN TurnSome(s) ELSE TurnAll(s)
    BY TurnIs
  <1>7. /\ Core(m, own, f, q) /\ p \in Blocks /\ m.io[p].count > 0 /\ d[SeqPos + 1] = node.seq
        /\ Numbered(s.flat, f, p, node.seq)
    <2> DEFINE c == node.seq
               m0 == s.mem
               fl == s.flat
    <2>1. Core(m0, own, fl, q) /\ Len(q) > 0 /\ node = q[1] /\ p = node.pkt /\ c = node.seq /\ m = PutHead(m0, p, SeqPos, c)
          /\ f = FlatSet(fl, p, FlatHead(fl[p], SeqPos, c))
      BY <1>2, <1>5
    <2> HIDE DEF c, m0, fl, p, m, f, q, node, d
    <2>2. Core(m, own, f, q) /\ p \in Blocks /\ m.io[p].count > 0 /\ Numbered(fl, f, p, c)
      BY ONLY <2>1, NumberCore
    <2>3. d[SeqPos + 1] = c
      BY ONLY <2>2 DEF d, Numbered
    <2> QED
      BY ONLY <2>2, <2>3 DEF c, fl
  <1>8. size \in Nat /\ size <= node.left
    <2> HIDE DEF size, taken, node
    <2> QED
      BY <1>3, <1>4
  <1>9. FramesOK(f, q, st)
    <2> DEFINE fl == s.flat
               c == node.seq
    <2>1. /\ q \in Seq(Node) /\ st \in Seq(Seq(Nat)) /\ Len(q) <= Len(st) /\ FramesOK(fl, q, st) /\ p \in Blocks
          /\ Numbered(fl, f, p, c)
      BY <1>1, <1>2, <1>7
    <2> HIDE DEF f, fl, p, q, c
    <2> QED
      BY ONLY <2>1, FramesNumbered
  <1>10. node.done + node.left = Len(d)
    <2> DEFINE k == Len(st) - Len(q) + 1
    <2>1. /\ st \in Seq(Seq(Nat)) /\ q \in Seq(Node) /\ Len(q) <= Len(st) /\ FramesOK(f, q, st) /\ 1 \in 1 .. Len(q)
          /\ k = Len(st) - Len(q) + 1 /\ node = q[1]
      BY <1>1, <1>2, <1>9
    <2> HIDE DEF k, q, f, node
    <2>2. k \in 1 .. Len(st) /\ st[k] \in Seq(Nat) /\ FrameOK(f[q[1].pkt].data, q[1], st[k])
      BY ONLY <2>1, FrameOf
    <2> QED
      BY ONLY <2>1, <2>2 DEF FrameOK, d, p
  <1>11. more \in Seq(Nat) /\ IsPart(more, d, node.done, size)
    <2>1. Core(m, own, f, q) /\ Len(q) > 0 /\ node = q[1] /\ p = node.pkt /\ m.io[p].count > 0 /\ size \in Nat
          /\ size <= node.left /\ more = TurnCells(m, p, node.done, size)
      BY <1>2, <1>7, <1>8
    <2> HIDE DEF more, p, m, f, q, node, size, d
    <2>2. more \in Seq(Nat) /\ (node.done + node.left = Len(f[p].data) => IsPart(more, f[p].data, node.done, size))
      BY ONLY <2>1, TurnCellsAre
    <2> QED
      BY <1>10, <2>2 DEF d
  <1>12. w2 = w \o more
    BY DEF TurnWire
  <1> DEFINE a == Len(st) - Len(q)
  <1>13. /\ Written_(off, w2, st) /\ Len(w2) = Len(w) + size /\ w2 \in Seq(Nat)
         /\ Len(w) = off[a] + node.done
         /\ off[a + 1] = off[a] + node.done + node.left
    <2>1. /\ st \in Seq(Seq(Nat)) /\ q \in Seq(Node) /\ Offsets(off, st) /\ w \in Seq(Nat) /\ WireOK(off, q, w, st)
          /\ FramesOK(f, q, st) /\ Len(q) > 0 /\ node = q[1] /\ d = f[node.pkt].data /\ d[SeqPos + 1] = node.seq
          /\ size \in Nat /\ size <= node.left /\ more \in Seq(Nat)
          /\ IsPart(more, d, node.done, size) /\ w2 = w \o more /\ a = Len(st) - Len(q)
      BY <1>1, <1>2, <1>3, <1>7, <1>8, <1>9, <1>11, <1>12
    <2> HIDE DEF q, node, f, size, more, w, w2, d, a
    <2>2. MoreWritten(off, w, w2, st, a, node, size)
      BY ONLY <2>1, WireMore
    <2> QED
      BY <2>2 DEF MoreWritten
  <1>14. off[a] \in Nat
    <2>1. a \in 0 .. Len(st)
      <3> HIDE DEF q
      <3> QED
        BY <1>2
    <2> HIDE DEF a
    <2> QED
      BY <2>1 DEF Offsets
  <1>15. CASE size < node.left
    <2> DEFINE r == Rest(node, size)
               q2 == <<r>> \o Tail(q)
    <2>1. t = [mem |-> m, flat |-> f, wire |-> w2, taken |-> 0, over |-> TRUE, out |-> q2]
      BY <1>6, <1>15 DEF TurnSome, TurnRest
    <2>2. /\ st \in Seq(Seq(Nat)) /\ q \in Seq(Node) /\ Len(q) > 0 /\ Len(q) <= Len(st) /\ FramesOK(f, q, st)
          /\ size \in Nat /\ size <= q[1].left /\ r = Rest(q[1], size) /\ q2 = <<r>> \o Tail(q) /\ w \in Seq(Nat)
          /\ Len(w) = off[Len(st) - Len(q)] + q[1].done /\ off[Len(st) - Len(q)] \in Nat
          /\ Written_(off, w2, st) /\ Len(w2) = Len(w) + size
      BY <1>1, <1>2, <1>3, <1>8, <1>9, <1>13, <1>14
    <2> HIDE DEF m, f, q2, q, r, size, w, w2
    <2>3. WireOK(off, q2, w2, st) /\ FramesOK(f, q2, st)
      BY ONLY <2>2, SomeWired
    <2>4. t.flat = f /\ t.wire = w2 /\ t.out = q2
      BY ONLY <2>1
    <2> QED
      BY ONLY <2>3, <2>4
  <1>16. CASE ~(size < node.left)
    <2> DEFINE m2 == DropPacket(m, p)
               f2 == DropFlat(m, f, p)
               q2 == Tail(q)
               less == taken - size
    <2>1. t = [mem |-> m2, wire |-> w2, taken |-> less, over |-> FALSE, flat |-> f2, out |-> q2]
      BY <1>6, <1>16 DEF TurnAll
    <2>2. Core(m, own, f, q) /\ Len(q) > 0 /\ p = q[1].pkt /\ q2 = Tail(q) /\ m2 = DropPacket(m, p)
          /\ f2 = DropFlat(m, f, p)
      BY <1>2, <1>7
    <2>3. size = node.left
      <3> HIDE DEF taken, size, node
      <3> QED
        BY <1>3, <1>4, <1>16
    <2>4. QueueOK(own, q)
      BY <1>7 DEF Core
    <2>5. /\ st \in Seq(Seq(Nat)) /\ q \in Seq(Node) /\ Len(q) > 0 /\ Len(q) <= Len(st) /\ FramesOK(f, q, st)
          /\ q2 = Tail(q) /\ QueueOK(own, q) /\ w \in Seq(Nat)
          /\ Len(w) = off[Len(st) - Len(q)] + q[1].done /\ off[Len(st) - Len(q)] \in Nat
          /\ off[Len(st) - Len(q) + 1] = off[Len(st) - Len(q)] + q[1].done + q[1].left
          /\ Written_(off, w2, st) /\ Len(w2) = Len(w) + q[1].left
      BY <1>1, <1>2, <1>3, <1>9, <1>13, <1>14, <2>3, <2>4
    <2> HIDE DEF m2, f2, q2, p, m, f, q, less, w, w2
    <2>6. Kept(m2, f2, q2) /\ SameFlats(f, f2, q2)
      BY ONLY <2>2, DoneCore
    <2>7. WireOK(off, q2, w2, st) /\ FramesOK(f2, q2, st)
      BY ONLY <2>5, <2>6, AllWired
    <2>8. t.flat = f2 /\ t.wire = w2 /\ t.out = q2
      BY ONLY <2>1
    <2> QED
      BY ONLY <2>7, <2>8
  <1> QED
    BY <1>15, <1>16
-----------------------------------------------------------------------------
(* The turns of write_data. *)
AtFirst(m, queue, n) == [mem |-> m, flat |-> flat, out |-> queue, wire |-> wire, taken |-> n, over |-> FALSE]

Drains(F, N, first) ==
    \A i \in 0 .. N : F[i] = IF i = 0 THEN first ELSE IF F[i - 1].over THEN F[i - 1] ELSE Turn(F[i - 1])

Turns(first, N) ==
    LET after[i \in 0 .. N] ==
            IF i = 0 THEN first ELSE IF after[i - 1].over THEN after[i - 1] ELSE Turn(after[i - 1])
    IN  after

\* The function that CHOOSE defines for the turns satisfies its equation.
LEMMA TurnsAre ==
    ASSUME NEW N \in Nat, NEW first, NEW F, F = Turns(first, N)
    PROVE Drains(F, N, first)
  <1> DEFINE Step(i, before) == IF i = 0 THEN first ELSE IF before.over THEN before ELSE Turn(before)
             Once(f) == [i \in 0 .. N |-> Step(i, f[i - 1])]
             Upto(k, f) == f = [i \in 0 .. k |-> Step(i, f[i - 1])]
             T == {k \in 0 .. N : \E f : Upto(k, f)}
  <1>1. 0 \in T
    <2> DEFINE f == [i \in 0 .. 0 |-> first]
    <2>1. \A i \in 0 .. 0 : Step(i, f[i - 1]) = first
      OBVIOUS
    <2> HIDE DEF Step
    <2>2. Upto(0, f)
      BY <2>1
    <2>3. 0 \in 0 .. N
      OBVIOUS
    <2> HIDE DEF Upto, f
    <2> QED
      BY <2>2, <2>3
  <1>2. ASSUME NEW k \in 0 .. N - 1, k \in T PROVE k + 1 \in T
    <2>1. PICK f : Upto(k, f)
      BY <1>2
    <2> DEFINE g == [i \in 0 .. k + 1 |-> IF i <= k THEN f[i] ELSE Step(k + 1, f[k])]
    <2> HIDE DEF Step
    <2>2. \A i \in 0 .. k : f[i] = Step(i, f[i - 1])
      <3>1. f = [i \in 0 .. k |-> Step(i, f[i - 1])]
        BY <2>1
      <3> QED
        BY <3>1, Zenon
    <2>3. \A i \in 0 .. k + 1 : g[i] = Step(i, g[i - 1])
      <3> SUFFICES ASSUME NEW i \in 0 .. k + 1 PROVE g[i] = Step(i, g[i - 1])
        OBVIOUS
      <3>1. CASE i = 0
        <4>1. g[0] = f[0] /\ f[0] = Step(0, f[0 - 1])
          BY <2>2
        <4>2. \A x : Step(0, x) = first
          BY DEF Step
        <4> HIDE DEF g
        <4> QED
          BY <3>1, <4>1, <4>2
      <3>2. CASE i \in 1 .. k
        <4>1. g[i] = f[i] /\ g[i - 1] = f[i - 1] /\ f[i] = Step(i, f[i - 1])
          BY <2>2, <3>2
        <4> QED
          BY <4>1, Zenon
      <3>3. CASE i = k + 1
        <4>1. g[k + 1] = Step(k + 1, f[k]) /\ g[k] = f[k] /\ (k + 1) - 1 = k
          OBVIOUS
        <4> HIDE DEF g
        <4> QED
          BY <3>3, <4>1
      <3> QED
        BY <3>1, <3>2, <3>3
    <2>4. Upto(k + 1, g)
      <3> DEFINE h == [i \in 0 .. k + 1 |-> Step(i, g[i - 1])]
      <3>1. \A i \in 0 .. k + 1 : g[i] = h[i]
        <4> HIDE DEF g
        <4> QED
          BY <2>3
      <3>2. g = [i \in 0 .. k + 1 |-> g[i]]
        OBVIOUS
      <3>3. h = [i \in 0 .. k + 1 |-> h[i]]
        OBVIOUS
      <3> HIDE DEF h, g
      <3>4. g = h
        BY <3>1, <3>2, <3>3
      <3> QED
        BY <3>4 DEF h
    <2> HIDE DEF Upto
    <2> QED
      BY <2>4
  <1>3. \E f : f = Once(f)
    <2> HIDE DEF Upto
    <2>1. N \in T
      <3> HIDE DEF T
      <3>1. 0 .. N \subseteq T
        BY <1>1, <1>2, IntervalInduction
      <3> QED
        BY <3>1
    <2>2. PICK f : Upto(N, f)
      BY <2>1
    <2> HIDE DEF Step
    <2> QED
      BY <2>2 DEF Upto
  <1>4. F = CHOOSE f : f = Once(f)
    BY Zenon DEF Turns
  <1> HIDE DEF Once
  <1>5. F = Once(F)
    BY <1>3, <1>4, Zenon
  <1> HIDE DEF Step
  <1>6. \A i \in 0 .. N : F[i] = Step(i, F[i - 1])
    BY <1>5, Zenon DEF Once
  <1> QED
    BY <1>6, Zenon DEF Step, Drains

Turned(s, left) ==
    /\ Kept(s.mem, s.flat, s.out) /\ s.wire \in Seq(Nat) /\ s.taken \in Nat
    /\ s.over = TRUE \/ (s.over = FALSE /\ Len(s.out) = left)

\* What is left to be sent after a turn.
LEMMA TurnTurned ==
    ASSUME NEW s, NEW left \in Nat, left > 0, Turned(s, left), s.over = FALSE, NEW t, t = Turn(s)
    PROVE Turned(t, left - 1)
  <1>1. PICK own : Core(s.mem, own, s.flat, s.out)
    BY DEF Turned, Kept
  <1>2. Len(s.out) = left
    BY DEF Turned
  <1>3. s.wire \in Seq(Nat) /\ s.taken \in Nat /\ Len(s.out) > 0
    BY <1>2 DEF Turned
  <1>4. /\ Kept(t.mem, t.flat, t.out)
        /\ t.wire \in Seq(Nat) /\ t.taken \in Nat /\ (t.over = TRUE \/ (t.over = FALSE /\ Len(t.out) = Len(s.out) - 1))
    BY <1>1, <1>3, TurnKeeps
  <1> QED
    BY <1>2, <1>4 DEF Turned

\* After each turn the packets and the queue are kept.
LEMMA DrainingTurned ==
    ASSUME NEW m, NEW queue, Kept(m, flat, queue), wire \in Seq(Nat), NEW n \in Nat, NEW F, F = Draining(m, queue, n),
           NEW N, N = Len(queue)
    PROVE N \in Nat /\ \A i \in 0 .. N : Turned(F[i], N - i)
  <1>0. N \in Nat
    <2>1. PICK own : Core(m, own, flat, queue)
      BY DEF Kept
    <2>2. queue \in Seq(Node)
      BY <2>1, CoreIs
    <2> QED
      BY <2>2
  <1> DEFINE first == AtFirst(m, queue, n)
  <1>1. Drains(F, N, first)
    <2>1. F = Turns(first, N)
      BY DEF Draining, Turns, AtFirst
    <2> HIDE DEF first
    <2> QED
      BY <1>0, <2>1, TurnsAre
  <1> DEFINE T == {i \in 0 .. N : Turned(F[i], N - i)}
  <1>2. 0 \in T
    <2>1. Turned(first, N)
      BY DEF Turned, AtFirst
    <2> HIDE DEF first
    <2>2. F[0] = first /\ N - 0 = N /\ 0 \in 0 .. N
      BY <1>0, <1>1 DEF Drains
    <2> QED
      BY <2>1, <2>2
  <1> HIDE DEF first
  <1>3. \A i \in 0 .. N - 1 : i \in T => i + 1 \in T
    <2> SUFFICES ASSUME NEW i \in 0 .. N - 1, i \in T PROVE i + 1 \in T
      OBVIOUS
    <2> DEFINE s == F[i]
               j == i + 1
               t == F[j]
               left == N - i
    <2>1. j \in 0 .. N /\ j # 0 /\ j - 1 = i /\ left \in Nat /\ left > 0 /\ N - j = left - 1
      BY <1>0
    <2>2. Turned(s, left)
      OBVIOUS
    <2> HIDE DEF j
    <2>3. t = IF s.over THEN s ELSE Turn(s)
      BY <1>1, <2>1 DEF Drains
    <2> HIDE DEF s, t, left
    <2>4. CASE s.over = TRUE
      <3>1. t = s
        BY <2>3, <2>4
      <3>2. Turned(t, left - 1)
        BY <2>2, <2>4, <3>1 DEF Turned
      <3> QED
        BY <2>1, <3>2 DEF t, j
    <2>5. CASE s.over = FALSE
      <3>1. t = Turn(s)
        BY <2>3, <2>5
      <3>2. Turned(t, left - 1)
        BY <2>1, <2>2, <2>5, <3>1, TurnTurned
      <3> QED
        BY <2>1, <3>2 DEF t, j
    <2>6. s.over = TRUE \/ s.over = FALSE
      BY <2>2 DEF Turned
    <2> QED
      BY <2>4, <2>5, <2>6
  <1> HIDE DEF T
  <1>4. 0 .. N \subseteq T
    BY <1>0, <1>2, <1>3, IntervalInduction
  <1> QED
    BY <1>0, <1>4 DEF T

Wired(off, st, s) == WireOK(off, s.out, s.wire, st) /\ FramesOK(s.flat, s.out, st)

LEMMA TurnedWired ==
    ASSUME NEW s, NEW left \in Nat, left > 0, Turned(s, left), s.over = FALSE, NEW t, t = Turn(s),
           NEW st \in Seq(Seq(Nat)), NEW off, Offsets(off, st), Wired(off, st, s)
    PROVE Wired(off, st, t)
  <1>1. PICK own : Core(s.mem, own, s.flat, s.out)
    BY DEF Turned, Kept
  <1>2. s.wire \in Seq(Nat) /\ s.taken \in Nat /\ Len(s.out) > 0
    BY DEF Turned
  <1>3. WireOK(off, s.out, s.wire, st) /\ FramesOK(s.flat, s.out, st)
    BY DEF Wired
  <1>4. WireOK(off, t.out, t.wire, st) /\ FramesOK(t.flat, t.out, st)
    BY <1>1, <1>2, <1>3, TurnWired
  <1> QED
    BY <1>4 DEF Wired

\* After each turn the wire is as it should be.
LEMMA DrainingWired ==
    ASSUME NEW m, NEW queue, Kept(m, flat, queue), wire \in Seq(Nat), NEW n \in Nat, NEW F, F = Draining(m, queue, n),
           NEW N, N = Len(queue), NEW st \in Seq(Seq(Nat)), NEW off, Offsets(off, st),
           WireOK(off, queue, wire, st), FramesOK(flat, queue, st)
    PROVE \A i \in 0 .. N : Wired(off, st, F[i])
  <1>0. N \in Nat /\ \A i \in 0 .. N : Turned(F[i], N - i)
    BY DrainingTurned
  <1> DEFINE first == AtFirst(m, queue, n)
  <1>1. Drains(F, N, first)
    <2>1. F = Turns(first, N)
      BY DEF Draining, Turns, AtFirst
    <2> HIDE DEF first
    <2> QED
      BY <1>0, <2>1, TurnsAre
  <1> DEFINE T == {i \in 0 .. N : Wired(off, st, F[i])}
  <1>2. 0 \in T
    <2>1. Wired(off, st, first)
      BY DEF Wired, AtFirst
    <2> HIDE DEF first
    <2>2. F[0] = first /\ 0 \in 0 .. N
      BY <1>0, <1>1 DEF Drains
    <2> QED
      BY <2>1, <2>2
  <1> HIDE DEF first
  <1>3. \A i \in 0 .. N - 1 : i \in T => i + 1 \in T
    <2> SUFFICES ASSUME NEW i \in 0 .. N - 1, i \in T PROVE i + 1 \in T
      OBVIOUS
    <2> DEFINE s == F[i]
               j == i + 1
               t == F[j]
               left == N - i
    <2>1. j \in 0 .. N /\ j # 0 /\ j - 1 = i /\ left \in Nat /\ left > 0 /\ i \in 0 .. N
      BY <1>0
    <2>2. Turned(s, left) /\ Wired(off, st, s)
      BY <1>0, <2>1
    <2> HIDE DEF j
    <2>3. t = IF s.over THEN s ELSE Turn(s)
      BY <1>1, <2>1 DEF Drains
    <2> HIDE DEF s, t, left
    <2>4. CASE s.over = TRUE
      <3>1. t = s
        BY <2>3, <2>4
      <3> QED
        BY <2>1, <2>2, <3>1 DEF t, j
    <2>5. CASE s.over = FALSE
      <3>1. t = Turn(s)
        BY <2>3, <2>5
      <3>2. Wired(off, st, t)
        BY <2>1, <2>2, <2>5, <3>1, TurnedWired
      <3> QED
        BY <2>1, <3>2 DEF t, j
    <2>6. s.over = TRUE \/ s.over = FALSE
      BY <2>2 DEF Turned
    <2> QED
      BY <2>4, <2>5, <2>6
  <1> HIDE DEF T
  <1>4. 0 .. N \subseteq T
    BY <1>0, <1>2, <1>3, IntervalInduction
  <1> QED
    BY <1>4 DEF T

WiredOn(fl, q, w, st) == \E off : Offsets(off, st) /\ WireOK(off, q, w, st) /\ FramesOK(fl, q, st)

\* All the turns.
LEMMA WriteDataKept ==
    ASSUME NEW m, NEW queue, Kept(m, flat, queue), wire \in Seq(Nat), NEW n \in Nat, WriteData(m, queue, n)
    PROVE Kept(mem', flat', out') /\ wire' \in Seq(Nat)
  <1> DEFINE F == Draining(m, queue, n)
             N == Len(queue)
             end == F[N]
  <1>1. mem' = end.mem /\ flat' = end.flat /\ out' = end.out /\ wire' = end.wire
    BY DEF WriteData
  <1>2. N \in Nat /\ \A i \in 0 .. N : Turned(F[i], N - i)
    <2>1. F = Draining(m, queue, n) /\ N = Len(queue)
      OBVIOUS
    <2> HIDE DEF F, N
    <2> QED
      BY <2>1, DrainingTurned
  <1>3. N \in 0 .. N
    BY <1>2
  <1>4. Turned(end, N - N)
    BY <1>2, <1>3
  <1> HIDE DEF end
  <1> QED
    BY <1>1, <1>4 DEF Turned

LEMMA WriteDataWired ==
    ASSUME NEW m, NEW queue, Kept(m, flat, queue), wire \in Seq(Nat), NEW n \in Nat, WriteData(m, queue, n),
           NEW st \in Seq(Seq(Nat)), WiredOn(flat, queue, wire, st)
    PROVE WiredOn(flat', out', wire', st)
  <1> DEFINE F == Draining(m, queue, n)
             N == Len(queue)
             end == F[N]
  <1>1. mem' = end.mem /\ flat' = end.flat /\ out' = end.out /\ wire' = end.wire
    BY DEF WriteData
  <1>2. F = Draining(m, queue, n) /\ N = Len(queue)
    OBVIOUS
  <1>3. PICK off : Offsets(off, st) /\ WireOK(off, queue, wire, st) /\ FramesOK(flat, queue, st)
    BY DEF WiredOn
  <1> HIDE DEF F, N
  <1>4. N \in Nat /\ \A i \in 0 .. N : Turned(F[i], N - i)
    BY <1>2, DrainingTurned
  <1>5. \A i \in 0 .. N : Wired(off, st, F[i])
    BY <1>2, <1>3, DrainingWired
  <1>6. N \in 0 .. N
    BY <1>4
  <1>7. Wired(off, st, end)
    BY <1>5, <1>6
  <1> HIDE DEF end
  <1>8. WireOK(off, out', wire', st) /\ FramesOK(flat', out', st)
    BY <1>1, <1>7 DEF Wired
  <1> QED
    BY <1>3, <1>8 DEF WiredOn
-----------------------------------------------------------------------------
(* Sending. *)
IsAppend(q2, q, x, S) ==
    /\ q2 \in Seq(S) /\ Len(q2) = Len(q) + 1 /\ Len(q) \in Nat /\ q2[Len(q2)] = x /\ q2 # <<>>
    /\ \A j \in 1 .. Len(q) : q2[j] = q[j]
    /\ \A j \in 1 .. Len(q2) : j \in 1 .. Len(q) \/ j = Len(q2)

LEMMA AppendIs ==
    ASSUME NEW S, NEW q \in Seq(S), NEW x \in S, NEW q2, q2 = Append(q, x)
    PROVE IsAppend(q2, q, x, S)
  BY DEF IsAppend

\* The queue holds one more reference.
HoldOnce(m, p) == [m EXCEPT !.io[p].count = @ + 1]
NodeOf(p, size, c) == [pkt |-> p, left |-> size, done |-> 0, seq |-> c]

\* rbtP_grab, and the packet at the end of the queue.
LEMMA SendCore ==
    ASSUME NEW m, NEW own, NEW fl, NEW q, Core(m, own, fl, q), NEW p \in Blocks, m.io[p].mine > 0,
           NEW m2, m2 = HoldOnce(m, p), NEW c \in Nat,
           NEW node, node = NodeOf(p, m.io[p].size, c),
           NEW q2, q2 = Append(q, node)
    PROVE Core(m2, own, fl, q2) /\ node \in Node
  <1> DEFINE data == Bytes(fl)
             k == m.io[p].count + 1
             n == m.io[p].mine
             io2 == IOHeld(m.io[p], k, n)
  <1>1. /\ m.io[p].count \in Nat /\ n \in Nat /\ Cardinality(Times(q, p)) \in Nat
        /\ m.io[p].count = n + Cardinality(Times(q, p))
    BY HeldBy
  <1>2. MemOK(m, own, data) /\ fl \in [Blocks -> FlatPacket] /\ q \in Seq(Node) /\ m \in Memory
    BY CoreIs
  <1>3. k \in Nat /\ k > 0 /\ m.io[p].count > 0
    BY <1>1
  <1>4. m.io[p] \in IORecord
    BY <1>2, MemoryIs
  <1>5. m2 = IOSet(m, p, io2)
    <2>1. [m.io[p] EXCEPT !.count = k] = io2
      BY <1>4, HeldTo
    <2>2. m2 = [m EXCEPT !.io[p] = [m.io[p] EXCEPT !.count = k]]
      BY DEF HoldOnce
    <2> QED
      BY <2>1, <2>2 DEF IOSet
  <1>6. /\ MemOK(m2, own, data) /\ \A x \in Blocks \ {p} : m2.io[x] = m.io[x]
        /\ m2.io[p].count = k /\ m2.io[p].mine = n
        /\ m2.io[p].ptr = m.io[p].ptr /\ m2.io[p].size = m.io[p].size
    <2>1. /\ MemOK(m, own, data) /\ p \in Blocks /\ m.io[p].count > 0 /\ k \in Nat /\ k > 0 /\ n \in Nat
          /\ io2 = IOHeld(m.io[p], k, n) /\ m2 = IOSet(m, p, io2)
      BY <1>1, <1>2, <1>3, <1>5
    <2> HIDE DEF k, n, io2, data
    <2> QED
      BY ONLY <2>1, RefsSetIs
  <1>7. /\ PacketFits(m.io[p], fl[p]) /\ Len(fl[p].data) = m.io[p].size /\ m.io[p].size \in Nat
    BY <1>3, CorePacket
  <1>8. m.io[p].size > 0
    BY <1>7 DEF PacketFits, HeadSize
  <1>9. node \in Node /\ node.pkt = p /\ node.left = m.io[p].size /\ node.done = 0
    BY <1>7 DEF Node, NodeOf
  <1>10. PacketsOK(m, fl) /\ RefsOK(m, q) /\ QueueOK(own, q)
    BY DEF Core
  <1> HIDE DEF data, k, n, io2
  <1>11. /\ q2 \in Seq(Node) /\ Len(q2) = Len(q) + 1 /\ Len(q) \in Nat /\ q2[Len(q2)] = node
         /\ \A j \in 1 .. Len(q) : q2[j] = q[j]
         /\ \A j \in 1 .. Len(q2) : j \in 1 .. Len(q) \/ j = Len(q2)
    <2>1. q \in Seq(Node) /\ node \in Node /\ q2 = Append(q, node)
      BY <1>2, <1>9
    <2>2. IsAppend(q2, q, node, Node)
      BY ONLY <2>1, AppendIs
    <2> QED
      BY <2>2 DEF IsAppend
  <1>12. PacketsOK(m2, fl)
    <2> SUFFICES ASSUME NEW x \in Blocks, m2.io[x].count > 0 PROVE PacketFits(m2.io[x], fl[x])
      BY DEF PacketsOK, PacketFits
    <2>1. m.io[x].count > 0 /\ m2.io[x].ptr = m.io[x].ptr
      BY <1>3, <1>6
    <2> QED
      BY <1>10, <2>1 DEF PacketsOK, PacketFits
  <1>15. \A x : Cardinality(Times(q2, x)) = Cardinality(Times(q, x)) + IF node.pkt = x THEN 1 ELSE 0
    <2>1. q \in Seq(Node) /\ node \in Node /\ q2 = Append(q, node)
      BY <1>2, <1>9
    <2>2. OneMore(q, q2, node.pkt)
      BY ONLY <2>1, TimesAppend
    <2> QED
      BY ONLY <2>2 DEF OneMore
  <1>13. RefsOK(m2, q2)
    <2> SUFFICES ASSUME NEW x \in Blocks PROVE m2.io[x].count = m2.io[x].mine + Cardinality(Times(q2, x))
      BY DEF RefsOK
    <2>1. Cardinality(Times(q2, x)) = Cardinality(Times(q, x)) + IF node.pkt = x THEN 1 ELSE 0
      BY <1>15
    <2>2. m.io[x].count = m.io[x].mine + Cardinality(Times(q, x))
      BY <1>10 DEF RefsOK
    <2>3. Cardinality(Times(q, x)) \in Nat
      BY <1>2, TimesFinite
    <2>4. CASE x = p
      <3>1. Cardinality(Times(q2, p)) = Cardinality(Times(q, p)) + 1
        BY <1>9, <2>1, <2>4
      <3> DEFINE a == Cardinality(Times(q, p))
      <3>2. a \in Nat /\ k = n + (a + 1)
        BY <1>1 DEF k
      <3> HIDE DEF a
      <3> QED
        BY <1>6, <2>4, <3>1, <3>2 DEF a
    <2>5. CASE x # p
      <3>1. Cardinality(Times(q2, x)) = Cardinality(Times(q, x)) + 0
        BY <1>9, <2>1, <2>5
      <3> QED
        BY <1>6, <2>2, <2>3, <2>5, <3>1
    <2> QED
      BY <2>4, <2>5
  <1>14. QueueOK(own, q2)
    <2> SUFFICES ASSUME NEW j \in 1 .. Len(q2)
                 PROVE /\ q2[j].left > 0 /\ K(q2[j].done + q2[j].left - 1) < Len(own[q2[j].pkt])
                       /\ j > 1 => q2[j].done = 0
      BY DEF QueueOK
    <2>1. CASE j \in 1 .. Len(q)
      BY <1>10, <1>11, <2>1 DEF QueueOK
    <2>2. CASE j = Len(q2)
      <3> DEFINE i == m.io[p].size - 1
      <3>1. i \in 0 .. m.io[p].size - 1 /\ 0 + m.io[p].size - 1 = i
        BY <1>7, <1>8
      <3> HIDE DEF i
      <3>2. K(i) < Len(own[p])
        BY <1>2, <1>3, <3>1, HeldIs
      <3>3. q2[j] = node /\ node.done + node.left - 1 = i
        BY <1>9, <1>11, <2>2, <3>1
      <3> QED
        BY <1>8, <1>9, <3>2, <3>3
    <2> QED
      BY <1>11, <2>1, <2>2
  <1> QED
    BY <1>2, <1>6, <1>9, <1>11, <1>12, <1>13, <1>14 DEF Core, data

\* Nothing was written that was not sent.
LEMMA WireEnd ==
    ASSUME NEW st \in Seq(Seq(Nat)), NEW q \in Seq(Node), NEW off, Offsets(off, st), NEW w \in Seq(Nat),
           WireOK(off, q, w, st), NEW fl, FramesOK(fl, q, st)
    PROVE Len(w) <= off[Len(st)] /\ off[Len(st)] \in Nat /\ Len(st) \in Nat
  <1> DEFINE N == Len(st)
             a == N - Len(q)
             l == Len(w)
             e == off[N]
  <1>1. N \in Nat /\ Len(q) \in Nat /\ Len(q) <= N /\ l \in Nat
    BY DEF WireOK
  <1>2. a \in 0 .. N /\ N \in 0 .. N
    BY <1>1
  <1>3. off[a] \in Nat /\ e \in Nat
    <2>1. off \in [0 .. N -> Nat]
      BY DEF Offsets
    <2> HIDE DEF a, N
    <2> QED
      BY <1>2, <2>1
  <1>4. CASE q = <<>>
    <2>1. a = N
      BY <1>1, <1>4
    <2>2. l = off[a] + 0
      BY <1>4 DEF WireOK
    <2> DEFINE x == off[a]
    <2>3. x = e /\ l = x + 0
      BY <2>1, <2>2
    <2> HIDE DEF x, l, e
    <2>4. l <= e
      BY <1>3, <2>3
    <2> QED
      BY <1>1, <1>3, <2>4 DEF l, e
  <1>5. CASE q # <<>>
    <2> DEFINE k == a + 1
               y == off[k]
               done == q[1].done
               left == q[1].left
    <2>1. 1 \in 1 .. Len(q) /\ q[1] \in Node
      BY <1>5
    <2>2. done \in Nat /\ left \in Nat
      BY <2>1, NodeIs
    <2>3. k \in 1 .. N /\ k \in 0 .. N /\ k - 1 = a /\ k = N - Len(q) + 1 /\ k <= N
      BY <1>1, <2>1
    <2>4. st[k] \in Seq(Nat) /\ FrameOK(fl[q[1].pkt].data, q[1], st[k])
      <3> HIDE DEF k, a
      <3>1. k = Len(st) - Len(q) + 1
        BY <2>3 DEF N
      <3> QED
        BY <1>1, <2>1, <3>1, FrameOf
    <2>5. Len(st[k]) = done + left
      BY <2>4 DEF FrameOK
    <2> HIDE DEF k
    <2>6. y = off[a] + Len(st[k])
      <3>1. \A i \in 1 .. N : off[i] = off[i - 1] + Len(st[i])
        BY DEF Offsets
      <3> QED
        BY <2>3, <3>1
    <2>7. l = off[a] + done
      BY <1>5 DEF WireOK
    <2>8. y <= e
      BY <1>2, <2>3, OffsetsGrow
    <2> DEFINE x == off[a]
    <2>9. x \in Nat /\ y = x + (done + left) /\ l = x + done
      BY <1>3, <2>5, <2>6, <2>7
    <2> HIDE DEF x, y, done, left, l, e
    <2>10. l <= e
      BY <1>1, <1>3, <2>2, <2>8, <2>9
    <2> QED
      BY <1>1, <1>3, <2>10 DEF l, e
  <1> QED
    BY <1>4, <1>5

\* One more frame is sent.
OffsetsWith(off, st, d) == [k \in 0 .. Len(st) + 1 |-> IF k <= Len(st) THEN off[k] ELSE off[Len(st)] + Len(d)]
SameOffsets(off, off2, n) == \A k \in 0 .. n : off2[k] = off[k]
\* The frame that is sent begins where all others end.
LEMMA SendOffsets ==
    ASSUME NEW st \in Seq(Seq(Nat)), NEW off, Offsets(off, st), NEW d \in Seq(Nat), NEW st2, st2 = Append(st, d),
           NEW off2, off2 = OffsetsWith(off, st, d)
    PROVE Offsets(off2, st2) /\ SameOffsets(off, off2, Len(st))
  <1> DEFINE N == Len(st)
  <1>1. /\ st2 \in Seq(Seq(Nat)) /\ Len(st2) = N + 1 /\ N \in Nat /\ st2[Len(st2)] = d
        /\ \A j \in 1 .. N : st2[j] = st[j]
    <2>1. IsAppend(st2, st, d, Seq(Nat))
      BY AppendIs
    <2> QED
      BY <2>1 DEF IsAppend
  <1>2. off \in [0 .. N -> Nat] /\ off[0] = 0 /\ \A k \in 1 .. N : off[k] = off[k - 1] + Len(st[k])
    BY DEF Offsets
  <1>3. Len(d) \in Nat
    OBVIOUS
  <1> HIDE DEF N
  <1>4. off2 = [k \in 0 .. N + 1 |-> IF k <= N THEN off[k] ELSE off[N] + Len(d)]
    BY DEF N, OffsetsWith
  <1>5. \A k \in 0 .. N : off2[k] = off[k] /\ off[k] \in Nat
    BY <1>1, <1>2, <1>4
  <1>6. off2[N + 1] = off[N] + Len(d)
    BY <1>1, <1>4
  <1>7. off2 \in [0 .. N + 1 -> Nat]
    <2>1. \A k \in 0 .. N + 1 : (IF k <= N THEN off[k] ELSE off[N] + Len(d)) \in Nat
      <3> TAKE k \in 0 .. N + 1
      <3>1. CASE k <= N
        <4>1. k \in 0 .. N
          BY <1>1, <3>1
        <4> QED
          BY <1>5, <3>1, <4>1
      <3>2. CASE ~(k <= N)
        <4>1. N \in 0 .. N
          BY <1>1
        <4>2. off[N] \in Nat
          BY <1>5, <4>1
        <4> DEFINE x == off[N]
                   l == Len(d)
        <4>3. x \in Nat /\ l \in Nat
          BY <1>3, <4>2
        <4> HIDE DEF x, l
        <4>4. x + l \in Nat
          BY ONLY <4>3
        <4> QED
          BY <3>2, <4>4 DEF x, l
      <3> QED
        BY <3>1, <3>2
    <2> QED
      BY <1>4, <2>1
  <1>8. \A k \in 1 .. N + 1 : off2[k] = off2[k - 1] + Len(st2[k])
    <2> TAKE k \in 1 .. N + 1
    <2>1. CASE k \in 1 .. N
      <3>1. k \in 0 .. N /\ k - 1 \in 0 .. N
        BY <1>1, <2>1
      <3> QED
        BY <1>1, <1>2, <1>5, <2>1, <3>1
    <2>2. CASE k = N + 1
      <3>1. k - 1 = N /\ N \in 0 .. N
        BY <1>1, <2>2
      <3> QED
        BY <1>1, <1>5, <1>6, <2>2, <3>1
    <2> QED
      BY <1>1, <2>1, <2>2
  <1>9. off2[0] = 0
    BY <1>1, <1>2, <1>5
  <1>10. Offsets(off2, st2)
    BY <1>1, <1>7, <1>8, <1>9 DEF Offsets
  <1> QED
    BY <1>5, <1>10 DEF N, SameOffsets

\* What is sent: the packet with the number of the sending.
LEMMA SendWired ==
    ASSUME NEW st \in Seq(Seq(Nat)), NEW q \in Seq(Node), NEW w \in Seq(Nat), NEW fl, WiredOn(fl, q, w, st),
           NEW p, NEW e \in Seq(Nat), e = fl[p].data, HeadSize <= Len(e), e[1] = Len(e), NEW c \in Nat,
           NEW d, d = HeadSet(e, SeqPos, c), NEW st2, st2 = Append(st, d), NEW node \in Node, node.pkt = p,
           node.left = Len(e), node.done = 0, node.seq = c, NEW q2, q2 = Append(q, node)
    PROVE WiredOn(fl, q2, w, st2)
  <1> DEFINE N == Len(st)
  <1>0. PICK off : Offsets(off, st) /\ WireOK(off, q, w, st) /\ FramesOK(fl, q, st)
    BY DEF WiredOn
  <1>1. /\ d \in Seq(Nat) /\ Len(d) = Len(e) /\ d[SeqPos + 1] = c /\ SeqPos + 1 \in 1 .. Len(e)
        /\ \A i \in 1 .. Len(e) : i # SeqPos + 1 => d[i] = e[i]
    <2> DEFINE at == SeqPos
    <2>1. at \in Nat /\ at < HeadSize
      BY DEF SeqPos, HeadSize
    <2>2. d = HeadSet(e, at, c)
      OBVIOUS
    <2> HIDE DEF at
    <2>3. /\ d \in Seq(Nat) /\ Len(d) = Len(e) /\ d[at + 1] = c /\ at + 1 \in 1 .. Len(e)
          /\ \A i \in 1 .. Len(e) : i # at + 1 => d[i] = e[i]
          /\ Body(e) => Body(d)
      <3>1. e \in Seq(Nat) /\ at \in Nat /\ at < HeadSize /\ HeadSize <= Len(e) /\ c \in Nat /\ d = HeadSet(e, at, c)
        BY <2>1, <2>2
      <3> QED
        BY ONLY <3>1, HeadSetIs
    <2> QED
      BY <2>3 DEF at
  <1>2. /\ st2 \in Seq(Seq(Nat)) /\ Len(st2) = N + 1 /\ N \in Nat /\ st2[Len(st2)] = d
        /\ \A j \in 1 .. N : st2[j] = st[j]
        /\ \A j \in 1 .. Len(st2) : j \in 1 .. N \/ j = Len(st2)
    <2>1. st \in Seq(Seq(Nat)) /\ d \in Seq(Nat) /\ st2 = Append(st, d)
      BY <1>1
    <2>2. IsAppend(st2, st, d, Seq(Nat))
      BY ONLY <2>1, AppendIs
    <2> QED
      BY ONLY <2>2 DEF IsAppend
  <1>3. /\ q2 \in Seq(Node) /\ Len(q2) = Len(q) + 1 /\ Len(q) \in Nat /\ q2[Len(q2)] = node /\ q2 # <<>>
        /\ \A j \in 1 .. Len(q) : q2[j] = q[j]
        /\ \A j \in 1 .. Len(q2) : j \in 1 .. Len(q) \/ j = Len(q2)
    <2>1. IsAppend(q2, q, node, Node)
      BY ONLY q \in Seq(Node), node \in Node, q2 = Append(q, node), AppendIs
    <2> QED
      BY ONLY <2>1 DEF IsAppend
  <1> DEFINE off2 == OffsetsWith(off, st, d)
  <1>5. Offsets(off2, st2) /\ \A k \in 0 .. N : off2[k] = off[k]
    <2>1. st \in Seq(Seq(Nat)) /\ Offsets(off, st) /\ d \in Seq(Nat) /\ st2 = Append(st, d) /\ off2 = OffsetsWith(off, st, d)
      BY <1>0, <1>1
    <2> HIDE DEF off2
    <2>2. Offsets(off2, st2) /\ SameOffsets(off, off2, Len(st))
      BY ONLY <2>1, SendOffsets
    <2> QED
      BY <2>2 DEF SameOffsets
  <1> HIDE DEF off2
  <1>6. Len(w) <= off[N] /\ off[N] \in Nat
    BY <1>0, WireEnd
  <1>7. Len(q) <= N /\ Written_(off, w, st) /\ Len(w) = off[N - Len(q)] + IF q = <<>> THEN 0 ELSE q[1].done
    BY <1>0 DEF WireOK
  <1> HIDE DEF N
  <1>8. WireOK(off2, q2, w, st2)
    <2>1. Len(q2) <= Len(st2) /\ Len(st2) - Len(q2) = N - Len(q) /\ N - Len(q) \in 0 .. N
      BY <1>2, <1>3, <1>7
    <2>2. Written_(off2, w, st2)
      <3> SUFFICES ASSUME NEW k \in 1 .. Len(st2), NEW i \in 1 .. Len(st2[k]), off2[k - 1] + i <= Len(w)
                   PROVE w[off2[k - 1] + i] = st2[k][i]
        BY DEF Written_
      <3>1. CASE k \in 1 .. N
        <4>1. k - 1 \in 0 .. N /\ st2[k] = st[k]
          <5>1. st2[k] = st[k]
            BY <1>2, <3>1
          <5> QED
            BY ONLY <1>2, <3>1, <5>1
        <4>2. off2[k - 1] = off[k - 1]
          BY <1>5, <4>1
        <4>3. k \in 1 .. Len(st)
          BY <3>1 DEF N
        <4> QED
          BY <1>7, <4>1, <4>2, <4>3 DEF Written_
      <3>2. CASE k = Len(st2)
        <4>1. k - 1 = N /\ N \in 0 .. N
          BY <1>2, <3>2
        <4>2. off2[k - 1] = off[N]
          BY <1>5, <4>1
        <4> DEFINE l == Len(d)
        <4>3. i \in 1 .. l /\ l \in Nat
          <5>1. d \in Seq(Nat) /\ st2[Len(st2)] = d
            BY <1>1, <1>2
          <5> QED
            BY ONLY <5>1, <3>2, i \in 1 .. Len(st2[k])
        <4> HIDE DEF l
        <4>4. i \in Nat /\ i > 0
          BY ONLY <4>3
        <4> DEFINE x == off[N]
                   y == Len(w)
        <4>5. x + i <= y /\ y <= x /\ x \in Nat /\ y \in Nat
          BY <1>6, <4>2
        <4> HIDE DEF x, y
        <4> QED
          BY ONLY <4>4, <4>5
      <3> QED
        BY <1>2, <3>1, <3>2
    <2>3. off2[Len(st2) - Len(q2)] = off[N - Len(q)]
      BY <1>5, <2>1
    <2>4. (IF q2 = <<>> THEN 0 ELSE q2[1].done) = IF q = <<>> THEN 0 ELSE q[1].done
      <3>1. CASE q = <<>>
        <4>1. q2[1] = node
          BY <1>3, <3>1
        <4> QED
          BY <1>3, <3>1, <4>1
      <3>2. CASE q # <<>>
        <4>1. q2[1] = q[1]
          BY <1>3, <3>2
        <4> QED
          BY <1>3, <3>2, <4>1
      <3> QED
        BY <3>1, <3>2
    <2> QED
      BY <1>7, <2>1, <2>2, <2>3, <2>4 DEF WireOK
  <1>9. FramesOK(fl, q2, st2)
    <2>1. \A k \in 1 .. Len(st2) : st2[k][1] = Len(st2[k])
      <3> TAKE k \in 1 .. Len(st2)
      <3>1. CASE k \in 1 .. N
        BY <1>0, <1>2, <3>1 DEF FramesOK, N
      <3>2. CASE k = Len(st2)
        <4> DEFINE i == SeqPos + 1
                   l == Len(e)
        <4>1. i # 1 /\ 1 \in 1 .. l
          <5>1. i = 3 /\ HeadSize = 3 /\ l \in Nat /\ HeadSize <= l
            BY DEF SeqPos, HeadSize
          <5> HIDE DEF i, l
          <5> QED
            BY <5>1
        <4> HIDE DEF i
        <4>2. d[1] = e[1]
          BY <1>1, <4>1 DEF i
        <4> QED
          BY <1>1, <1>2, <3>2, <4>2
      <3> QED
        BY <1>2, <3>1, <3>2
    <2>2. ASSUME NEW j \in 1 .. Len(q2)
          PROVE FrameOK(fl[q2[j].pkt].data, q2[j], st2[Len(st2) - Len(q2) + j])
      <3>1. Len(st2) - Len(q2) + j = N - Len(q) + j
        BY <1>2, <1>3
      <3>2. CASE j \in 1 .. Len(q)
        <4> DEFINE k == N - Len(q) + j
        <4>1. k \in 1 .. N
          BY <1>2, <1>3, <1>7, <3>2
        <4>2. FrameOK(fl[q[j].pkt].data, q[j], st[k])
          BY <1>0, <3>2 DEF FramesOK, N
        <4> HIDE DEF k
        <4>3. st2[k] = st[k] /\ q2[j] = q[j]
          BY <1>2, <1>3, <3>2, <4>1
        <4> QED
          BY <3>1, <4>2, <4>3 DEF k
      <3>3. CASE j = Len(q2)
        <4>1. N - Len(q) + j = Len(st2)
          BY <1>2, <1>3, <3>3
        <4>2. FrameOK(e, node, d)
          <5> DEFINE l == Len(e)
          <5>1. node.done + node.left = Len(d)
            <6>1. l \in Nat /\ node.done = 0 /\ node.left = l /\ Len(d) = l
              BY <1>1
            <6> HIDE DEF l
            <6> QED
              BY ONLY <6>1
          <5> QED
            BY <1>1, <5>1 DEF FrameOK
        <4> QED
          BY <1>2, <1>3, <3>1, <3>3, <4>1, <4>2
      <3> QED
        BY <1>3, <3>2, <3>3
    <2> QED
      BY <2>1, <2>2 DEF FramesOK
  <1> QED
    BY <1>5, <1>8, <1>9 DEF WiredOn

\* The packets in the queue are not written to.
LEMMA WiredSame ==
    ASSUME NEW fl, NEW fl2, NEW q, NEW w, NEW st, WiredOn(fl, q, w, st),
           \A j \in 1 .. Len(q) : fl2[q[j].pkt].data = fl[q[j].pkt].data
    PROVE WiredOn(fl2, q, w, st)
  <1>1. PICK off : Offsets(off, st) /\ WireOK(off, q, w, st) /\ FramesOK(fl, q, st)
    BY DEF WiredOn
  <1>2. FramesOK(fl2, q, st)
    BY <1>1 DEF FramesOK
  <1> QED
    BY <1>1, <1>2 DEF WiredOn
-----------------------------------------------------------------------------
(* The invariant. *)
Inv ==
    /\ seq \in 0 .. MaxSeq /\ wire \in Seq(Nat) /\ sent \in Seq(Seq(Nat)) /\ spoiled \in BOOLEAN
    /\ Kept(mem, flat, out) /\ SentOK(sent)
    /\ ~spoiled => WiredOn(flat, out, wire, sent)

\* A call of the program, which leaves the queue as it is.
LEMMA CallKeeps ==
    ASSUME Inv, UNCHANGED <<out, seq, wire, sent>>, spoiled' \in BOOLEAN, Kept(mem', flat', out),
           ~spoiled' => ~spoiled /\ \A j \in 1 .. Len(out) : flat'[out[j].pkt].data = flat[out[j].pkt].data
    PROVE Inv'
  <1>1. out' = out /\ seq' = seq /\ wire' = wire /\ sent' = sent
    OBVIOUS
  <1>2. ASSUME ~spoiled' PROVE WiredOn(flat', out, wire, sent)
    BY <1>2, WiredSame DEF Inv
  <1> QED
    BY <1>1, <1>2 DEF Inv

\* One that writes into a packet.
LEMMA TouchKeeps ==
    ASSUME Inv, NEW p \in Blocks, Touch(p), UNCHANGED <<out, seq, wire, sent>>, NEW f, flat' = FlatSet(flat, p, f),
           Kept(mem', flat', out)
    PROVE Inv'
  <1>1. PICK own : Core(mem, own, flat, out)
    BY DEF Inv, Kept
  <1>2. flat \in [Blocks -> FlatPacket] /\ out \in Seq(Node)
    BY <1>1, CoreIs
  <1>3. spoiled' = (spoiled \/ Queued_(p)) /\ spoiled \in BOOLEAN
    BY DEF Touch, Inv
  <1>4. spoiled' \in BOOLEAN
    <2>1. Queued_(p) \in BOOLEAN
      BY DEF Queued_
    <2> QED
      BY <1>3, <2>1
  <1>5. ASSUME ~spoiled', NEW j \in 1 .. Len(out) PROVE flat'[out[j].pkt].data = flat[out[j].pkt].data
    <2>1. ~Queued_(p)
      BY <1>3, <1>5
    <2>2. j \in DOMAIN out /\ out[j] \in Node
      BY <1>2
    <2>3. out[j].pkt # p /\ out[j].pkt \in Blocks
      BY <2>1, <2>2, NodeIs DEF Queued_
    <2> QED
      BY <1>2, <2>3 DEF FlatSet
  <1>6. ASSUME ~spoiled' PROVE ~spoiled
    BY <1>3, <1>6
  <1> QED
    BY <1>4, <1>5, <1>6, CallKeeps

\* One that reads.
LEMMA ReadingKeeps ==
    ASSUME Inv, UNCHANGED <<out, seq, wire, sent, spoiled>>, Kept(mem', flat', out),
           \A j \in 1 .. Len(out) : flat'[out[j].pkt].data = flat[out[j].pkt].data
    PROVE Inv'
  <1>1. out' = out /\ seq' = seq /\ wire' = wire /\ sent' = sent /\ spoiled' = spoiled
    OBVIOUS
  <1>2. ASSUME ~spoiled PROVE WiredOn(flat', out, wire, sent)
    <2>1. WiredOn(flat, out, wire, sent)
      BY <1>2 DEF Inv
    <2> QED
      BY <2>1, WiredSame
  <1>3. /\ seq \in 0 .. MaxSeq /\ wire \in Seq(Nat) /\ sent \in Seq(Seq(Nat)) /\ spoiled \in BOOLEAN /\ SentOK(sent)
    BY DEF Inv
  <1> QED
    BY <1>1, <1>2, <1>3 DEF Inv

LEMMA DataIs ==
    ASSUME NEW cells \in Data
    PROVE cells \in Seq({0, 1}) /\ Len(cells) \in Nat /\ Len(cells) > 0
  <1>1. CASE cells = <<1>>
    BY <1>1
  <1>2. CASE cells = <<0>>
    BY <1>2
  <1>3. CASE cells = <<0, 1>>
    BY <1>3
  <1> QED
    BY <1>1, <1>2, <1>3, Zenon DEF Data

\* The lists of blocks.
LEMMA HeldCore ==
    ASSUME Inv
    PROVE \E own : Core(mem, own, flat, out)
  BY DEF Inv, Kept

\* The memory that a write needs.
LEMMA EnoughIs ==
    ASSUME NEW own, Core(mem, own, flat, out), NEW p \in Blocks, mem.io[p].count > 0, NEW cells,
           NEW n \in Nat, n = Len(cells), n > 0, Fits(p, cells)
    PROVE HeadSize <= mem.io[p].ptr /\ Enough(mem, own, p, mem.io[p].ptr + n - 1)
  <1> DEFINE data == Bytes(flat)
             at == mem.io[p].ptr
             list == ListOf(mem, p)
             k == at + n
             c == Cardinality(list)
  <1>1. MemOK(mem, own, data) /\ Chains(mem, own)
    BY CoreIs
  <1>2. at \in Nat
    BY CorePacket
  <1>3. HeadSize <= at /\ HasBlocks(list, k)
    <2>1. at \in HeadSize .. MaxSize - n /\ HasBlocks(list, k)
      BY DEF Fits
    <2> HIDE DEF at
    <2> QED
      BY <1>2, <2>1 DEF HeadSize
  <1>4. c = Len(own[p])
    BY <1>1, OwnedIs
  <1>5. c \in Nat
    <2> HIDE DEF data
    <2>1. Len(own[p]) \in Nat
      BY <1>1, LiveIs
    <2> QED
      BY <1>4, <2>1
  <1>6. k \in Nat /\ k > 0
    <2> HIDE DEF at
    <2> QED
      BY <1>2
  <1>7. K(k - 1) < c + Spare(mem, own)
    <2>1. MemOK(mem, own, data) /\ c \in Nat /\ c = Cardinality(list) /\ k \in Nat /\ k > 0 /\ HasBlocks(list, k)
      BY <1>1, <1>3, <1>5, <1>6
    <2> HIDE DEF data, c, k, list
    <2> QED
      BY ONLY <2>1, RoomIs
  <1> HIDE DEF data
  <1>8. K(at + n - 1) < Len(own[p]) + Spare(mem, own)
    <2>1. K(at + n - 1) < c + Spare(mem, own)
      <3>1. k - 1 = at + n - 1
        <4> HIDE DEF at
        <4> QED
          BY <1>2
      <3> HIDE DEF k
      <3> QED
        BY <1>7, <3>1
    <2> HIDE DEF c, k
    <2> QED
      BY ONLY <1>4, <2>1, Zenon
  <1> QED
    BY <1>3, <1>8 DEF Enough

\* One lemma for each action.
LEMMA WriteKeeps ==
    ASSUME Inv, NEW p \in Blocks, mem.io[p].count > 0, NEW cells \in Data, PktWrite(p, cells)
    PROVE Inv'
  <1> DEFINE n == Len(cells)
             f == FlatTold(FlatWrite(flat[p], cells))
  <1>1. PICK own : Core(mem, own, flat, out)
    BY HeldCore
  <1>2. cells \in Seq({0, 1}) /\ n \in Nat /\ n > 0
    BY DataIs
  <1>3. /\ Fits(p, cells) /\ Touch(p) /\ UNCHANGED <<out, seq, wire, sent>>
        /\ mem' = ResetSize(WriteLen(mem, p, cells), p) /\ flat' = FlatSet(flat, p, f)
    BY DEF PktWrite, Call, FlatSet
  <1>4. HeadSize <= mem.io[p].ptr /\ Enough(mem, own, p, mem.io[p].ptr + n - 1)
    BY <1>1, <1>2, <1>3, EnoughIs
  <1>5. Kept(mem', flat', out)
    BY <1>1, <1>2, <1>3, <1>4, WriteCore
  <1> HIDE DEF f
  <1> QED
    BY <1>3, <1>5, TouchKeeps

LEMMA DoubleKeeps ==
    ASSUME Inv, NEW p \in Blocks, mem.io[p].count > 0, NEW cells \in Data, PktWriteDouble(p, cells)
    PROVE Inv'
  <1> DEFINE n == Len(cells)
             f == FlatUntold(FlatWrite(flat[p], cells))
  <1>1. PICK own : Core(mem, own, flat, out)
    BY HeldCore
  <1>2. cells \in Seq({0, 1}) /\ n \in Nat /\ n > 0
    BY DataIs
  <1>3. /\ Fits(p, cells) /\ Touch(p) /\ UNCHANGED <<out, seq, wire, sent>>
        /\ mem' = WriteLen(mem, p, cells) /\ flat' = FlatSet(flat, p, f)
    BY DEF PktWriteDouble, Call, FlatSet, FlatUntold
  <1>4. HeadSize <= mem.io[p].ptr /\ Enough(mem, own, p, mem.io[p].ptr + n - 1)
    BY <1>1, <1>2, <1>3, EnoughIs
  <1>5. Kept(mem', flat', out)
    BY <1>1, <1>2, <1>3, <1>4, DoubleCore
  <1> HIDE DEF f
  <1> QED
    BY <1>3, <1>5, TouchKeeps

LEMMA SameBytesQueued ==
    ASSUME NEW fl, NEW fl2, SameBytes(fl, fl2), NEW q \in Seq(Node)
    PROVE \A j \in 1 .. Len(q) : fl2[q[j].pkt].data = fl[q[j].pkt].data
  <1> TAKE j \in 1 .. Len(q)
  <1>1. q[j].pkt \in Blocks
    BY NodeIs
  <1> QED
    BY <1>1 DEF SameBytes

LEMMA ReadKeeps ==
    ASSUME Inv, NEW p \in Blocks, mem.io[p].count > 0, PktRead(p)
    PROVE Inv'
  <1> DEFINE f == FlatSeek(flat[p], flat[p].at + 1)
  <1>1. PICK own : Core(mem, own, flat, out)
    BY HeldCore
  <1>2. /\ UNCHANGED <<out, seq, wire, sent, spoiled>>
        /\ mem' = ReadCell(mem, p) /\ flat' = FlatSet(flat, p, f)
    BY DEF PktRead, Call, FlatSet
  <1>3. Core(mem', own, flat', out) /\ SameBytes(flat, flat')
    BY <1>1, <1>2, ReadCore
  <1>4. Kept(mem', flat', out)
    BY <1>3 DEF Kept
  <1>5. \A j \in 1 .. Len(out) : flat'[out[j].pkt].data = flat[out[j].pkt].data
    BY <1>1, <1>3, CoreIs, SameBytesQueued
  <1> QED
    BY <1>2, <1>4, <1>5, ReadingKeeps

LEMMA SeekKeeps ==
    ASSUME Inv, NEW p \in Blocks, mem.io[p].count > 0, NEW n \in Nat, PktSeek(p, n)
    PROVE Inv'
  <1> DEFINE at == HeadSize + n
             f == FlatSeek(flat[p], at)
  <1>1. PICK own : Core(mem, own, flat, out)
    BY HeldCore
  <1>2. /\ UNCHANGED <<out, seq, wire, sent, spoiled>>
        /\ mem' = SeekCell(mem, p, at) /\ flat' = FlatSet(flat, p, f)
    BY DEF PktSeek, Call, FlatSet
  <1>3. at \in Nat
    BY DEF HeadSize
  <1> HIDE DEF at
  <1>4. Core(mem', own, flat', out) /\ SameBytes(flat, flat')
    BY <1>1, <1>2, <1>3, SeekCore
  <1>5. Kept(mem', flat', out)
    BY <1>4 DEF Kept
  <1>6. \A j \in 1 .. Len(out) : flat'[out[j].pkt].data = flat[out[j].pkt].data
    BY <1>1, <1>4, CoreIs, SameBytesQueued
  <1> QED
    BY <1>2, <1>5, <1>6, ReadingKeeps

LEMMA EraseKeeps ==
    ASSUME Inv, NEW p \in Blocks, mem.io[p].count > 0, NEW n \in Nat, PktErase(p, n)
    PROVE Inv'
  <1> DEFINE f == FlatTold(FlatErase(flat[p], n))
  <1>1. PICK own : Core(mem, own, flat, out)
    BY HeldCore
  <1>2. /\ Touch(p) /\ UNCHANGED <<out, seq, wire, sent>> /\ mem.io[p].size - n >= HeadSize
        /\ mem' = ResetSize(EraseCells(mem, p, n), p) /\ flat' = FlatSet(flat, p, f)
    BY DEF PktErase, Call, FlatSet
  <1>3. Core(mem', own, flat', out)
    BY <1>1, <1>2, EraseCore
  <1>4. Kept(mem', flat', out)
    BY <1>3 DEF Kept
  <1> HIDE DEF f
  <1> QED
    BY <1>2, <1>4, TouchKeeps

LEMMA EncodeKeeps ==
    ASSUME Inv, NEW p \in Blocks, mem.io[p].count > 0, PktEncode(p)
    PROVE Inv'
  <1> DEFINE c == IF flat[p].data[FlagPos + 1] = Plain THEN Encoded ELSE Plain
             f == [flat[p] EXCEPT !.data = FlatEncode(FlatHead(flat[p], FlagPos, c).data)]
  <1>1. PICK own : Core(mem, own, flat, out)
    BY HeldCore
  <1>2. /\ Touch(p) /\ UNCHANGED <<out, seq, wire, sent>>
        /\ mem' = SeekCell(EncodeCells(PutHead(mem, p, FlagPos, c), p), p, mem.io[p].ptr)
        /\ flat' = FlatSet(flat, p, f)
    BY DEF PktEncode, Call, FlatSet
  <1>3. c \in Nat
    BY DEF Plain, Encoded
  <1> HIDE DEF c
  <1>4. Core(mem', own, flat', out)
    BY <1>1, <1>2, <1>3, EncodeCore
  <1>5. Kept(mem', flat', out)
    BY <1>4 DEF Kept
  <1> HIDE DEF f
  <1> QED
    BY <1>2, <1>5, TouchKeeps

LEMMA DropKeeps ==
    ASSUME Inv, NEW p \in Blocks, mem.io[p].count > 0, PktDrop(p)
    PROVE Inv'
  <1>1. PICK own : Core(mem, own, flat, out)
    BY HeldCore
  <1>2. /\ UNCHANGED <<out, seq, wire, sent, spoiled>> /\ mem.io[p].mine > 0
        /\ mem' = [DropPacket(mem, p) EXCEPT !.io[p].mine = mem.io[p].mine - 1]
        /\ flat' = IF mem.io[p].count > 1 THEN flat ELSE FlatSet(flat, p, NoFlat)
    BY DEF PktDrop, Call, FlatSet
  <1>3. Kept(mem', flat', out) /\ SameFlats(flat, flat', out)
    BY <1>1, <1>2, DropCore
  <1>4. \A j \in 1 .. Len(out) : flat'[out[j].pkt].data = flat[out[j].pkt].data
    BY <1>3 DEF SameFlats
  <1> QED
    BY <1>2, <1>3, <1>4, ReadingKeeps

LEMMA FlushKeeps ==
    ASSUME Inv, NEW n \in Nat, PktFlush(n)
    PROVE Inv'
  <1>1. /\ seq \in 0 .. MaxSeq /\ wire \in Seq(Nat) /\ sent \in Seq(Seq(Nat)) /\ spoiled \in BOOLEAN
        /\ Kept(mem, flat, out) /\ SentOK(sent)
    BY DEF Inv
  <1>2. WriteData(mem, out, n) /\ seq' = seq /\ sent' = sent /\ spoiled' = spoiled
    BY DEF PktFlush
  <1>3. Kept(mem', flat', out') /\ wire' \in Seq(Nat)
    BY <1>1, <1>2, WriteDataKept
  <1>4. ASSUME ~spoiled PROVE WiredOn(flat', out', wire', sent)
    <2>1. WiredOn(flat, out, wire, sent)
      BY <1>4 DEF Inv
    <2> QED
      BY <1>1, <1>2, <2>1, WriteDataWired
  <1> QED
    BY <1>1, <1>2, <1>3, <1>4 DEF Inv

\* The number of the next packet.
LEMMA NextSeq ==
    ASSUME seq \in 0 .. MaxSeq, seq' = IF seq + 1 > MaxSeq THEN 1 ELSE seq + 1
    PROVE seq' \in 0 .. MaxSeq /\ seq' \in Nat
  <1>1. MaxSeq \in Nat \ {0}
    BY PacketAssumption
  <1> QED
    BY <1>1

LEMMA SendKeeps ==
    ASSUME Inv, NEW p \in Blocks, NEW n \in Nat, PktSend(p, n)
    PROVE Inv'
  <1> DEFINE c == seq'
             m1 == HoldOnce(mem, p)
             node == NodeOf(p, mem.io[p].size, c)
             q2 == Append(out, node)
             e == flat[p].data
             d == FlatHead(flat[p], SeqPos, c).data
  <1>1. /\ seq \in 0 .. MaxSeq /\ wire \in Seq(Nat) /\ sent \in Seq(Seq(Nat)) /\ spoiled \in BOOLEAN
        /\ Kept(mem, flat, out) /\ SentOK(sent)
    BY DEF Inv
  <1>2. /\ mem.io[p].mine > 0 /\ sent' = Append(sent, d) /\ spoiled' = (spoiled \/ flat[p].untold > 0)
        /\ WriteData(m1, q2, n) /\ c \in 0 .. MaxSeq /\ c \in Nat
    <2>1. c \in 0 .. MaxSeq /\ c \in Nat
      BY <1>1, NextSeq DEF PktSend
    <2> QED
      BY <2>1 DEF PktSend, HoldOnce, NodeOf
  <1>3. PICK own : Core(mem, own, flat, out)
    BY HeldCore
  <1>4. out \in Seq(Node) /\ mem.io[p].count > 0
    <2>1. /\ mem.io[p].count \in Nat /\ mem.io[p].mine \in Nat /\ Cardinality(Times(out, p)) \in Nat
          /\ mem.io[p].count = mem.io[p].mine + Cardinality(Times(out, p))
      BY <1>3, HeldBy
    <2> QED
      BY <1>2, <1>3, <2>1, CoreIs
  <1>5. /\ flat[p] \in FlatPacket /\ PacketFits(mem.io[p], flat[p]) /\ Len(e) = mem.io[p].size
        /\ mem.io[p].size \in Nat /\ e \in Seq(Nat)
    BY <1>3, <1>4, CorePacket
  <1>6. Body(e) /\ HeadSize <= Len(e) /\ flat[p].untold \in Nat /\ e[1] + flat[p].untold = Len(e)
    BY <1>5, FlatPacketIs DEF PacketFits
  <1>7. d = HeadSet(e, SeqPos, c)
    <2> DEFINE w == FlatHead(flat[p], SeqPos, c)
    <2>1. w = [data |-> HeadSet(e, SeqPos, c), at |-> flat[p].at, untold |-> flat[p].untold]
      BY <1>5, FlatHeadIs
    <2> HIDE DEF w
    <2>2. w.data = HeadSet(e, SeqPos, c)
      BY ONLY <2>1
    <2> QED
      BY <2>2 DEF w
  <1> HIDE DEF d, m1, q2, c, e
  <1>8. d \in Seq(Nat) /\ Len(d) = Len(e) /\ Body(d)
    <2> DEFINE at == SeqPos
    <2>1. e \in Seq(Nat) /\ at \in Nat /\ at < HeadSize /\ HeadSize <= Len(e) /\ c \in Nat /\ d = HeadSet(e, at, c)
      BY <1>2, <1>5, <1>6, <1>7 DEF SeqPos, HeadSize
    <2> HIDE DEF at
    <2>2. /\ d \in Seq(Nat) /\ Len(d) = Len(e) /\ d[at + 1] = c /\ at + 1 \in 1 .. Len(e)
          /\ \A i \in 1 .. Len(e) : i # at + 1 => d[i] = e[i]
          /\ Body(e) => Body(d)
      BY ONLY <2>1, HeadSetIs
    <2> QED
      BY <1>6, <2>2
  <1>9. node \in Node /\ Kept(m1, flat, q2)
    <2>1. /\ Core(mem, own, flat, out) /\ p \in Blocks /\ mem.io[p].mine > 0
          /\ m1 = HoldOnce(mem, p) /\ c \in Nat
          /\ node = NodeOf(p, mem.io[p].size, c) /\ q2 = Append(out, node)
      BY <1>2, <1>3 DEF m1, q2
    <2> HIDE DEF node
    <2>2. Core(m1, own, flat, q2)
      BY ONLY <2>1, SendCore
    <2>3. node \in Node
      BY ONLY <2>1, SendCore
    <2> QED
      BY <2>2, <2>3 DEF Kept
  <1>10. sent' \in Seq(Seq(Nat)) /\ SentOK(sent')
    <2>1. IsAppend(sent', sent, d, Seq(Nat))
      BY <1>1, <1>2, <1>8, AppendIs
    <2>2. SentOK(sent')
      <3> SUFFICES ASSUME NEW k \in 1 .. Len(sent') PROVE HeadSize <= Len(sent'[k]) /\ Body(sent'[k])
        BY DEF SentOK
      <3>1. CASE k \in 1 .. Len(sent)
        BY <1>1, <2>1, <3>1 DEF IsAppend, SentOK
      <3>2. CASE k = Len(sent')
        BY <1>6, <1>8, <2>1, <3>2 DEF IsAppend
      <3> QED
        BY <2>1, <3>1, <3>2 DEF IsAppend
    <2> QED
      BY <2>1, <2>2 DEF IsAppend
  <1>11. Kept(mem', flat', out') /\ wire' \in Seq(Nat)
    <2> HIDE DEF node
    <2> QED
      BY <1>1, <1>2, <1>9, WriteDataKept
  <1>12. spoiled' \in BOOLEAN
    BY <1>1, <1>2
  <1>13. ASSUME ~spoiled' PROVE WiredOn(flat', out', wire', sent')
    <2>1. ~spoiled /\ ~(flat[p].untold > 0)
      BY <1>1, <1>2, <1>13
    <2>2. e[1] = Len(e)
      <3> DEFINE u == flat[p].untold
                 x == e[1]
                 l == Len(e)
      <3>1. u \in Nat /\ ~(u > 0) /\ x + u = l /\ l \in Nat /\ x \in Nat
        <4>1. 1 \in 1 .. Len(e)
          BY <1>5, <1>6 DEF HeadSize
        <4> QED
          BY <1>5, <1>6, <2>1, <4>1
      <3> HIDE DEF u, x, l
      <3>2. x = l
        BY ONLY <3>1
      <3> QED
        BY <3>2 DEF x, l
    <2>3. WiredOn(flat, out, wire, sent)
      BY <2>1 DEF Inv
    <2> DEFINE st == sent'
    <2>4. /\ sent \in Seq(Seq(Nat)) /\ out \in Seq(Node) /\ wire \in Seq(Nat) /\ WiredOn(flat, out, wire, sent)
          /\ e \in Seq(Nat) /\ e = flat[p].data /\ HeadSize <= Len(e) /\ e[1] = Len(e) /\ c \in Nat
          /\ d = HeadSet(e, SeqPos, c) /\ st = Append(sent, d) /\ node \in Node /\ node.pkt = p
          /\ node.left = Len(e) /\ node.done = 0 /\ node.seq = c /\ q2 = Append(out, node)
      <3>1. node.pkt = p /\ node.left = Len(e) /\ node.done = 0 /\ node.seq = c
        BY <1>5 DEF NodeOf
      <3> HIDE DEF node
      <3> QED
        BY <1>1, <1>2, <1>4, <1>5, <1>6, <1>7, <1>9, <2>2, <2>3, <3>1 DEF e, q2
    <2> HIDE DEF node, st
    <2>5. WiredOn(flat, q2, wire, st)
      BY ONLY <2>4, SendWired
    <2>6. st \in Seq(Seq(Nat))
      BY <1>10 DEF st
    <2>7. WiredOn(flat', out', wire', st)
      BY <1>1, <1>2, <1>9, <2>5, <2>6, WriteDataWired
    <2> QED
      BY <2>7 DEF st
  <1>14. seq' \in 0 .. MaxSeq
    BY <1>2 DEF c
  <1> QED
    BY <1>10, <1>11, <1>12, <1>13, <1>14 DEF Inv

\* The block of a new packet.
LEMMA NewKeeps ==
    ASSUME Inv, UNCHANGED <<out, seq, wire, sent, spoiled>>, NEW b \in Blocks, NEW f, flat' = FlatSet(flat, b, f),
           NotQueued(out, b), Kept(mem', flat', out)
    PROVE Inv'
  <1>1. PICK own : Core(mem, own, flat, out)
    BY HeldCore
  <1>2. flat \in [Blocks -> FlatPacket] /\ out \in Seq(Node)
    BY <1>1, CoreIs
  <1>3. \A j \in 1 .. Len(out) : flat'[out[j].pkt].data = flat[out[j].pkt].data
    <2> TAKE j \in 1 .. Len(out)
    <2>1. out[j] \in Node
      BY <1>2
    <2>2. out[j].pkt \in Blocks /\ out[j].pkt # b
      BY <2>1, NodeIs DEF NotQueued
    <2> QED
      BY <1>2, <2>2 DEF FlatSet
  <1> QED
    BY <1>3, ReadingKeeps

\* The memory that a packet needs.
LEMMA NewRoom ==
    ASSUME NEW own, Core(mem, own, flat, out), NEW n \in Nat, n > 0, HasBlocks({}, n)
    PROVE K(n - 1) < Spare(mem, own)
  <1> DEFINE data == Bytes(flat)
             c == Cardinality({})
             s == Spare(mem, own)
  <1>1. MemOK(mem, own, data) /\ c = 0
    BY CoreIs, FS_EmptySet
  <1>2. s \in Nat
    <2> HIDE DEF data
    <2> QED
      BY <1>1, SpareIs
  <1>3. K(n - 1) < c + s
    <2>1. \A list : list = {} => HasBlocks(list, n) /\ c = Cardinality(list)
      OBVIOUS
    <2>2. PICK list : list = {}
      OBVIOUS
    <2>3. MemOK(mem, own, data) /\ c \in Nat /\ c = Cardinality(list) /\ n \in Nat /\ n > 0 /\ HasBlocks(list, n)
      BY <1>1, <2>1, <2>2
    <2> HIDE DEF data, c, s
    <2> QED
      BY ONLY <2>3, RoomIs DEF s
  <1> HIDE DEF s, c
  <1>4. c + s = s
    BY <1>1, <1>2
  <1> QED
    BY <1>3, <1>4 DEF s

LEMMA InitKeeps ==
    ASSUME Inv, PktInit
    PROVE Inv'
  <1> DEFINE b == NewBlock(mem)
             f == [data |-> <<HeadSize, Plain, 0>>, at |-> HeadSize, untold |-> 0]
  <1>1. PICK own : Core(mem, own, flat, out)
    BY HeldCore
  <1>2. /\ UNCHANGED <<out, seq, wire, sent, spoiled>> /\ HasBlocks({}, HeadSize)
        /\ mem' = InitPacket(mem) /\ flat' = [flat EXCEPT ![b] = [NoFlat EXCEPT !.data = <<HeadSize, Plain, 0>>, !.at = HeadSize]]
    BY DEF PktInit
  <1>3. [NoFlat EXCEPT !.data = <<HeadSize, Plain, 0>>, !.at = HeadSize] = f
    <2> DEFINE d == <<HeadSize, Plain, 0>>
               g == [NoFlat EXCEPT !.data = d]
    <2> HIDE DEF d
    <2>0. g = [data |-> d, at |-> 0, untold |-> 0]
      BY DEF NoFlat
    <2>2. [NoFlat EXCEPT !.data = d, !.at = HeadSize] = [g EXCEPT !.at = HeadSize]
      OBVIOUS
    <2> HIDE DEF g
    <2>3. [g EXCEPT !.at = HeadSize] = [data |-> d, at |-> HeadSize, untold |-> 0]
      BY <2>0
    <2>1. [NoFlat EXCEPT !.data = d, !.at = HeadSize] = [data |-> d, at |-> HeadSize, untold |-> 0]
      BY <2>2, <2>3
    <2> QED
      BY <2>1 DEF d
  <1>4. flat' = FlatSet(flat, b, f)
    BY <1>2, <1>3 DEF FlatSet
  <1>5. K(HeadSize - 1) < Spare(mem, own)
    <2> DEFINE n == HeadSize
    <2>1. n \in Nat /\ n > 0 /\ HasBlocks({}, n)
      BY <1>2 DEF HeadSize
    <2> HIDE DEF n
    <2>2. K(n - 1) < Spare(mem, own)
      BY <1>1, <2>1, NewRoom
    <2> QED
      BY <2>2 DEF n
  <1>6. b \in Blocks /\ Kept(mem', flat', out) /\ NotQueued(out, b)
    <2>1. Core(mem, own, flat, out) /\ K(HeadSize - 1) < Spare(mem, own) /\ b = NewBlock(mem) /\ mem' = InitPacket(mem)
          /\ f = [data |-> <<HeadSize, Plain, 0>>, at |-> HeadSize, untold |-> 0] /\ flat' = FlatSet(flat, b, f)
      BY <1>1, <1>2, <1>4, <1>5
    <2> HIDE DEF b, f
    <2> QED
      BY ONLY <2>1, InitCore
  <1> HIDE DEF b, f
  <1> QED
    BY <1>2, <1>4, <1>6, NewKeeps

\* A part of the wire.
LEMMA PartIs ==
    ASSUME NEW w \in Seq(Nat), NEW at \in Nat, NEW n \in Nat, n > 0, at + n <= Len(w), NEW f \in Seq(Nat), Len(f) = n,
           \A i \in 1 .. n : w[at + i] = f[i], NEW x, x = at + 1, NEW y, y = at + n
    PROVE SubSeq(w, x, y) = f
  <1> DEFINE p == SubSeq(w, x, y)
  <1>1. x \in 1 .. Len(w) + 1 /\ y \in x - 1 .. Len(w) /\ y - x + 1 = n /\ x <= y /\ x \in Nat /\ y \in Nat
    <2> DEFINE l == Len(w)
    <2>1. l \in Nat /\ at + n <= l
      OBVIOUS
    <2> HIDE DEF l
    <2>2. x \in 1 .. l + 1 /\ y \in x - 1 .. l /\ y - x + 1 = n /\ x <= y /\ x \in Nat /\ y \in Nat
      BY <2>1
    <2> QED
      BY <2>2 DEF l
  <1>2. p \in Seq(Nat) /\ Len(p) = n /\ \A i \in 1 .. n : p[i] = w[x + i - 1]
    <2>1. \A i \in x .. y : w[i] \in Nat
      BY <1>1
    <2>2. /\ SubSeq(w, x, y) \in Seq(Nat) /\ Len(SubSeq(w, x, y)) = (IF x <= y THEN y - x + 1 ELSE 0)
          /\ \A i \in 1 .. y - x + 1 : SubSeq(w, x, y)[i] = w[x + i - 1]
      <3>1. x \in Int /\ y \in Int
        BY <1>1
      <3> QED
        BY ONLY <2>1, <3>1, SubSeqProperties
    <2> QED
      BY <1>1, <2>2
  <1>3. \A i \in 1 .. n : x + i - 1 = at + i
    OBVIOUS
  <1>4. \A i \in 1 .. n : p[i] = f[i]
    BY <1>2, <1>3
  <1> HIDE DEF p
  <1>5. p = f
    BY <1>2, <1>4
  <1> QED
    BY <1>5 DEF p

\* Where a frame begins is a frame that was sent.
Frame(w, at) == at + HeadSize <= Len(w) /\ w[at + 1] \in HeadSize .. Len(w) - at
FrameSent(off, k, w, at, st) ==
    /\ k + 1 \in 1 .. Len(st) /\ st[k + 1] = SubSeq(w, at + 1, at + w[at + 1]) /\ w[at + 1] = Len(st[k + 1])
    /\ off[k + 1] = at + w[at + 1] /\ w[at + 1] \in Nat /\ st[k + 1][1] = Len(st[k + 1])

\* A head on the wire, where a frame begins, is the head of the frame that was sent.
LEMMA FrameIs ==
    ASSUME NEW st \in Seq(Seq(Nat)), NEW q \in Seq(Node), NEW off, Offsets(off, st), NEW w \in Seq(Nat),
           WireOK(off, q, w, st), NEW fl, FramesOK(fl, q, st), SentOK(st), NEW k \in 0 .. Len(st),
           NEW at, at = off[k], Frame(w, at)
    PROVE FrameSent(off, k, w, at, st)
  <1> DEFINE N == Len(st)
             l == Len(w)
             f == st[k + 1]
             n == w[at + 1]
  <1>1. N \in Nat /\ l \in Nat
    OBVIOUS
  <1>2. off \in [0 .. N -> Nat] /\ \A i \in 1 .. N : off[i] = off[i - 1] + Len(st[i])
    BY DEF Offsets
  <1>3. at \in Nat
    BY <1>2
  <1>4. HeadSize = 3
    BY DEF HeadSize
  <1>5. at + HeadSize <= l /\ n \in HeadSize .. l - at
    BY DEF Frame
  <1>6. k # N
    <2> SUFFICES ASSUME k = N PROVE FALSE
      OBVIOUS
    <2>1. l <= at
      BY WireEnd
    <2> HIDE DEF l
    <2> QED
      BY <1>1, <1>3, <1>4, <1>5, <2>1
  <1>7. k + 1 \in 1 .. N /\ (k + 1) - 1 = k
    <2> HIDE DEF N
    <2>1. k \in 0 .. N
      BY DEF N
    <2> QED
      BY ONLY <1>1, <1>6, <2>1
  <1>8. f \in Seq(Nat)
    BY <1>7
  <1> DEFINE m == Len(f)
  <1>9. m \in Nat /\ HeadSize <= m /\ f[1] = m
    <2>1. m \in Nat
      BY ONLY <1>8
    <2>2. HeadSize <= m
      BY <1>7 DEF SentOK
    <2>3. f[1] = m
      BY <1>7 DEF FramesOK
    <2> QED
      BY <2>1, <2>2, <2>3
  <1>10. off[k + 1] = at + m
    <2> DEFINE j == k + 1
    <2>1. j \in 1 .. N /\ j - 1 = k
      BY <1>7
    <2> HIDE DEF j
    <2>2. off[j] = off[j - 1] + Len(st[j])
      BY <1>2, <2>1
    <2> QED
      BY <2>1, <2>2 DEF j
  <1>11. \A i \in 1 .. m : at + i <= l => w[at + i] = f[i]
    <2> DEFINE j == k + 1
    <2>1. j \in 1 .. N /\ j - 1 = k
      BY <1>7
    <2>2. Written_(off, w, st)
      BY DEF WireOK
    <2> HIDE DEF j, m, f
    <2>3. \A i \in 1 .. Len(st[j]) : off[j - 1] + i <= Len(w) => w[off[j - 1] + i] = st[j][i]
      BY ONLY <2>1, <2>2 DEF Written_, N
    <2> QED
      BY <2>1, <2>3 DEF j, m, f
  <1> HIDE DEF f, m, N, l
  <1>12. n = m
    <2>1. 1 \in 1 .. m /\ at + 1 <= l
      BY <1>1, <1>3, <1>4, <1>5, <1>9
    <2> QED
      BY <1>9, <1>11, <2>1
  <1>13. at + m <= l
    <2>1. m \in HeadSize .. l - at
      BY <1>5, <1>12
    <2> HIDE DEF n
    <2> QED
      BY ONLY <1>1, <1>3, <1>4, <2>1
  <1>14. \A i \in 1 .. m : w[at + i] = f[i]
    <2>1. \A i \in 1 .. m : at + i <= l
      BY ONLY <1>1, <1>3, <1>9, <1>13
    <2> QED
      BY <1>11, <2>1
  <1>15. SubSeq(w, at + 1, at + m) = f
    <2> DEFINE x == at + 1
               y == at + m
    <2>1. w \in Seq(Nat) /\ at \in Nat /\ m \in Nat /\ m > 0 /\ at + m <= Len(w) /\ f \in Seq(Nat) /\ Len(f) = m
          /\ (\A i \in 1 .. m : w[at + i] = f[i]) /\ x = at + 1 /\ y = at + m
      BY <1>3, <1>4, <1>8, <1>9, <1>13, <1>14 DEF l, m
    <2> HIDE DEF x, y
    <2>2. SubSeq(w, x, y) = f
      BY ONLY <2>1, PartIs
    <2> QED
      BY <2>2 DEF x, y
  <1> QED
    BY <1>7, <1>9, <1>10, <1>12, <1>15 DEF FrameSent, f, m, N

\* The first frame on the wire is the first that was sent.
LEMMA FirstFrame ==
    ASSUME Inv, ~spoiled, Len(wire) >= HeadSize, wire[1] \in HeadSize .. Len(wire),
           NEW cells, cells = SubSeq(wire, 1, wire[1])
    PROVE cells \in Seq(Nat) /\ wire[1] = Len(cells) /\ cells[1] = Len(cells) /\ Len(cells) >= HeadSize /\ Body(cells)
          /\ Len(cells) \in Nat
  <1> DEFINE at == 0
             n == wire[1]
             k == 0
  <1>1. wire \in Seq(Nat) /\ sent \in Seq(Seq(Nat)) /\ SentOK(sent) /\ WiredOn(flat, out, wire, sent)
    BY DEF Inv
  <1>2. PICK own : Core(mem, own, flat, out)
    BY HeldCore
  <1>3. out \in Seq(Node)
    BY <1>2, CoreIs
  <1>4. PICK off : Offsets(off, sent) /\ WireOK(off, out, wire, sent) /\ FramesOK(flat, out, sent)
    BY <1>1 DEF WiredOn
  <1>5. at = off[k] /\ k \in 0 .. Len(sent) /\ at + 1 = 1 /\ k + 1 = 1
    <2>1. Len(sent) \in Nat
      BY <1>1
    <2> QED
      BY <1>4, <2>1 DEF Offsets
  <1>6. Frame(wire, at)
    <2> DEFINE l == Len(wire)
    <2>1. l \in Nat /\ l >= HeadSize /\ n \in HeadSize .. l
      BY <1>1
    <2> HIDE DEF l
    <2>2. at + HeadSize <= l /\ n \in HeadSize .. l - at
      BY <2>1 DEF HeadSize
    <2> QED
      BY <2>2 DEF Frame, l
  <1> HIDE DEF at, k
  <1>7. FrameSent(off, k, wire, at, sent)
    BY <1>1, <1>3, <1>4, <1>5, <1>6, FrameIs
  <1>8. /\ k + 1 \in 1 .. Len(sent) /\ sent[k + 1] = SubSeq(wire, at + 1, at + n) /\ n = Len(sent[k + 1])
        /\ n \in Nat /\ sent[k + 1][1] = Len(sent[k + 1])
    BY <1>5, <1>7 DEF FrameSent
  <1>9. at + n = n
    <2> DEFINE l == n
    <2>1. l \in Nat
      BY <1>8
    <2> HIDE DEF l
    <2>2. 0 + l = l
      BY <2>1
    <2> QED
      BY <2>2 DEF at, l
  <1>10. 1 \in 1 .. Len(sent) /\ sent[1] = cells /\ n = Len(sent[1]) /\ sent[1][1] = Len(sent[1])
    BY <1>5, <1>8, <1>9
  <1>11. HeadSize <= Len(sent[1]) /\ Body(sent[1])
    <2> DEFINE j == 1
    <2>1. j \in 1 .. Len(sent)
      BY <1>10
    <2> HIDE DEF j
    <2>2. HeadSize <= Len(sent[j]) /\ Body(sent[j])
      BY <1>1, <2>1 DEF SentOK
    <2> QED
      BY <2>2 DEF j
  <1>12. sent[1] \in Seq(Nat)
    BY ONLY <1>1, <1>10
  <1> QED
    BY <1>8, <1>10, <1>11, <1>12 DEF HeadSize

LEMMA ParseKeeps ==
    ASSUME Inv, PktParse
    PROVE Inv'
  <1> DEFINE b == NewBlock(mem)
             cells == SubSeq(wire, 1, wire[1])
             f == [data |-> cells, at |-> HeadSize, untold |-> 0]
             n == Len(cells)
  <1>1. PICK own : Core(mem, own, flat, out)
    BY HeldCore
  <1>2. /\ UNCHANGED <<out, seq, wire, sent, spoiled>> /\ HasBlocks({}, wire[1]) /\ ~spoiled
        /\ Len(wire) >= HeadSize /\ wire[1] \in HeadSize .. Len(wire)
        /\ mem' = SeekCell(WriteLen(SeekCell(InitPacket(mem), b, 0), b, cells), b, HeadSize)
        /\ flat' = [flat EXCEPT ![b] = [NoFlat EXCEPT !.data = cells, !.at = HeadSize]]
    BY DEF PktParse
  <1>3. /\ cells \in Seq(Nat) /\ wire[1] = n /\ cells[1] = n /\ n >= HeadSize /\ Body(cells) /\ n \in Nat
    <2> DEFINE c == cells
    <2>1. c = SubSeq(wire, 1, wire[1])
      OBVIOUS
    <2> HIDE DEF c
    <2>2. c \in Seq(Nat) /\ wire[1] = Len(c) /\ c[1] = Len(c) /\ Len(c) >= HeadSize /\ Body(c) /\ Len(c) \in Nat
      BY ONLY Inv, <1>2, <2>1, FirstFrame
    <2> QED
      BY <2>2 DEF c
  <1> HIDE DEF cells
  <1>4. [NoFlat EXCEPT !.data = cells, !.at = HeadSize] = f
    <2> DEFINE g == [NoFlat EXCEPT !.data = cells]
    <2>1. g = [data |-> cells, at |-> 0, untold |-> 0]
      BY DEF NoFlat
    <2>2. [NoFlat EXCEPT !.data = cells, !.at = HeadSize] = [g EXCEPT !.at = HeadSize]
      OBVIOUS
    <2> HIDE DEF g
    <2>3. [g EXCEPT !.at = HeadSize] = [data |-> cells, at |-> HeadSize, untold |-> 0]
      BY <2>1
    <2> QED
      BY <2>2, <2>3
  <1>5. flat' = FlatSet(flat, b, f)
    BY <1>2, <1>4 DEF FlatSet
  <1>6. K(n - 1) < Spare(mem, own)
    <2>1. n \in Nat /\ n > 0 /\ HasBlocks({}, n)
      BY <1>2, <1>3 DEF HeadSize
    <2> HIDE DEF n
    <2> QED
      BY <1>1, <2>1, NewRoom
  <1>7. b \in Blocks /\ Kept(mem', flat', out) /\ NotQueued(out, b)
    <2>1. Core(mem, own, flat, out) /\ cells \in Seq(Nat) /\ n = Len(cells) /\ n >= HeadSize /\ cells[1] = n /\ Body(cells)
          /\ K(n - 1) < Spare(mem, own) /\ b = NewBlock(mem)
          /\ mem' = SeekCell(WriteLen(SeekCell(InitPacket(mem), b, 0), b, cells), b, HeadSize)
          /\ f = [data |-> cells, at |-> HeadSize, untold |-> 0] /\ flat' = FlatSet(flat, b, f)
      BY <1>1, <1>2, <1>3, <1>5, <1>6
    <2> HIDE DEF b, f, n
    <2> QED
      BY ONLY <2>1, ParseCore
  <1> HIDE DEF b, f
  <1> QED
    BY <1>2, <1>5, <1>7, NewKeeps

-----------------------------------------------------------------------------
\* The ends of frames.
Ends(w, N) ==
    LET end[i \in 0 .. N] ==
            IF i = 0 THEN 0 ELSE end[i - 1] + IF Frame(w, end[i - 1]) THEN w[end[i - 1] + 1] ELSE 0
    IN  end
EndsFollow(F, w, N) ==
    \A i \in 0 .. N : F[i] = IF i = 0 THEN 0 ELSE F[i - 1] + IF Frame(w, F[i - 1]) THEN w[F[i - 1] + 1] ELSE 0

\* The function that CHOOSE defines for them satisfies its equation.
LEMMA EndsAre ==
    ASSUME NEW N \in Nat, NEW w, NEW F, F = Ends(w, N)
    PROVE EndsFollow(F, w, N)
  <1> DEFINE Step(i, before) == IF i = 0 THEN 0 ELSE before + IF Frame(w, before) THEN w[before + 1] ELSE 0
             Once(f) == [i \in 0 .. N |-> Step(i, f[i - 1])]
             Upto(k, f) == f = [i \in 0 .. k |-> Step(i, f[i - 1])]
             T == {k \in 0 .. N : \E f : Upto(k, f)}
  <1>1. 0 \in T
    <2> DEFINE f == [i \in 0 .. 0 |-> 0]
    <2>1. \A i \in 0 .. 0 : Step(i, f[i - 1]) = 0
      OBVIOUS
    <2> HIDE DEF Step
    <2>2. Upto(0, f)
      BY <2>1
    <2>3. 0 \in 0 .. N
      OBVIOUS
    <2> HIDE DEF Upto, f
    <2> QED
      BY <2>2, <2>3
  <1>2. ASSUME NEW k \in 0 .. N - 1, k \in T PROVE k + 1 \in T
    <2>1. PICK f : Upto(k, f)
      BY <1>2
    <2> DEFINE g == [i \in 0 .. k + 1 |-> IF i <= k THEN f[i] ELSE Step(k + 1, f[k])]
    <2> HIDE DEF Step
    <2>2. \A i \in 0 .. k : f[i] = Step(i, f[i - 1])
      <3>1. f = [i \in 0 .. k |-> Step(i, f[i - 1])]
        BY <2>1
      <3> QED
        BY <3>1, Zenon
    <2>3. \A i \in 0 .. k + 1 : g[i] = Step(i, g[i - 1])
      <3> SUFFICES ASSUME NEW i \in 0 .. k + 1 PROVE g[i] = Step(i, g[i - 1])
        OBVIOUS
      <3>1. CASE i = 0
        <4>1. g[0] = f[0] /\ f[0] = Step(0, f[0 - 1])
          BY <2>2
        <4>2. \A x : Step(0, x) = 0
          BY DEF Step
        <4> HIDE DEF g
        <4> QED
          BY <3>1, <4>1, <4>2
      <3>2. CASE i \in 1 .. k
        <4>1. g[i] = f[i] /\ g[i - 1] = f[i - 1] /\ f[i] = Step(i, f[i - 1])
          BY <2>2, <3>2
        <4> QED
          BY <4>1, Zenon
      <3>3. CASE i = k + 1
        <4>1. g[k + 1] = Step(k + 1, f[k]) /\ g[k] = f[k] /\ (k + 1) - 1 = k
          OBVIOUS
        <4> HIDE DEF g
        <4> QED
          BY <3>3, <4>1
      <3> QED
        BY <3>1, <3>2, <3>3
    <2>4. Upto(k + 1, g)
      <3> DEFINE h == [i \in 0 .. k + 1 |-> Step(i, g[i - 1])]
      <3>1. \A i \in 0 .. k + 1 : g[i] = h[i]
        <4> HIDE DEF g
        <4> QED
          BY <2>3
      <3>2. g = [i \in 0 .. k + 1 |-> g[i]]
        OBVIOUS
      <3>3. h = [i \in 0 .. k + 1 |-> h[i]]
        OBVIOUS
      <3> HIDE DEF h, g
      <3>4. g = h
        BY <3>1, <3>2, <3>3
      <3> QED
        BY <3>4 DEF h
    <2> HIDE DEF Upto
    <2> QED
      BY <2>4
  <1>3. \E f : f = Once(f)
    <2> HIDE DEF Upto
    <2>1. N \in T
      <3> HIDE DEF T
      <3>1. 0 .. N \subseteq T
        BY <1>1, <1>2, IntervalInduction
      <3> QED
        BY <3>1
    <2>2. PICK f : Upto(N, f)
      BY <2>1
    <2> HIDE DEF Step
    <2> QED
      BY <2>2 DEF Upto
  <1>4. F = CHOOSE f : f = Once(f)
    BY Zenon DEF Ends
  <1> HIDE DEF Once
  <1>5. F = Once(F)
    BY <1>3, <1>4, Zenon
  <1> HIDE DEF Step
  <1>6. \A i \in 0 .. N : F[i] = Step(i, F[i - 1])
    BY <1>5, Zenon DEF Once
  <1> QED
    BY <1>6, Zenon DEF Step, EndsFollow

\* All frames on the wire, as the peer finds them.
LEMMA FramesAre ==
    ASSUME Inv, ~spoiled, NEW i \in 0 .. MaxSends, HasFrame(FrameEnds[i])
    PROVE i < Len(sent) /\ sent[i + 1] = SubSeq(wire, FrameEnds[i] + 1, FrameEnds[i] + wire[FrameEnds[i] + 1])
  <1> DEFINE F == FrameEnds
             N == MaxSends
             l == Len(sent)
  <1>1. wire \in Seq(Nat) /\ sent \in Seq(Seq(Nat)) /\ SentOK(sent) /\ WiredOn(flat, out, wire, sent)
    BY DEF Inv
  <1>2. PICK own : Core(mem, own, flat, out)
    BY HeldCore
  <1>3. out \in Seq(Node)
    BY <1>2, CoreIs
  <1>4. PICK off : Offsets(off, sent) /\ WireOK(off, out, wire, sent) /\ FramesOK(flat, out, sent)
    BY <1>1 DEF WiredOn
  <1>5. N \in Nat /\ l \in Nat
    BY <1>1, PacketAssumption
  <1>6. EndsFollow(F, wire, N)
    <2>1. F = Ends(wire, N)
      BY DEF FrameEnds, Ends, HasFrame, Frame
    <2> HIDE DEF F, N
    <2> QED
      BY <1>5, <2>1, EndsAre
  <1> HIDE DEF F
  <1> DEFINE Good(k) == k \in 0 .. l /\ F[k] = off[k]
             T == {k \in 0 .. N : F[k] \in Nat /\ (Frame(wire, F[k]) => Good(k))}
  <1>7. \A k \in 0 .. l : off[k] \in Nat
    BY <1>4 DEF Offsets
  <1>8. \A k \in 0 .. l : Frame(wire, off[k]) => FrameSent(off, k, wire, off[k], sent)
    <2> TAKE k \in 0 .. l
    <2> DEFINE at == off[k]
    <2>1. HAVE Frame(wire, at)
    <2>2. at = off[k] /\ k \in 0 .. Len(sent)
      OBVIOUS
    <2> HIDE DEF at
    <2>3. FrameSent(off, k, wire, at, sent)
      BY <1>1, <1>3, <1>4, <2>1, <2>2, FrameIs
    <2> QED
      BY <2>3 DEF at
  <1> HIDE DEF l, N
  <1>9. 0 \in T
    <2>1. F[0] = 0 /\ 0 \in 0 .. N /\ 0 \in 0 .. l
      BY <1>5, <1>6 DEF EndsFollow
    <2>2. off[0] = 0
      BY <1>4 DEF Offsets
    <2> QED
      BY <2>1, <2>2
  <1>10. \A k \in 0 .. N - 1 : k \in T => k + 1 \in T
    <2> SUFFICES ASSUME NEW k \in 0 .. N - 1, k \in T PROVE k + 1 \in T
      OBVIOUS
    <2> DEFINE j == k + 1
               x == F[k]
               y == F[j]
    <2>1. j \in 0 .. N /\ j # 0 /\ j - 1 = k /\ k \in Nat
      BY <1>5
    <2>2. x \in Nat /\ (Frame(wire, x) => Good(k))
      OBVIOUS
    <2> HIDE DEF j
    <2>3. y = x + IF Frame(wire, x) THEN wire[x + 1] ELSE 0
      BY <1>6, <2>1 DEF EndsFollow
    <2> HIDE DEF y, x, Good
    <2>4. CASE Frame(wire, x)
      <3>1. k \in 0 .. l /\ x = off[k]
        BY <2>2, <2>4 DEF Good, x
      <3>2. FrameSent(off, k, wire, x, sent)
        BY <1>8, <2>4, <3>1
      <3>3. j \in 1 .. l /\ off[j] = x + wire[x + 1] /\ wire[x + 1] \in Nat
        BY <3>2 DEF FrameSent, j, l
      <3>4. y = off[j] /\ y \in Nat /\ j \in 0 .. l
        BY <1>5, <2>2, <2>3, <2>4, <3>3
      <3>5. Good(j)
        BY <3>4 DEF Good, y
      <3> QED
        BY <2>1, <3>4, <3>5 DEF y, j
    <2>5. CASE ~Frame(wire, x)
      <3>1. y = x
        BY <2>2, <2>3, <2>5
      <3> QED
        BY <2>1, <2>2, <2>5, <3>1 DEF y, j
    <2> QED
      BY <2>4, <2>5
  <1> HIDE DEF T
  <1>11. 0 .. N \subseteq T
    BY <1>5, <1>9, <1>10, IntervalInduction
  <1>12. i \in 0 .. l /\ F[i] = off[i] /\ Frame(wire, F[i])
    <2>1. i \in T
      BY <1>11 DEF N
    <2>2. Frame(wire, F[i])
      BY DEF HasFrame, Frame, F
    <2> QED
      BY <2>1, <2>2 DEF T
  <1>13. FrameSent(off, i, wire, F[i], sent)
    BY <1>8, <1>12
  <1>14. i + 1 \in 1 .. l /\ sent[i + 1] = SubSeq(wire, F[i] + 1, F[i] + wire[F[i] + 1])
    BY <1>13 DEF FrameSent, l
  <1>15. i < l
    BY <1>5, <1>12, <1>14
  <1> QED
    BY <1>14, <1>15 DEF l, F
-----------------------------------------------------------------------------
\* In the first state no block was made.
LEMMA InvInit ==
    ASSUME PacketInit
    PROVE Inv
  <1> DEFINE own == [x \in Owners |-> <<>>]
             off == [k \in 0 .. 0 |-> 0]
             none == [b \in Blocks |-> NoIO]
             next == [b \in Blocks |-> 0]
             cell == [b \in Blocks |-> [i \in 0 .. BlockSize - 1 |-> 0]]
  <1>1. /\ mem = [cell |-> cell, next |-> next, free |-> 0, made |-> 0, io |-> none]
        /\ flat = [b \in Blocks |-> NoFlat]
        /\ out = <<>> /\ seq = 0 /\ wire = <<>> /\ sent = <<>> /\ spoiled = FALSE
    BY DEF PacketInit
  <1>2. NumBlocks \in Nat /\ BlockSize \in Nat /\ BlockSize > 0 /\ MaxSeq \in Nat
    BY PacketAssumption
  <1>3. mem \in Memory
    <2>1. NoIO \in IORecord
      BY <1>2 DEF NoIO, IORecord
    <2>2. none \in [Blocks -> IORecord]
      BY <2>1
    <2>3. next \in [Blocks -> 0 .. NumBlocks]
      BY <1>2
    <2>4. cell \in [Blocks -> [0 .. BlockSize - 1 -> Nat]]
      OBVIOUS
    <2>5. 0 \in 0 .. NumBlocks
      BY <1>2
    <2> HIDE DEF none, next, cell
    <2> QED
      BY <1>1, <2>2, <2>3, <2>4, <2>5 DEF Memory
  <1>4. /\ mem.made = 0 /\ mem.free = 0 /\ mem.next = next /\ mem.io = none
        /\ \A p \in Blocks : mem.io[p].count = 0 /\ mem.io[p].mine = 0
    <2>1. mem.made = 0 /\ mem.free = 0 /\ mem.next = next /\ mem.io = none
      <3> HIDE DEF none, next, cell
      <3> QED
        BY <1>1
    <2> QED
      BY <2>1 DEF NoIO
  <1>5. Chains(mem, own)
    <2>1. own \in [Owners -> Seq(Blocks)] /\ \A x \in Owners : own[x] = <<>> /\ Len(own[x]) = 0
      OBVIOUS
    <2> HIDE DEF own, none, next
    <2>2. Apart(own)
      BY <2>1 DEF Apart
    <2>3. Covers(own, mem.made)
      BY <2>1, <1>4 DEF Covers
    <2>4. 0 \in Owners /\ \A p \in Blocks : p \in Owners
      BY <1>2 DEF Owners, Blocks
    <2>5. Threaded(own[0], mem.free, mem.next)
      BY <2>1, <2>4, <1>4 DEF Threaded
    <2>6. Linked(mem, own)
      BY <2>1, <2>4, <2>5, <1>4 DEF Linked
    <2> QED
      BY <2>1, <2>2, <2>3, <2>6 DEF Chains
  <1>6. flat \in [Blocks -> FlatPacket] /\ Bytes(flat) \in [Blocks -> Seq(Nat)]
    <2>1. NoFlat \in FlatPacket
      BY DEF NoFlat, FlatPacket
    <2>2. flat \in [Blocks -> FlatPacket]
      BY <1>1, <2>1
    <2>3. \A p \in Blocks : flat[p].data \in Seq(Nat)
      BY <2>2 DEF FlatPacket
    <2> QED
      BY <2>2, <2>3 DEF Bytes
  <1> HIDE DEF own, none, next, cell
  <1>7. MemOK(mem, own, Bytes(flat))
    BY <1>3, <1>4, <1>5, <1>6 DEF MemOK
  <1>8. PacketsOK(mem, flat)
    BY <1>4 DEF PacketsOK
  <1>9. out \in Seq(Node) /\ Len(out) = 0 /\ Len(sent) = 0
    BY <1>1
  <1>10. RefsOK(mem, out)
    <2>1. \A p \in Blocks : Times(out, p) = {}
      BY <1>9 DEF Times
    <2>2. Cardinality({}) = 0
      BY FS_EmptySet
    <2> QED
      BY <1>4, <2>1, <2>2 DEF RefsOK
  <1>11. QueueOK(own, out)
    BY <1>9 DEF QueueOK
  <1>12. Core(mem, own, flat, out)
    BY <1>6, <1>7, <1>8, <1>9, <1>10, <1>11 DEF Core
  <1>13. Kept(mem, flat, out)
    BY <1>12 DEF Kept
  <1>14. WiredOn(flat, out, wire, sent)
    <2>1. Offsets(off, sent)
      BY <1>9 DEF Offsets
    <2>2. Len(wire) = 0 /\ off[0] = 0
      BY <1>1
    <2> HIDE DEF off
    <2>3. WireOK(off, out, wire, sent)
      BY <1>1, <1>9, <2>2 DEF WireOK, Written_
    <2>4. FramesOK(flat, out, sent)
      BY <1>9 DEF FramesOK
    <2> QED
      BY <2>1, <2>3, <2>4 DEF WiredOn
  <1>15. SentOK(sent)
    BY <1>9 DEF SentOK
  <1>16. seq \in 0 .. MaxSeq /\ wire \in Seq(Nat) /\ sent \in Seq(Seq(Nat)) /\ spoiled \in BOOLEAN
    <2>1. seq \in 0 .. MaxSeq
      <3>1. 0 \in 0 .. MaxSeq
        BY <1>2
      <3> QED
        BY <1>1, <3>1
    <2>2. wire \in Seq(Nat)
      BY <1>1
    <2>3. sent \in Seq(Seq(Nat))
      BY <1>1
    <2> QED
      BY <1>1, <2>1, <2>2, <2>3
  <1> QED
    BY <1>13, <1>14, <1>15, <1>16 DEF Inv

\* Every step keeps the invariant.
LEMMA StepKeeps ==
    ASSUME Inv, PacketNext
    PROVE Inv'
  <1>1. Accepted \subseteq Nat /\ MaxSize - HeadSize \in Int
    BY PacketAssumption DEF HeadSize
  <1>2. CASE PktInit
    BY <1>2, InitKeeps
  <1>3. CASE PktParse
    BY <1>3, ParseKeeps
  <1>4. CASE \E n \in Accepted \ {0} : PktFlush(n)
    <2>1. PICK n \in Nat : PktFlush(n)
      BY <1>1, <1>4
    <2> QED
      BY <2>1, FlushKeeps
  <1>5. ASSUME NEW p \in Live
        PROVE p \in Blocks /\ mem.io[p].count > 0
    BY <1>5 DEF Live
  <1>6. ASSUME NEW p \in Live, NEW cells \in Data, PktWrite(p, cells)
        PROVE Inv'
    BY <1>5, <1>6, WriteKeeps
  <1>7. ASSUME NEW p \in Live, PktWriteDouble(p, << 1 >>)
        PROVE Inv'
    <2> DEFINE cells == << 1 >>
    <2>1. cells \in Data
      BY DEF Data
    <2>2. PktWriteDouble(p, cells)
      BY <1>7
    <2> HIDE DEF cells
    <2> QED
      BY <1>5, <2>1, <2>2, DoubleKeeps
  <1>8. ASSUME NEW p \in Live, PktRead(p)
        PROVE Inv'
    BY <1>5, <1>8, ReadKeeps
  <1>9. ASSUME NEW p \in Live, PktEncode(p)
        PROVE Inv'
    BY <1>5, <1>9, EncodeKeeps
  <1>10. ASSUME NEW p \in Live, PktDrop(p)
         PROVE Inv'
    BY <1>5, <1>10, DropKeeps
  <1>11. ASSUME NEW p \in Live, NEW n \in 0 .. MaxSize - HeadSize, PktSeek(p, n)
         PROVE Inv'
    <2>1. n \in Nat
      BY <1>1
    <2> QED
      BY <1>5, <1>11, <2>1, SeekKeeps
  <1>12. ASSUME NEW p \in Live, NEW n \in 0 .. MaxSize - HeadSize, PktErase(p, n)
         PROVE Inv'
    <2>1. n \in Nat
      BY <1>1
    <2> QED
      BY <1>5, <1>12, <2>1, EraseKeeps
  <1>13. ASSUME NEW p \in Live, NEW n \in Accepted, PktSend(p, n)
         PROVE Inv'
    <2>1. n \in Nat
      BY <1>1
    <2> QED
      BY <1>5, <1>13, <2>1, SendKeeps
  <1> QED
    BY <1>2, <1>3, <1>4, <1>6, <1>7, <1>8, <1>9, <1>10, <1>11, <1>12, <1>13 DEF PacketNext

LEMMA StutterKeeps ==
    ASSUME Inv, UNCHANGED packetVars
    PROVE Inv'
  <1>1. UNCHANGED <<out, seq, wire, sent, spoiled>> /\ mem' = mem /\ flat' = flat
    BY DEF packetVars
  <1>2. Kept(mem', flat', out)
    BY <1>1 DEF Inv
  <1>3. \A j \in 1 .. Len(out) : flat'[out[j].pkt].data = flat[out[j].pkt].data
    BY <1>1
  <1> QED
    BY <1>1, <1>2, <1>3, ReadingKeeps

LEMMA InvAlways == PacketSpec => []Inv
  <1>1. Inv /\ [PacketNext]_packetVars => Inv'
    BY StepKeeps, StutterKeeps
  <1> QED
    BY InvInit, <1>1, PTL DEF PacketSpec
-----------------------------------------------------------------------------
\* The memory of packets is typed and every packet has the blocks, the number
\* of holders and the cursor that its bytes and the queue call for: after any
\* of the calls of packet.c, mblock.c and the queue of connection.c there are
\* lists of blocks, one for each packet and one that is free, which together
\* are all blocks that were made, and the packets are held as often as the
\* program and the queue hold them.
THEOREM PacketsHeld == PacketSpec => [](\E own : Core(mem, own, flat, out))
  <1>1. Inv => \E own : Core(mem, own, flat, out)
    BY HeldCore
  <1> QED
    BY <1>1, InvAlways, PTL

\* mblock.c loses no block and gives none to two packets: each block that was
\* ever made is in the chain of one packet or in the free list, at one place,
\* however packets are made, grown, queued, dropped and made again.
THEOREM EveryBlockOnce == PacketSpec => []BlocksOnce
  <1>1. ASSUME Inv
        PROVE BlocksOnce
    <2>1. PICK own : Core(mem, own, flat, out)
      BY <1>1, HeldCore
    <2>2. Chains(mem, own)
      BY <2>1, CoreIs
    <2> QED
      BY <2>2, OnceIs
  <1> QED
    BY <1>1, InvAlways, PTL

\* The functions of packet.c do to the chain of blocks what they would do to a
\* sequence of bytes: contents, place, and what encoding twice leaves.
THEOREM PacketsAreSequences == PacketSpec => []AsSequence
  <1>1. ASSUME Inv
        PROVE AsSequence
    <2>1. PICK own : Core(mem, own, flat, out)
      BY <1>1, HeldCore
    <2> QED
      BY <2>1, SequenceIs
  <1> QED
    BY <1>1, InvAlways, PTL

\* write_data keeps the frames of a connection whole and in order: what the
\* peer takes from the wire are the packets that were sent, each with the
\* number it got, whatever the system took of each write.
THEOREM FramesStayWhole == PacketSpec => []FramesWhole
  <1>1. ASSUME Inv, ~spoiled, NEW i \in 0 .. MaxSends, HasFrame(FrameEnds[i])
        PROVE i < Len(sent) /\ sent[i + 1] = SubSeq(wire, FrameEnds[i] + 1, FrameEnds[i] + wire[FrameEnds[i] + 1])
    BY <1>1, FramesAre
  <1>2. Inv => FramesWhole
    BY <1>1 DEF FramesWhole
  <1> QED
    BY <1>2, InvAlways, PTL
=============================================================================
