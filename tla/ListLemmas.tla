----------------------------- MODULE ListLemmas -----------------------------
(***************************************************************************)
(* What the lists of Lists, and queues, hold after a node or a packet was   *)
(* put in or taken out.                                                     *)
(***************************************************************************)
EXTENDS Lists, SequenceTheorems, WellFoundedInduction, TLAPS

\* Induction over numbers, as a statement about sets of them: the library's theorem
\* on well-founded relations gives every such set its least element.
LEMMA NatLeast == ASSUME NEW T \in SUBSET Nat, T # {} PROVE \E x \in T : \A y \in T : x <= y
  <1> DEFINE R == OpToRel(<, Nat)
  <1>1. IsWellFoundedOn(R, Nat)
    BY NatLessThanWellFounded, Zenon
  <1>2. \A x, y \in Nat : x < y => <<x, y>> \in R
    BY DEF OpToRel
  <1> HIDE DEF R
  <1>3. \E x \in T : \A y \in T : <<y, x>> \notin R
    BY <1>1, WFMin, Zenon
  <1>4. ASSUME NEW x \in T, NEW y \in T, <<y, x>> \notin R PROVE x <= y
    <2>1. x \in Nat /\ y \in Nat /\ ~(y < x)
      BY <1>2, <1>4
    <2> QED
      BY <2>1
  <1> QED
    BY <1>3, <1>4

LEMMA NatSetInduction ==
    ASSUME NEW T, 0 \in T, \A n \in Nat : n \in T => n + 1 \in T
    PROVE Nat \subseteq T
  <1> SUFFICES ASSUME {n \in Nat : n \notin T} # {} PROVE FALSE
    OBVIOUS
  <1>1. PICK x \in {n \in Nat : n \notin T} : \A y \in {n \in Nat : n \notin T} : x <= y
    BY NatLeast, Zenon
  <1>2. x # 0 /\ x - 1 \in Nat /\ (x - 1) + 1 = x
    BY <1>1
  <1>3. x - 1 \in T
    BY <1>1, <1>2
  <1> QED
    BY <1>1, <1>2, <1>3

LEMMA IntervalInduction ==
    ASSUME NEW N \in Nat, NEW T, 0 \in T, \A n \in 0 .. N - 1 : n \in T => n + 1 \in T
    PROVE 0 .. N \subseteq T
  <1> DEFINE U == {n \in Nat : n <= N => n \in T}
  <1>1. 0 \in U
    OBVIOUS
  <1>2. \A n \in Nat : n \in U => n + 1 \in U
    OBVIOUS
  <1> HIDE DEF U
  <1>3. Nat \subseteq U
    BY <1>1, <1>2, NatSetInduction
  <1> QED
    BY <1>3 DEF U

-----------------------------------------------------------------------------
\* Where the first place of a is, and what is left of a list without it.
LEMMA PlaceOf ==
    ASSUME NEW S, NEW list \in Seq(S), NEW a \in Range(list)
    PROVE Place(list, a) \in 1 .. Len(list) /\ list[Place(list, a)] = a
  BY DEF Place, Range

LEMMA PlaceBehind ==
    ASSUME NEW S, NEW list \in Seq(S), IsInjective(list), NEW i \in 1 .. Len(list), i # Len(list)
    PROVE list[i + 1] \in Range(list) \ {list[i]}
  <1>1. i \in DOMAIN list /\ i + 1 \in DOMAIN list /\ i + 1 # i
    OBVIOUS
  <1> QED
    BY <1>1 DEF IsInjective, Range

LEMMA UnlinkedAt ==
    ASSUME NEW S, NEW list \in Seq(S), IsInjective(list), NEW i \in 1 .. Len(list)
    PROVE /\ Unlinked(list, list[i]) \in Seq(S) /\ Len(Unlinked(list, list[i])) = Len(list) - 1
          /\ \A j \in 1 .. Len(list) - 1 : Unlinked(list, list[i])[j] = list[IF j < i THEN j ELSE j + 1]
  <1> DEFINE pre == SubSeq(list, 1, i - 1)
             post == SubSeq(list, i + 1, Len(list))
             rest == Unlinked(list, list[i])
  <1>1. i \in 1 .. Len(list) /\ list[i] \in Range(list)
    BY DEF Range
  <1>2. rest = pre \o post
    <2> DEFINE k == Place(list, list[i])
    <2>1. k \in 1 .. Len(list) /\ list[k] = list[i]
      BY <1>1, PlaceOf
    <2> HIDE DEF k
    <2>2. k = i
      BY <2>1 DEF IsInjective
    <2> QED
      BY <1>1, <2>2 DEF Unlinked, RemoveAt, k
  <1>3. pre \in Seq(S) /\ Len(pre) = i - 1 /\ \A j \in 1 .. i - 1 : pre[j] = list[j]
    BY <1>1, SubSeqProperties
  <1>4. post \in Seq(S) /\ Len(post) = Len(list) - i /\ \A j \in 1 .. Len(list) - i : post[j] = list[i + j]
    BY <1>1, SubSeqProperties
  <1> HIDE DEF pre, post, rest
  <1>5. /\ rest \in Seq(S) /\ Len(rest) = Len(list) - 1
        /\ \A j \in 1 .. Len(rest) : rest[j] = IF j <= i - 1 THEN pre[j] ELSE post[j - (i - 1)]
    <2>1. Len(pre) + Len(post) = Len(list) - 1
      BY <1>1, <1>3, <1>4
    <2>2. /\ pre \o post \in Seq(S) /\ Len(pre \o post) = Len(pre) + Len(post)
          /\ \A j \in 1 .. Len(pre) + Len(post) : (pre \o post)[j] = IF j <= Len(pre) THEN pre[j] ELSE post[j - Len(pre)]
      BY <1>3, <1>4, ConcatProperties, Zenon
    <2> QED
      BY <1>2, <1>3, <2>1, <2>2
  <1>6. \A j \in 1 .. Len(rest) : rest[j] = list[IF j < i THEN j ELSE j + 1]
    <2> SUFFICES ASSUME NEW j \in 1 .. Len(rest) PROVE rest[j] = list[IF j < i THEN j ELSE j + 1]
      OBVIOUS
    <2>1. CASE j < i
      BY <1>1, <1>3, <1>5, <2>1
    <2>2. CASE j >= i
      <3>1. j - (i - 1) \in 1 .. Len(list) - i /\ i + (j - (i - 1)) = j + 1
        BY <1>1, <1>5, <2>2
      <3>0. j \in Int /\ i \in Int /\ ~(j <= i - 1)
        BY <1>1, <1>5, <2>2
      <3>2. rest[j] = post[j - (i - 1)]
        <4>1. rest[j] = IF j <= i - 1 THEN pre[j] ELSE post[j - (i - 1)]
          BY <1>5
        <4> QED
          BY <3>0, <4>1, Zenon
      <3>3. rest[j] = list[j + 1]
        BY <1>4, <3>1, <3>2
      <3> QED
        BY <1>1, <2>2, <3>3
    <2> QED
      BY <1>1, <2>1, <2>2
  <1> QED
    BY <1>5, <1>6 DEF rest

LEMMA UnlinkedFrom ==
    ASSUME NEW S, NEW list \in Seq(S), IsInjective(list), NEW a
    PROVE /\ Unlinked(list, a) \in Seq(S) /\ IsInjective(Unlinked(list, a))
          /\ Range(Unlinked(list, a)) = Range(list) \ {a}
  <1>1. CASE a \notin Range(list)
    BY <1>1 DEF Unlinked
  <1>2. CASE a \in Range(list)
    <2> DEFINE i == Place(list, a)
               rest == Unlinked(list, a)
    <2>1. i \in 1 .. Len(list) /\ list[i] = a
      BY <1>2, PlaceOf
    <2> HIDE DEF i
    <2>5. rest \in Seq(S) /\ Len(rest) = Len(list) - 1
      BY <2>1, UnlinkedAt
    <2>6. \A j \in 1 .. Len(rest) : rest[j] = list[IF j < i THEN j ELSE j + 1]
      BY <2>1, <2>5, UnlinkedAt
    <2> HIDE DEF rest
    <2>8. \A j \in 1 .. Len(rest) : LET k == IF j < i THEN j ELSE j + 1
                                   IN  k \in 1 .. Len(list) /\ k # i /\ rest[j] = list[k]
      BY <2>1, <2>5, <2>6
    <2>9. DOMAIN rest = 1 .. Len(rest) /\ DOMAIN list = 1 .. Len(list) /\ Len(rest) \in Nat
      BY <2>5
    <2>10. IsInjective(rest)
      <3> SUFFICES ASSUME NEW j \in 1 .. Len(rest), NEW k \in 1 .. Len(rest), rest[j] = rest[k] PROVE j = k
        BY <2>9 DEF IsInjective
      <3> DEFINE to(n) == IF n < i THEN n ELSE n + 1
      <3>1. to(j) \in DOMAIN list /\ to(k) \in DOMAIN list /\ list[to(j)] = list[to(k)]
        BY <2>8, <2>9
      <3>2. to(j) = to(k)
        BY <3>1 DEF IsInjective
      <3> QED
        BY <2>1, <2>9, <3>2
    <2>7. Range(rest) = Range(list) \ {a}
      <3>1. ASSUME NEW x \in Range(list) \ {a} PROVE x \in Range(rest)
        <4>1. PICK k \in 1 .. Len(list) : list[k] = x
          BY DEF Range
        <4>2. CASE k < i
          <5>1. k \in 1 .. Len(rest)
            BY <2>1, <2>5, <4>1, <4>2
          <5>2. rest[k] = x
            BY <2>6, <4>1, <4>2, <5>1
          <5> QED
            BY <2>9, <5>1, <5>2 DEF Range
        <4>3. CASE k > i
          <5>0. k - 1 \in 1 .. Len(rest) /\ ~(k - 1 < i) /\ (k - 1) + 1 = k
            BY <2>1, <2>5, <4>1, <4>3
          <5>1. rest[k - 1] = x
            <6>1. rest[k - 1] = list[IF k - 1 < i THEN k - 1 ELSE (k - 1) + 1]
              BY <2>6, <5>0
            <6> QED
              BY <4>1, <5>0, <6>1, Zenon
          <5> QED
            BY <2>9, <5>0, <5>1 DEF Range
        <4> QED
          BY <2>1, <4>1, <4>2, <4>3
      <3>2. ASSUME NEW x \in Range(rest) PROVE x \in Range(list) \ {a}
        <4>1. PICK j \in 1 .. Len(rest) : rest[j] = x
          BY <2>9 DEF Range
        <4>2. PICK k \in 1 .. Len(list) : k # i /\ x = list[k]
          BY <2>8, <4>1
        <4> QED
          BY <2>1, <2>9, <4>2 DEF IsInjective, Range
      <3> QED
        BY <3>1, <3>2
    <2> QED
      BY <2>5, <2>7, <2>10 DEF rest
  <1> QED
    BY <1>1, <1>2

-----------------------------------------------------------------------------
\* What a queue holds after a packet was taken, added, or several were added.
LEMMA RangeOfTail ==
    ASSUME NEW S, NEW q \in Seq(S), q # <<>>, NEW m \in Range(q), m # Head(q)
    PROVE  m \in Range(Tail(q))
<1>1. PICK i \in 1 .. Len(q) : m = q[i]
  BY DEF Range
<1>2. i # 1
  BY <1>1
<1>3. /\ Tail(q) \in Seq(S) /\ Len(Tail(q)) = Len(q) - 1
      /\ \A j \in 1 .. Len(Tail(q)) : Tail(q)[j] = q[j + 1]
  BY HeadTailProperties
<1>4. i - 1 \in 1 .. Len(Tail(q)) /\ Tail(q)[i - 1] = m
  BY <1>1, <1>2, <1>3
<1>. DEFINE t == Tail(q)
<1>5. t \in Seq(S) /\ i - 1 \in 1 .. Len(t) /\ t[i - 1] = m
  BY <1>3, <1>4
<1>. HIDE DEF t
<1>6. m \in Range(t)
  BY <1>5 DEF Range
<1>. QED
  BY <1>6 DEF t

LEMMA RangeOfConcat ==
    ASSUME NEW S, NEW q \in Seq(S), NEW r \in Seq(S), NEW m \in Range(q)
    PROVE  m \in Range(q \o r)
<1>1. PICK i \in 1 .. Len(q) : m = q[i]
  BY DEF Range
<1>. DEFINE t == q \o r
<1>2. t \in Seq(S) /\ i \in 1 .. Len(t) /\ t[i] = m
  BY <1>1, ConcatProperties
<1>. HIDE DEF t
<1>3. m \in Range(t)
  BY <1>2 DEF Range
<1>. QED
  BY <1>3 DEF t

LEMMA RangeOfAppend ==
    ASSUME NEW S, NEW q \in Seq(S), NEW n \in S
    PROVE  n \in Range(Append(q, n)) /\ \A m \in Range(q) : m \in Range(Append(q, n))
<1>1. /\ Append(q, n) \in Seq(S) /\ Len(Append(q, n)) = Len(q) + 1
      /\ Append(q, n)[Len(q) + 1] = n
      /\ \A i \in 1 .. Len(q) : Append(q, n)[i] = q[i]
  BY AppendProperties
<1>. QED
  BY <1>1 DEF Range

-----------------------------------------------------------------------------
\* Nodes put in front or at the end, and the first one taken out, in a list that
\* has each node once.
LEMMA Pushed ==
    ASSUME NEW S, NEW list \in Seq(S), IsInjective(list), NEW a \in S, a \notin Range(list)
    PROVE  /\ <<a>> \o list \in Seq(S) /\ IsInjective(<<a>> \o list)
           /\ Range(<<a>> \o list) = Range(list) \cup {a}
<1>. DEFINE t == <<a>> \o list
<1>0. <<a>> \in Seq(S) /\ Len(<<a>>) = 1 /\ <<a>>[1] = a
  OBVIOUS
<1>1. /\ t \in Seq(S) /\ Len(t) = Len(list) + 1 /\ t[1] = a
      /\ \A i \in 2 .. Len(list) + 1 : t[i] = list[i - 1]
  BY <1>0, ConcatProperties
<1>. HIDE DEF t
<1>2. DOMAIN t = 1 .. Len(list) + 1 /\ DOMAIN list = 1 .. Len(list) /\ Len(list) \in Nat
  BY <1>1
<1>3. \A i \in 2 .. Len(list) + 1 : i - 1 \in 1 .. Len(list) /\ t[i] = list[i - 1] /\ t[i] # a
  BY <1>1, <1>2 DEF Range
<1>4. IsInjective(t)
  <2>. SUFFICES ASSUME NEW i \in 1 .. Len(list) + 1, NEW j \in 1 .. Len(list) + 1, t[i] = t[j]
                PROVE  i = j
    BY <1>2 DEF IsInjective
  <2>1. CASE i = 1 \/ j = 1
    BY <1>1, <1>2, <1>3, <2>1
  <2>2. CASE i # 1 /\ j # 1
    <3>1. /\ i - 1 \in DOMAIN list /\ j - 1 \in DOMAIN list
          /\ list[i - 1] = list[j - 1]
      BY <1>2, <1>3, <2>2
    <3>2. i - 1 = j - 1
      BY <3>1 DEF IsInjective
    <3>. QED
      BY <1>2, <3>2
  <2>. QED
    BY <2>1, <2>2
<1>5. Range(t) = Range(list) \cup {a}
  <2>1. ASSUME NEW x \in Range(list) PROVE x \in Range(t)
    <3>1. PICK i \in 1 .. Len(list) : x = list[i]
      BY <1>2 DEF Range
    <3>2. i + 1 \in DOMAIN t /\ t[i + 1] = x
      BY <1>1, <1>2, <3>1
    <3>. QED
      BY <3>2 DEF Range
  <2>2. a \in Range(t)
    BY <1>1, <1>2 DEF Range
  <2>3. ASSUME NEW x \in Range(t) PROVE x \in Range(list) \cup {a}
    BY <1>1, <1>2, <1>3, <2>3 DEF Range
  <2>. QED
    BY <2>1, <2>2, <2>3
<1>. QED
  BY <1>1, <1>4, <1>5 DEF t

LEMMA Popped ==
    ASSUME NEW S, NEW list \in Seq(S), IsInjective(list), list # <<>>
    PROVE  /\ Tail(list) \in Seq(S) /\ IsInjective(Tail(list))
           /\ list[1] \in S /\ list[1] \in Range(list)
           /\ Range(Tail(list)) = Range(list) \ {list[1]}
<1>. DEFINE t == Tail(list)
<1>1. /\ t \in Seq(S) /\ Len(t) = Len(list) - 1
      /\ \A i \in 1 .. Len(t) : t[i] = list[i + 1]
  BY HeadTailProperties
<1>. HIDE DEF t
<1>2. /\ DOMAIN t = 1 .. Len(list) - 1 /\ DOMAIN list = 1 .. Len(list) /\ Len(list) \in Nat
      /\ 1 \in DOMAIN list
  BY <1>1
<1>3. \A i \in DOMAIN t : i + 1 \in DOMAIN list /\ i + 1 # 1 /\ t[i] = list[i + 1]
  BY <1>1, <1>2
<1>4. IsInjective(t)
  <2>. SUFFICES ASSUME NEW i \in DOMAIN t, NEW j \in DOMAIN t, t[i] = t[j] PROVE i = j
    BY DEF IsInjective
  <2>1. i + 1 = j + 1
    BY <1>3 DEF IsInjective
  <2>. QED
    BY <1>2, <2>1
<1>5. ASSUME NEW x \in Range(list), x # list[1] PROVE x \in Range(t)
  <2>1. PICK i \in DOMAIN list : x = list[i]
    BY DEF Range
  <2>2. i - 1 \in DOMAIN t /\ (i - 1) + 1 = i
    BY <1>2, <1>5, <2>1
  <2>3. t[i - 1] = x
    BY <1>3, <2>1, <2>2
  <2>. QED
    BY <2>2, <2>3 DEF Range
<1>6. ASSUME NEW x \in Range(t) PROVE x \in Range(list) /\ x # list[1]
  <2>1. PICK i \in DOMAIN t : x = t[i]
    BY DEF Range
  <2>. QED
    BY <1>2, <1>3, <2>1 DEF IsInjective, Range
<1>7. list[1] \in S /\ list[1] \in Range(list)
  BY <1>2, ElementOfSeq DEF Range
<1>. QED
  BY <1>1, <1>4, <1>5, <1>6, <1>7 DEF t

LEMMA Appended ==
    ASSUME NEW S, NEW list \in Seq(S), IsInjective(list), NEW a \in S, a \notin Range(list)
    PROVE  /\ Append(list, a) \in Seq(S) /\ IsInjective(Append(list, a))
           /\ Range(Append(list, a)) = Range(list) \cup {a}
<1>. DEFINE t == Append(list, a)
<1>1. /\ t \in Seq(S) /\ Len(t) = Len(list) + 1 /\ t[Len(list) + 1] = a
      /\ \A i \in 1 .. Len(list) : t[i] = list[i]
  BY AppendProperties
<1>. HIDE DEF t
<1>2. DOMAIN t = 1 .. Len(list) + 1 /\ DOMAIN list = 1 .. Len(list) /\ Len(list) \in Nat
  BY <1>1
<1>3. \A i \in DOMAIN t : (i \in DOMAIN list /\ t[i] = list[i]) \/ (i = Len(list) + 1 /\ t[i] = a)
  BY <1>1, <1>2
<1>4. IsInjective(t)
  BY <1>2, <1>3 DEF IsInjective, Range
<1>5. ASSUME NEW x \in Range(list) \cup {a} PROVE x \in Range(t)
  BY <1>1, <1>2 DEF Range
<1>6. ASSUME NEW x \in Range(t) PROVE x \in Range(list) \cup {a}
  BY <1>3 DEF Range
<1>. QED
  BY <1>1, <1>4, <1>5, <1>6 DEF t

=============================================================================
