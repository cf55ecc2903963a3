-------------------------- MODULE HashTableProofs --------------------------
(***************************************************************************)
(* The table as a map, for any keys and values and tables of any size, but   *)
(* for the keys over whose nodes the vector has grown.  The invariant        *)
(* TabOK says how the nodes are linked; it is about sets of nodes that next  *)
(* does not leave, so that walks are reasoned about without counting steps.  *)
(***************************************************************************)
EXTENDS HashTable, ListLemmas, FiniteSetTheorems

Home(node, key) == (Hash(key) % Len(node)) + 1
NodeRecord == [key : Keys \cup {NoKey}, val : Vals \cup {Nil}, next : Nat]

\* What can be walked to from a node: the least set with it that next does not leave.
Closed(node, C) == \A n \in C : node[n].next \in C \cup {Null}
Chain(node, m) ==
    {n \in DOMAIN node : \A C \in SUBSET DOMAIN node : m \in C /\ Closed(node, C) => n \in C}

Shaped(node) == node \in Seq(NodeRecord) /\ Len(node) > 0 /\ \A n \in DOMAIN node : node[n].next <= Len(node)
Distinct(node) == \A m, n \in DOMAIN node : node[m].key = node[n].key /\ node[n].key # NoKey => m = n
Empty(node) ==
    \A n \in DOMAIN node :
        /\ node[n].key = NoKey => node[n].val = Nil /\ node[n].next = Null
        /\ node[n].next # Null => node[node[n].next].key # NoKey
AtHome(node) ==
    \A n \in DOMAIN node : node[n].key # NoKey =>
        LET home == Home(node, node[n].key)
        IN  node[home].key # NoKey /\ Home(node, node[home].key) = home
OneBefore(node) ==
    \A m, n \in DOMAIN node : node[m].next = node[n].next /\ node[n].next # Null => m = n
NoRing(node) == \A C \in SUBSET DOMAIN node : C # {} => \E n \in C : node[n].next \notin C
OnChain(node) ==
    \A n \in DOMAIN node : node[n].key # NoKey => n \in Chain(node, Home(node, node[n].key))
Linked(node) ==
    Shaped(node) /\ Distinct(node) /\ Empty(node) /\ AtHome(node) /\ OneBefore(node) /\ NoRing(node) /\ OnChain(node)

TabOK(tab) ==
    /\ tab = [vec |-> tab.vec, node |-> tab.node, last |-> tab.last]
    /\ tab.vec \in Seq(Vals \cup {Nil}) /\ \A i \in DOMAIN tab.vec : tab.vec[i] # Nil => <<"num", i - 1>> \in Keys
    /\ Linked(tab.node) /\ tab.last \in 0..Len(tab.node)
    /\ \A n \in DOMAIN tab.node : tab.node[n].key = NoKey => n <= tab.last
\* The keys of nodes that the vector has grown over.
Shown(tab, hid) == \A n \in DOMAIN tab.node : InVector(tab, tab.node[n].key) => tab.node[n].key \in hid
Positions(tab) == 0..(Len(tab.vec) + Len(tab.node) - 1)
Visiting ==
    /\ \A i \in DOMAIN visited : \A p \in Positions(table) :
           p > place /\ visited[i][1] = KeyAt(table, p) => visited[i][1] \in hidden /\ p >= Len(table.vec)
    /\ \A k \in lasting : /\ k \in Keys /\ stored[k] # Nil
                          /\ \/ k \in hidden
                             \/ \E i \in DOMAIN visited : visited[i][1] = k
                             \/ \E p \in Positions(table) : p > place /\ KeyAt(table, p) = k
TInv ==
    /\ TabOK(table) /\ Shown(table, hidden) /\ stored \in [Keys -> Vals \cup {Nil}]
    /\ IsFiniteSet(hidden) /\ IsMap
VInv ==
    /\ visited \in Seq(Keys \X (Vals \cup {Nil})) /\ place \in Int /\ (place = NotVisiting \/ place >= -1)
    /\ place # NotVisiting => Visiting
-----------------------------------------------------------------------------
(* Keys and where they belong. *)

LEMMA NoKeyIsNone == NoKey \notin Keys /\ Null = 0
  BY DEF NoKey, Keys, Null

LEMMA HashIsNat == ASSUME NEW key \in Keys PROVE Hash(key) \in Nat
  <1>1. \A x \in Strs \cup NumKeys : x \in Int
    BY TableAssumption DEF TableAssumption, NumKeys
  <1>2. key[2] \in Strs \cup NumKeys
    BY DEF Keys
  <1>3. ASSUME NEW x \in Int PROVE (IF x < 0 THEN -x ELSE x) \in Nat
    BY <1>3
  <1> QED
    BY <1>1, <1>2, <1>3 DEF Hash

LEMMA ShapedIs ==
    ASSUME NEW node, Shaped(node)
    PROVE /\ Len(node) \in Nat \ {0} /\ DOMAIN node = 1 .. Len(node)
          /\ \A n \in 1 .. Len(node) : /\ node[n] \in NodeRecord /\ node[n].key \in Keys \cup {NoKey}
                                       /\ node[n].val \in Vals \cup {Nil} /\ node[n].next \in 0 .. Len(node)
  <1>1. Len(node) \in Nat \ {0} /\ DOMAIN node = 1 .. Len(node)
    BY DEF Shaped
  <1>2. ASSUME NEW n \in 1 .. Len(node) PROVE node[n] \in NodeRecord /\ node[n].next <= Len(node)
    BY <1>1 DEF Shaped
  <1>3. ASSUME NEW x \in NodeRecord PROVE x.key \in Keys \cup {NoKey} /\ x.val \in Vals \cup {Nil} /\ x.next \in Nat
    BY DEF NodeRecord
  <1> QED
    BY <1>1, <1>2, <1>3

LEMMA HomeIsNode == ASSUME NEW node, Shaped(node), NEW key \in Keys PROVE Home(node, key) \in DOMAIN node
  <1>1. Hash(key) \in Nat /\ Len(node) \in Nat \ {0} /\ DOMAIN node = 1 .. Len(node)
    BY HashIsNat, ShapedIs
  <1>2. Hash(key) % Len(node) \in 0 .. Len(node) - 1
    BY <1>1
  <1> QED
    BY <1>1, <1>2 DEF Home
-----------------------------------------------------------------------------
(* Chains. *)

LEMMA ChainBegins ==
    ASSUME NEW node, NEW m \in DOMAIN node PROVE m \in Chain(node, m) /\ Chain(node, m) \subseteq DOMAIN node
  BY DEF Chain

LEMMA ChainLeast ==
    ASSUME NEW node, NEW m, NEW C \in SUBSET DOMAIN node, m \in C, Closed(node, C)
    PROVE Chain(node, m) \subseteq C
  BY DEF Chain

LEMMA ChainClosed ==
    ASSUME NEW node, Shaped(node), NEW m PROVE Closed(node, Chain(node, m))
  <1> SUFFICES ASSUME NEW n \in Chain(node, m), node[n].next # Null PROVE node[n].next \in Chain(node, m)
    BY DEF Closed
  <1>1. n \in DOMAIN node /\ node[n].next \in DOMAIN node
    BY ShapedIs DEF Chain, Null
  <1>2. ASSUME NEW C \in SUBSET DOMAIN node, m \in C, Closed(node, C) PROVE node[n].next \in C
    <2>1. n \in C
      BY <1>2 DEF Chain
    <2> QED
      BY <1>2, <2>1 DEF Closed
  <1> QED
    BY <1>1, <1>2 DEF Chain

\* A chain is its first node and the chain of the next one.
LEMMA ChainEnds ==
    ASSUME NEW node, Shaped(node), NEW n \in DOMAIN node, node[n].next = Null PROVE Chain(node, n) = {n}
  <1>1. {n} \in SUBSET DOMAIN node /\ Closed(node, {n})
    BY DEF Closed
  <1> QED
    BY <1>1, ChainLeast, ChainBegins

LEMMA ChainGoesOn ==
    ASSUME NEW node, Shaped(node), NEW n \in DOMAIN node, node[n].next # Null
    PROVE /\ node[n].next \in DOMAIN node
          /\ Chain(node, n) = {n} \cup Chain(node, node[n].next)
  <1> DEFINE x == node[n].next
  <1>1. x \in DOMAIN node
    BY ShapedIs DEF Null
  <1>2. Chain(node, n) \subseteq {n} \cup Chain(node, x)
    <2>1. Closed(node, Chain(node, x)) /\ Chain(node, x) \subseteq DOMAIN node /\ x \in Chain(node, x)
      BY <1>1, ChainClosed, ChainBegins
    <2>2. Closed(node, {n} \cup Chain(node, x))
      BY <2>1 DEF Closed
    <2>3. {n} \cup Chain(node, x) \in SUBSET DOMAIN node
      BY <2>1
    <2> QED
      BY <2>2, <2>3, ChainLeast
  <1>3. Chain(node, x) \subseteq Chain(node, n)
    <2>1. Closed(node, Chain(node, n)) /\ Chain(node, n) \in SUBSET DOMAIN node /\ n \in Chain(node, n)
      BY ChainClosed, ChainBegins
    <2>2. x \in Chain(node, n)
      BY <1>1, <2>1 DEF Closed
    <2> QED
      BY <2>1, <2>2, ChainLeast
  <1> QED
    BY <1>1, <1>2, <1>3, ChainBegins

\* getstr and getnum find the node of a key that is on the chain where they begin,
\* and none if no node has the key.
LEMMA AlongFinds ==
    ASSUME NEW tab, Linked(tab.node), NEW key \in Keys, NEW m \in DOMAIN tab.node
    PROVE /\ \A q \in Chain(tab.node, m) : tab.node[q].key = key => Along(tab, key)[m] = q
          /\ (\A q \in DOMAIN tab.node : tab.node[q].key # key) => Along(tab, key)[m] = Null
  <1> DEFINE node == tab.node
             L == Len(tab.node)
             Body(f) == [n \in 0 .. L |-> IF n = Null \/ tab.node[n].key = key THEN n ELSE f[tab.node[n].next]]
             at == CHOOSE x \in DOMAIN node : node[x].key = key
             Found(n) == n # Null /\ (\E x \in DOMAIN node : node[x].key = key) /\ at \in Chain(node, n)
             G == [n \in 0 .. L |-> IF Found(n) THEN at ELSE Null]
             F == CHOOSE f : f = Body(f)
  <1>1. /\ L \in Nat \ {0} /\ DOMAIN node = 1 .. L /\ Shaped(node) /\ Null = 0
        /\ \A n \in 1 .. L : node[n].next \in 0 .. L
    BY ShapedIs DEF Linked, Null
  <1>2. \A x \in DOMAIN node : node[x].key = key => at = x
    BY NoKeyIsNone DEF Linked, Distinct
  <1>3. G = Body(G)
    <2> SUFFICES ASSUME NEW n \in 0 .. L
                 PROVE G[n] = IF n = Null \/ node[n].key = key THEN n ELSE G[node[n].next]
      BY Zenon
    <2>1. CASE n = Null
      BY <1>1, <2>1
    <2>2. CASE n # Null /\ node[n].key = key
      <3>1. n \in DOMAIN node /\ at = n /\ n \in Chain(node, n)
        BY <1>1, <1>2, <2>2, ChainBegins
      <3> HIDE DEF at
      <3> QED
        BY <2>2, <3>1
    <2>3. CASE n # Null /\ node[n].key # key
      <3>1. n \in DOMAIN node /\ node[n].next \in 0 .. L
        BY <1>1, <2>3
      <3>2. Found(n) <=> Found(node[n].next)
        <4>1. CASE node[n].next = Null
          <5>1. Chain(node, n) = {n}
            BY <1>1, <3>1, <4>1, ChainEnds
          <5> QED
            BY <1>2, <2>3, <3>1, <4>1, <5>1
        <4>2. CASE node[n].next # Null
          <5>1. Chain(node, n) = {n} \cup Chain(node, node[n].next)
            BY <1>1, <3>1, <4>2, ChainGoesOn
          <5>2. (\E x \in DOMAIN node : node[x].key = key) => at # n
            BY <1>2, <2>3
          <5> HIDE DEF at
          <5> QED
            BY <2>3, <4>2, <5>1, <5>2
        <4> QED
          BY <4>1, <4>2
      <3> HIDE DEF Found, at
      <3> QED
        BY <2>3, <3>1, <3>2
    <2> QED
      BY <2>1, <2>2, <2>3
  <1>4. F = Body(F)
    <2> HIDE DEF G, Body
    <2> QED
      BY <1>3
  <1>5. \A n \in 0 .. L : F[n] = G[n]
    <2> DEFINE C == {n \in DOMAIN node : F[n] # G[n]}
    <2>0. F[Null] = G[Null]
      <3> HIDE DEF F, G
      <3> QED
        BY <1>1, <1>3, <1>4
    <2>1. ASSUME NEW n \in C PROVE node[n].next \in C
      <3> HIDE DEF F, G
      <3>1. n \in 0 .. L /\ n \in DOMAIN node /\ F[n] # G[n] /\ node[n].next \in 0 .. L
        BY <1>1, <2>1
      <3>2. F[n] = IF n = Null \/ node[n].key = key THEN n ELSE F[node[n].next]
        BY <1>4, <3>1
      <3>3. G[n] = IF n = Null \/ node[n].key = key THEN n ELSE G[node[n].next]
        BY <1>3, <3>1
      <3>4. F[node[n].next] # G[node[n].next]
        BY <3>1, <3>2, <3>3
      <3> QED
        BY <1>1, <2>0, <3>1, <3>4
    <2>2. C \in SUBSET DOMAIN node
      BY Zenon
    <2> HIDE DEF C
    <2>3. C = {}
      BY <2>1, <2>2 DEF Linked, NoRing
    <2>4. \A n \in DOMAIN node : F[n] = G[n]
      <3> HIDE DEF F, G
      <3> QED
        BY <2>3, Zenon DEF C
    <2>5. \A n \in 0 .. L : n \in DOMAIN node \/ n = Null
      BY <1>1
    <2> HIDE DEF F, G
    <2> QED
      BY <2>0, <2>4, <2>5
  <1>6. Along(tab, key)[m] = G[m] /\ m \in 0 .. L /\ m # Null
    <2>1. Along(tab, key) = F
      BY Zenon DEF Along
    <2> HIDE DEF F, G
    <2> QED
      BY <1>1, <1>5, <2>1
  <1>7. ASSUME NEW q \in Chain(node, m), node[q].key = key PROVE G[m] = q
    BY <1>2, <1>6, <1>7, ChainBegins
  <1>8. ASSUME \A q \in DOMAIN node : node[q].key # key PROVE G[m] = Null
    BY <1>6, <1>8
  <1> QED
    BY <1>6, <1>7, <1>8

\* newkey finds the node before one that is not the first of its chain.
LEMMA BeforeFinds ==
    ASSUME NEW tab, Linked(tab.node), NEW o \in DOMAIN tab.node, NEW m \in Chain(tab.node, o), m # o
    PROVE Before(tab, m)[o] \in DOMAIN tab.node /\ tab.node[Before(tab, m)[o]].next = m
  <1> DEFINE node == tab.node
             Body(f) == [n \in DOMAIN node |-> IF node[n].next \in {Null, m} THEN n ELSE f[node[n].next]]
             pre == CHOOSE x \in DOMAIN node : node[x].next = m
             Led(n) == \E x \in Chain(node, n) : node[x].next = m
             Ends(n) == {x \in Chain(node, n) : node[x].next = Null}
             G == [n \in DOMAIN node |-> IF Led(n) THEN pre ELSE CHOOSE x : x \in Ends(n)]
             F == CHOOSE f : f = Body(f)
  <1>1. /\ Shaped(node) /\ DOMAIN node = 1 .. Len(node) /\ Null = 0 /\ m # Null /\ m \in DOMAIN node
        /\ \A n \in DOMAIN node : node[n].next = Null \/ node[n].next \in DOMAIN node
    <2>1. m \in DOMAIN node /\ Shaped(node)
      BY DEF Chain, Linked
    <2> QED
      BY <2>1, ShapedIs DEF Null
  <1>2. \A x \in DOMAIN node : node[x].next = m => pre = x
    BY <1>1 DEF Linked, OneBefore
  <1>3. G = Body(G)
    <2> SUFFICES ASSUME NEW n \in DOMAIN node
                 PROVE G[n] = IF node[n].next \in {Null, m} THEN n ELSE G[node[n].next]
      <3> HIDE DEF Led, Ends, pre
      <3> QED
        OBVIOUS
    <2>1. CASE node[n].next = Null
      <3>1. Chain(node, n) = {n}
        BY <1>1, <2>1, ChainEnds
      <3>2. ~Led(n) /\ Ends(n) = {n}
        BY <1>1, <2>1, <3>1
      <3>3. (CHOOSE x : x \in {n}) = n
        OBVIOUS
      <3> HIDE DEF Led, Ends
      <3> QED
        BY <2>1, <3>2, <3>3
    <2>2. CASE node[n].next = m
      <3>1. Led(n) /\ pre = n
        BY <1>2, <2>2, ChainBegins
      <3> HIDE DEF Led, pre
      <3> QED
        BY <2>2, <3>1
    <2>3. CASE node[n].next \notin {Null, m}
      <3>1. node[n].next \in DOMAIN node /\ Chain(node, n) = {n} \cup Chain(node, node[n].next)
        BY <1>1, <2>3, ChainGoesOn
      <3>2. (Led(n) <=> Led(node[n].next)) /\ Ends(n) = Ends(node[n].next)
        BY <2>3, <3>1
      <3> HIDE DEF Led, Ends, pre
      <3> QED
        BY <2>3, <3>1, <3>2
    <2> QED
      BY <2>1, <2>2, <2>3
  <1>4. F = Body(F)
    <2> HIDE DEF G, Body
    <2> QED
      BY <1>3
  <1>5. \A n \in DOMAIN node : F[n] = G[n]
    <2> DEFINE C == {n \in DOMAIN node : F[n] # G[n]}
    <2>1. ASSUME NEW n \in C PROVE node[n].next \in C
      <3> HIDE DEF F, G
      <3>1. n \in DOMAIN node /\ F[n] # G[n]
        BY <2>1
      <3>2. F[n] = IF node[n].next \in {Null, m} THEN n ELSE F[node[n].next]
        BY <1>4, <3>1
      <3>3. G[n] = IF node[n].next \in {Null, m} THEN n ELSE G[node[n].next]
        BY <1>3, <3>1
      <3> QED
        BY <1>1, <3>1, <3>2, <3>3
    <2>2. C \in SUBSET DOMAIN node
      BY Zenon
    <2> HIDE DEF C
    <2>3. C = {}
      BY <2>1, <2>2 DEF Linked, NoRing
    <2> HIDE DEF F, G
    <2> QED
      BY <2>3, Zenon DEF C
  <1>6. Before(tab, m) = F
    BY Zenon DEF Before
  <1>7. Led(o)
    <2> SUFFICES ASSUME \A x \in Chain(node, o) : node[x].next # m PROVE FALSE
      BY Zenon
    <2> DEFINE C == Chain(node, o) \ {m}
    <2>1. Closed(node, C)
      BY <1>1, ChainClosed DEF Closed
    <2>2. C \in SUBSET DOMAIN node /\ o \in C
      BY ChainBegins
    <2>3. Chain(node, o) \subseteq C
      <3> HIDE DEF C
      <3> QED
        BY <2>1, <2>2, ChainLeast
    <2> QED
      BY <2>3
  <1>8. G[o] = pre /\ pre \in DOMAIN node /\ node[pre].next = m
    <2>1. PICK x \in Chain(node, o) : node[x].next = m
      BY <1>7
    <2>2. x \in DOMAIN node /\ pre = x
      BY <1>2, <2>1, ChainBegins
    <2> HIDE DEF pre, Led, Ends
    <2> QED
      BY <1>7, <2>1, <2>2
  <1> HIDE DEF F, G, pre
  <1> QED
    BY <1>5, <1>6, <1>8
-----------------------------------------------------------------------------
(* The three places of newkey for a key that is new. *)

LEMMA ChainSame ==
    ASSUME NEW a, NEW b, DOMAIN b = DOMAIN a, \A n \in DOMAIN a : b[n].next = a[n].next, NEW m
    PROVE Chain(b, m) = Chain(a, m)
  <1>1. ASSUME NEW C \in SUBSET DOMAIN a PROVE Closed(a, C) <=> Closed(b, C)
    BY DEF Closed
  <1> QED
    BY <1>1 DEF Chain

LEMMA ShapedAgain ==
    ASSUME NEW a, Shaped(a), NEW b, Len(b) = Len(a), b \in Seq(NodeRecord),
           \A n \in DOMAIN a : b[n].next <= Len(a)
    PROVE Shaped(b) /\ DOMAIN b = DOMAIN a /\ \A key : Home(b, key) = Home(a, key)
  BY DEF Shaped, Home

\* At its main position, where there is no value; what was chained behind stays.
LEMMA LinkedReused ==
    ASSUME NEW a, Linked(a), NEW b, Len(b) = Len(a), b \in Seq(NodeRecord),
           NEW key \in Keys, \A n \in DOMAIN a : a[n].key # key,
           NEW mp, mp = Home(a, key), b[mp].key = key, b[mp].next = a[mp].next,
           \A n \in DOMAIN a \ {mp} : b[n] = a[n]
    PROVE Linked(b)
  <1>1. /\ Shaped(a) /\ mp \in DOMAIN a /\ key # NoKey /\ \A n \in DOMAIN a : b[n].next = a[n].next
        /\ \A n \in DOMAIN a : a[n].next \in 0 .. Len(a) /\ (a[n].next # Null => a[n].next \in DOMAIN a)
    BY HomeIsNode, NoKeyIsNone, ShapedIs DEF Linked
  <1>2. Shaped(b) /\ DOMAIN b = DOMAIN a /\ \A k : Home(b, k) = Home(a, k)
    <2>1. \A n \in DOMAIN a : b[n].next <= Len(a)
      BY <1>1
    <2> QED
      BY <1>1, <2>1, ShapedAgain
  <1>3. \A m : Chain(b, m) = Chain(a, m)
    BY <1>1, <1>2, ChainSame
  <1>4. Distinct(b)
    BY <1>1, <1>2 DEF Distinct, Linked
  <1>5. Empty(b)
    BY <1>1, <1>2, SMTT(20) DEF Empty, Linked
  <1>6. AtHome(b)
    <2> SUFFICES ASSUME NEW n \in DOMAIN a, b[n].key # NoKey
                 PROVE b[Home(a, b[n].key)].key # NoKey
                       /\ Home(a, b[Home(a, b[n].key)].key) = Home(a, b[n].key)
      BY <1>2 DEF AtHome
    <2>1. CASE n = mp
      BY <1>1, <2>1
    <2>2. CASE n # mp
      <3>1. a[n].key # NoKey /\ a[n].key \in Keys /\ b[n].key = a[n].key
        BY <1>1, <2>2, ShapedIs
      <3>2. Home(a, a[n].key) \in DOMAIN a
        BY <1>1, <3>1, HomeIsNode
      <3>3. a[Home(a, a[n].key)].key # NoKey /\ Home(a, a[Home(a, a[n].key)].key) = Home(a, a[n].key)
        BY <3>1 DEF Linked, AtHome
      <3> QED
        BY <1>1, <3>1, <3>2, <3>3
    <2> QED
      BY <2>1, <2>2
  <1>7. OneBefore(b) /\ NoRing(b)
    BY <1>1, <1>2 DEF OneBefore, NoRing, Linked
  <1>8. OnChain(b)
    BY <1>1, <1>2, <1>3, ChainBegins DEF OnChain, Linked
  <1> QED
    BY <1>2, <1>4, <1>5, <1>6, <1>7, <1>8 DEF Linked

\* Behind the node that is at its main position.
Inserted(a, b, key, mp, fn) ==
    /\ Len(b) = Len(a) /\ b \in Seq(NodeRecord)
    /\ mp = Home(a, key) /\ a[mp].key # NoKey /\ Home(a, a[mp].key) = mp
    /\ fn \in DOMAIN a /\ a[fn].key = NoKey
    /\ b[fn].key = key /\ b[fn].next = a[mp].next
    /\ b[mp].key = a[mp].key /\ b[mp].val = a[mp].val /\ b[mp].next = fn
    /\ \A n \in DOMAIN a \ {mp, fn} : b[n] = a[n]

LEMMA LinkedInserted ==
    ASSUME NEW a, Linked(a), NEW b, NEW key \in Keys, \A n \in DOMAIN a : a[n].key # key,
           NEW mp, NEW fn, Inserted(a, b, key, mp, fn)
    PROVE Linked(b)
  <1> USE DEF Inserted
  <1>1. /\ Shaped(a) /\ mp \in DOMAIN a /\ mp # fn /\ key # NoKey /\ fn # Null /\ a[fn].next = Null
        /\ DOMAIN a = 1 .. Len(a) /\ Len(a) \in Nat
        /\ \A n \in DOMAIN a : /\ a[n].next \in 0 .. Len(a) /\ (a[n].next # Null => a[n].next \in DOMAIN a)
                               /\ a[n].next # fn
    <2>1. Shaped(a) /\ mp \in DOMAIN a /\ mp # fn /\ key # NoKey
      BY HomeIsNode, NoKeyIsNone DEF Linked
    <2>2. DOMAIN a = 1 .. Len(a) /\ Len(a) \in Nat /\ (\A n \in 1 .. Len(a) : a[n].next \in 0 .. Len(a)) /\ fn # Null
      BY <2>1, ShapedIs DEF Null
    <2>3. \A n \in DOMAIN a : a[n].next # fn
      BY <2>2 DEF Linked, Empty
    <2>4. a[fn].next = Null
      BY DEF Linked, Empty
    <2> QED
      BY <2>1, <2>2, <2>3, <2>4 DEF Null
  <1>2. Shaped(b) /\ DOMAIN b = DOMAIN a /\ \A k : Home(b, k) = Home(a, k)
    <2>1. \A n \in DOMAIN a : b[n].next <= Len(a)
      BY <1>1
    <2>2. Shaped(a)
      BY <1>1
    <2> QED
      BY <2>1, <2>2, ShapedAgain
  <1>3. ASSUME NEW m \in DOMAIN a, m # fn
        PROVE Chain(a, m) \subseteq Chain(b, m) /\ (mp \in Chain(a, m) => fn \in Chain(b, m))
    <2> DEFINE D == Chain(b, m)
               C == D \ {fn}
    <2>1. D \subseteq DOMAIN a /\ m \in D /\ Closed(b, D)
      BY <1>2, ChainBegins, ChainClosed
    <2> HIDE DEF D
    <2>2. ASSUME NEW n \in C PROVE a[n].next \in C \cup {Null}
      <3>1. CASE n = mp
        <4>1. fn \in D
          BY <1>1, <2>1, <2>2, <3>1 DEF Closed
        <4>2. b[fn].next \in D \cup {Null}
          BY <2>1, <4>1 DEF Closed
        <4> QED
          BY <1>1, <3>1, <4>2
      <3>2. CASE n # mp
        BY <1>1, <2>1, <2>2, <3>2 DEF Closed
      <3> QED
        BY <3>1, <3>2
    <2>3. C \in SUBSET DOMAIN a /\ m \in C /\ Closed(a, C)
      BY <1>3, <2>1, <2>2 DEF Closed
    <2>4. Chain(a, m) \subseteq C
      <3> HIDE DEF C
      <3> QED
        BY <2>3, ChainLeast
    <2>5. mp \in D => fn \in D
      BY <1>1, <2>1 DEF Closed
    <2> QED
      BY <2>4, <2>5 DEF D
  <1>4. Distinct(b)
    BY <1>1, <1>2 DEF Distinct, Linked
  <1>5. Empty(b)
    <2> SUFFICES ASSUME NEW n \in DOMAIN a
                 PROVE /\ b[n].key = NoKey => b[n].val = Nil /\ b[n].next = Null
                       /\ b[n].next # Null => b[b[n].next].key # NoKey
      BY <1>2 DEF Empty
    <2>1. /\ a[n].key = NoKey => a[n].val = Nil /\ a[n].next = Null
          /\ a[n].next # Null => a[a[n].next].key # NoKey
          /\ a[mp].next # Null => a[a[mp].next].key # NoKey
      BY <1>1 DEF Empty, Linked
    <2>2. \A x \in DOMAIN a : a[x].key # NoKey => b[x].key # NoKey
      BY <1>1
    <2>3. CASE n = fn
      BY <1>1, <2>1, <2>2, <2>3
    <2>4. CASE n = mp
      BY <1>1, <2>4
    <2>5. CASE n \notin {mp, fn}
      BY <1>1, <2>1, <2>2, <2>5
    <2> QED
      BY <2>3, <2>4, <2>5
  <1>6. AtHome(b)
    <2> SUFFICES ASSUME NEW n \in DOMAIN a, b[n].key # NoKey
                 PROVE b[Home(a, b[n].key)].key # NoKey
                       /\ Home(a, b[Home(a, b[n].key)].key) = Home(a, b[n].key)
      BY <1>2 DEF AtHome
    <2>1. CASE n = fn
      BY <1>1, <2>1
    <2>2. CASE n # fn
      <3>1. a[n].key # NoKey /\ a[n].key \in Keys /\ b[n].key = a[n].key
        BY <1>1, <2>2, ShapedIs
      <3>2. Home(a, a[n].key) \in DOMAIN a
        BY <1>1, <3>1, HomeIsNode
      <3>3. a[Home(a, a[n].key)].key # NoKey /\ Home(a, a[Home(a, a[n].key)].key) = Home(a, a[n].key)
        BY <3>1 DEF Linked, AtHome
      <3> QED
        BY <1>1, <3>1, <3>2, <3>3
    <2> QED
      BY <2>1, <2>2
  <1>7. OneBefore(b)
    BY <1>1, <1>2 DEF OneBefore, Linked
  <1>8. NoRing(b)
    <2> SUFFICES ASSUME NEW D \in SUBSET DOMAIN a, D # {}, \A n \in D : b[n].next \in D PROVE FALSE
      BY <1>2 DEF NoRing
    <2>1. D \ {fn} # {}
      BY <1>1
    <2>2. PICK n \in D \ {fn} : a[n].next \notin D \ {fn}
      <3>1. D \ {fn} \in SUBSET DOMAIN a
        OBVIOUS
      <3> QED
        BY <2>1, <3>1 DEF Linked, NoRing
    <2>3. CASE n = mp
      <3>1. fn \in D /\ b[fn].next \in D
        BY <2>2, <2>3
      <3> QED
        BY <1>1, <2>2, <2>3, <3>1
    <2>4. CASE n # mp
      BY <1>1, <2>2, <2>4
    <2> QED
      BY <2>3, <2>4
  <1>9. OnChain(b)
    <2> SUFFICES ASSUME NEW n \in DOMAIN a, b[n].key # NoKey PROVE n \in Chain(b, Home(a, b[n].key))
      BY <1>2 DEF OnChain
    <2>1. CASE n = fn
      <3>1. mp \in Chain(a, mp)
        BY <1>1, ChainBegins
      <3> QED
        BY <1>1, <1>3, <2>1, <3>1
    <2>2. CASE n # fn
      <3>1. a[n].key # NoKey /\ a[n].key \in Keys /\ b[n].key = a[n].key
        BY <1>1, <2>2, ShapedIs
      <3>2. Home(a, a[n].key) \in DOMAIN a /\ Home(a, a[n].key) # fn
        BY <1>1, <3>1, HomeIsNode DEF Linked, AtHome
      <3>3. n \in Chain(a, Home(a, a[n].key))
        BY <3>1 DEF Linked, OnChain
      <3> QED
        BY <1>3, <3>1, <3>2, <3>3
    <2> QED
      BY <2>1, <2>2
  <1> QED
    BY <1>2, <1>4, <1>5, <1>6, <1>7, <1>8, <1>9 DEF Linked

\* In the place of a key that is not at its main position, which moves to the free
\* node: no chain begins where it was.
LEMMA LinkedMoved ==
    ASSUME NEW a, Linked(a), NEW b, Len(b) = Len(a), b \in Seq(NodeRecord),
           NEW key \in Keys, \A n \in DOMAIN a : a[n].key # key,
           NEW mp, mp = Home(a, key), a[mp].key # NoKey, Home(a, a[mp].key) # mp,
           NEW fn \in DOMAIN a, a[fn].key = NoKey,
           NEW pre \in DOMAIN a, a[pre].next = mp,
           b[fn] = a[mp], b[mp].key = key, b[mp].next = Null,
           b[pre].key = a[pre].key, b[pre].val = a[pre].val, b[pre].next = fn,
           \A n \in DOMAIN a \ {mp, fn, pre} : b[n] = a[n]
    PROVE Linked(b)
  <1>1. /\ Shaped(a) /\ mp \in DOMAIN a /\ mp # fn /\ key # NoKey /\ fn # Null /\ a[fn].next = Null
        /\ pre # mp /\ pre # fn /\ DOMAIN a = 1 .. Len(a) /\ Len(a) \in Nat /\ mp # Null
        /\ \A n \in DOMAIN a : /\ a[n].next \in 0 .. Len(a) /\ (a[n].next # Null => a[n].next \in DOMAIN a)
                               /\ a[n].next # fn /\ (a[n].next = mp => n = pre)
    <2>1. Shaped(a) /\ mp \in DOMAIN a /\ mp # fn /\ key # NoKey
      BY HomeIsNode, NoKeyIsNone DEF Linked
    <2>2. /\ DOMAIN a = 1 .. Len(a) /\ Len(a) \in Nat /\ (\A n \in 1 .. Len(a) : a[n].next \in 0 .. Len(a))
          /\ fn # Null /\ mp # Null
      BY <2>1, ShapedIs DEF Null
    <2>3. \A n \in DOMAIN a : a[n].next # fn
      BY <2>2 DEF Linked, Empty
    <2>4. a[fn].next = Null
      BY DEF Linked, Empty
    <2>5. \A n \in DOMAIN a : a[n].next = mp => n = pre
      BY <2>2 DEF Linked, OneBefore
    <2>6. a[mp].next # mp
      <3>1. {mp} \in SUBSET DOMAIN a /\ {mp} # {}
        BY <2>1
      <3> QED
        BY <3>1 DEF Linked, NoRing
    <2> QED
      BY <2>1, <2>2, <2>3, <2>4, <2>5, <2>6 DEF Null
  <1>2. Shaped(b) /\ DOMAIN b = DOMAIN a /\ \A k : Home(b, k) = Home(a, k)
    <2>1. \A n \in DOMAIN a : b[n].next <= Len(a)
      BY <1>1 DEF Null
    <2> QED
      BY <1>1, <2>1, ShapedAgain, SMTT(20)
  <1>0. \A n \in DOMAIN a : a[n].key # NoKey => a[n].key \in Keys /\ Home(a, a[n].key) \in DOMAIN a \ {mp, fn}
    <2> SUFFICES ASSUME NEW n \in DOMAIN a, a[n].key # NoKey
                 PROVE a[n].key \in Keys /\ Home(a, a[n].key) \in DOMAIN a \ {mp, fn}
      OBVIOUS
    <2>1. a[n].key \in Keys
      BY <1>1, ShapedIs
    <2>2. Home(a, a[n].key) \in DOMAIN a
      BY <1>1, <2>1, HomeIsNode
    <2>3. a[Home(a, a[n].key)].key # NoKey /\ Home(a, a[Home(a, a[n].key)].key) = Home(a, a[n].key)
      BY DEF Linked, AtHome
    <2> QED
      BY <2>1, <2>2, <2>3
  <1>3. ASSUME NEW m \in DOMAIN a \ {mp, fn}
        PROVE Chain(a, m) \ {mp} \subseteq Chain(b, m) /\ (mp \in Chain(a, m) => fn \in Chain(b, m))
    <2> DEFINE D == Chain(b, m)
               C == (D \ {fn, mp}) \cup (IF fn \in D THEN {mp} ELSE {})
    <2>1. D \subseteq DOMAIN a /\ m \in D /\ Closed(b, D)
      BY <1>2, ChainBegins, ChainClosed
    <2> HIDE DEF D
    <2>2. ASSUME NEW n \in C PROVE a[n].next \in C \cup {Null}
      <3>1. CASE n = mp
        <4>1. fn \in D /\ b[fn].next \in D \cup {Null}
          BY <1>1, <2>1, <2>2, <3>1 DEF Closed
        <4> QED
          BY <1>1, <3>1, <4>1
      <3>2. CASE n # mp
        <4>1. n \in D /\ n # fn /\ b[n].next \in D \cup {Null} /\ n \in DOMAIN a
          BY <2>1, <2>2, <3>2 DEF Closed
        <4>2. CASE n = pre
          BY <1>1, <4>1, <4>2
        <4>3. CASE n # pre
          BY <1>1, <3>2, <4>1, <4>3
        <4> QED
          BY <4>2, <4>3
      <3> QED
        BY <3>1, <3>2
    <2>3. C \in SUBSET DOMAIN a /\ m \in C /\ Closed(a, C)
      BY <1>1, <1>3, <2>1, <2>2 DEF Closed
    <2>4. Chain(a, m) \subseteq C
      <3> HIDE DEF C
      <3> QED
        BY <2>3, ChainLeast
    <2> QED
      BY <1>1, <2>4 DEF D
  <1>4. Distinct(b)
    <2> SUFFICES ASSUME NEW m \in DOMAIN a, NEW n \in DOMAIN a, b[m].key = b[n].key, b[n].key # NoKey
                 PROVE m = n
      BY <1>2 DEF Distinct
    <2> DEFINE was(x) == IF x = fn THEN mp ELSE x
    <2>1. \A x \in DOMAIN a \ {mp} : was(x) \in DOMAIN a /\ b[x].key = a[was(x)].key
      BY <1>1
    <2>2. \A x, y \in DOMAIN a : a[x].key = a[y].key /\ a[y].key # NoKey => x = y
      BY DEF Linked, Distinct
    <2>3. m = mp <=> n = mp
      BY <2>1
    <2> QED
      BY <1>1, <2>1, <2>2, <2>3
  <1>5. Empty(b)
    BY <1>1, <1>2, SMTT(20) DEF Empty, Linked
  <1>6. AtHome(b)
    <2> SUFFICES ASSUME NEW n \in DOMAIN a, b[n].key # NoKey
                 PROVE b[Home(a, b[n].key)].key # NoKey
                       /\ Home(a, b[Home(a, b[n].key)].key) = Home(a, b[n].key)
      BY <1>2 DEF AtHome
    <2>1. CASE n = mp
      BY <1>1, <2>1
    <2>2. CASE n # mp
      <3>1. PICK x \in DOMAIN a : a[x].key = b[n].key /\ a[x].key # NoKey
        BY <1>1, <2>2
      <3>2. Home(a, a[x].key) \in DOMAIN a \ {mp, fn}
        BY <1>0, <3>1
      <3>3. a[Home(a, a[x].key)].key # NoKey /\ Home(a, a[Home(a, a[x].key)].key) = Home(a, a[x].key)
        BY <3>1 DEF Linked, AtHome
      <3> QED
        BY <1>1, <3>1, <3>2, <3>3, SMTT(20)
    <2> QED
      BY <2>1, <2>2
  <1>7. OneBefore(b)
    BY <1>1, <1>2 DEF OneBefore, Linked
  <1>8. NoRing(b)
    <2> SUFFICES ASSUME NEW D \in SUBSET DOMAIN a, D # {}, \A n \in D : b[n].next \in D PROVE FALSE
      BY <1>2 DEF NoRing
    <2> DEFINE C == (D \ {fn}) \cup (IF fn \in D THEN {mp} ELSE {})
    <2>1. mp \notin D
      <3>1. b[mp].next = Null /\ Null \notin DOMAIN a
        BY <1>1 DEF Null
      <3> QED
        BY <3>1
    <2>2. C \in SUBSET DOMAIN a /\ C # {}
      <3>1. CASE fn \in D
        BY <1>1, <3>1
      <3>2. CASE fn \notin D
        BY <3>2
      <3> QED
        BY <3>1, <3>2
    <2>3. PICK n \in C : a[n].next \notin C
      <3> HIDE DEF C
      <3> QED
        BY <2>2 DEF Linked, NoRing
    <2>4. CASE n = mp
      BY <1>1, <2>1, <2>3, <2>4
    <2>5. CASE n = pre
      BY <1>1, <2>1, <2>3, <2>5
    <2>6. CASE n \notin {mp, pre}
      BY <1>1, <2>1, <2>3, <2>6
    <2> QED
      BY <2>4, <2>5, <2>6
  <1>9. OnChain(b)
    <2> SUFFICES ASSUME NEW n \in DOMAIN a, b[n].key # NoKey PROVE n \in Chain(b, Home(a, b[n].key))
      BY <1>2 DEF OnChain
    <2>1. CASE n = mp
      BY <1>2, <2>1, ChainBegins
    <2>2. CASE n = fn
      <3>1. mp \in Chain(a, Home(a, a[mp].key)) /\ Home(a, a[mp].key) \in DOMAIN a \ {mp, fn}
        BY <1>0, <1>1 DEF Linked, OnChain
      <3> QED
        BY <1>3, <2>2, <3>1
    <2>3. CASE n \notin {mp, fn}
      <3>1. a[n].key # NoKey /\ b[n].key = a[n].key
        BY <1>1, <2>3
      <3>2. n \in Chain(a, Home(a, a[n].key)) /\ Home(a, a[n].key) \in DOMAIN a \ {mp, fn}
        BY <1>0, <3>1 DEF Linked, OnChain
      <3> QED
        BY <1>3, <2>3, <3>1, <3>2
    <2> QED
      BY <2>1, <2>2, <2>3
  <1> QED
    BY <1>2, <1>4, <1>5, <1>6, <1>7, <1>8, <1>9 DEF Linked
-----------------------------------------------------------------------------
(* What nodes say of keys. *)

ValOf(node, j) ==
    IF \E n \in DOMAIN node : node[n].key = j THEN node[CHOOSE n \in DOMAIN node : node[n].key = j].val ELSE Nil

LEMMA ValAt ==
    ASSUME NEW node, Distinct(node), NEW n \in DOMAIN node, node[n].key # NoKey
    PROVE ValOf(node, node[n].key) = node[n].val
  <1> DEFINE x == CHOOSE m \in DOMAIN node : node[m].key = node[n].key
  <1>1. x \in DOMAIN node /\ node[x].key = node[n].key
    OBVIOUS
  <1> HIDE DEF x
  <1>2. x = n
    BY <1>1 DEF Distinct
  <1> QED
    BY <1>2 DEF ValOf, x

LEMMA ValNone ==
    ASSUME NEW node, NEW j, \A n \in DOMAIN node : node[n].key # j PROVE ValOf(node, j) = Nil
  BY DEF ValOf

\* Of two arrays of nodes: they agree on all keys but one, if every entry of the first
\* is in the second or was only a key, and the second has no other.
Carried(a, b, key) ==
    /\ \A n \in DOMAIN a : a[n].key \notin {NoKey, key} =>
           \/ \E x \in DOMAIN b : b[x].key = a[n].key /\ b[x].val = a[n].val
           \/ a[n].val = Nil /\ \A x \in DOMAIN b : b[x].key # a[n].key
    /\ \A x \in DOMAIN b : b[x].key \in {NoKey, key} \/ \E n \in DOMAIN a : a[n].key = b[x].key
Agree(a, b, key, val) == \A j \in Keys : ValOf(b, j) = IF j = key THEN val ELSE ValOf(a, j)

LEMMA ValsKept ==
    ASSUME NEW a, Distinct(a), NEW b, Distinct(b), NEW key \in Keys, NEW val, Carried(a, b, key),
           NEW y \in DOMAIN b, b[y].key = key, b[y].val = val
    PROVE Agree(a, b, key, val)
  <1> USE DEF Carried, Agree
  <1> SUFFICES ASSUME NEW j \in Keys PROVE ValOf(b, j) = IF j = key THEN val ELSE ValOf(a, j)
    OBVIOUS
  <1>0. j # NoKey /\ key # NoKey
    BY NoKeyIsNone
  <1>1. CASE j = key
    BY <1>0, <1>1, ValAt
  <1>2. CASE j # key /\ \E n \in DOMAIN a : a[n].key = j
    <2>1. PICK n \in DOMAIN a : a[n].key = j
      BY <1>2
    <2>2. ValOf(a, j) = a[n].val
      BY <1>0, <2>1, ValAt
    <2>3. CASE \E x \in DOMAIN b : b[x].key = j /\ b[x].val = a[n].val
      BY <1>0, <1>2, <2>2, <2>3, ValAt
    <2>4. CASE a[n].val = Nil /\ \A x \in DOMAIN b : b[x].key # j
      BY <1>2, <2>2, <2>4, ValNone
    <2> QED
      BY <1>0, <1>2, <2>1, <2>3, <2>4
  <1>3. CASE j # key /\ \A n \in DOMAIN a : a[n].key # j
    <2>1. \A x \in DOMAIN b : b[x].key # j
      BY <1>0, <1>3
    <2> QED
      BY <1>3, <2>1, ValNone
  <1> QED
    BY <1>1, <1>2, <1>3

LEMMA NodeOfIs ==
    ASSUME NEW tab, Linked(tab.node), NEW key \in Keys
    PROVE \/ NodeOf(tab, key) = Null /\ \A n \in DOMAIN tab.node : tab.node[n].key # key
          \/ /\ NodeOf(tab, key) \in DOMAIN tab.node /\ NodeOf(tab, key) # Null
             /\ tab.node[NodeOf(tab, key)].key = key
  <1>1. /\ Shaped(tab.node) /\ MainPosition(tab, key) = Home(tab.node, key)
        /\ Home(tab.node, key) \in DOMAIN tab.node /\ key # NoKey /\ Null \notin DOMAIN tab.node
    BY HomeIsNode, NoKeyIsNone, ShapedIs DEF Linked, MainPosition, Home
  <1>2. CASE \A n \in DOMAIN tab.node : tab.node[n].key # key
    BY <1>1, <1>2, AlongFinds DEF NodeOf
  <1>3. CASE \E n \in DOMAIN tab.node : tab.node[n].key = key
    <2>1. PICK n \in DOMAIN tab.node : tab.node[n].key = key
      BY <1>3
    <2>2. n \in Chain(tab.node, Home(tab.node, key))
      BY <1>1, <2>1 DEF Linked, OnChain
    <2>3. NodeOf(tab, key) = n
      BY <1>1, <2>1, <2>2, AlongFinds DEF NodeOf
    <2> QED
      BY <1>1, <2>1, <2>3
  <1> QED
    BY <1>2, <1>3

\* rbtH_get.
LEMMA GetIs ==
    ASSUME NEW tab, Linked(tab.node), NEW key \in Keys
    PROVE Get(tab, key) = IF InVector(tab, key) THEN tab.vec[key[2] + 1] ELSE ValOf(tab.node, key)
  <1>1. CASE NodeOf(tab, key) = Null
    <2>1. ValOf(tab.node, key) = Nil
      <3>1. \A n \in DOMAIN tab.node : tab.node[n].key # key
        <4>1. Null \notin DOMAIN tab.node
          BY ShapedIs DEF Linked, Null
        <4> QED
          BY <1>1, <4>1, NodeOfIs
      <3> QED
        BY <3>1, ValNone
    <2> QED
      BY <1>1, <2>1 DEF Get
  <1>2. CASE NodeOf(tab, key) # Null
    <2>1. NodeOf(tab, key) \in DOMAIN tab.node /\ tab.node[NodeOf(tab, key)].key = key
      BY <1>2, NodeOfIs
    <2>2. ValOf(tab.node, key) = tab.node[NodeOf(tab, key)].val
      BY <2>1, ValAt, NoKeyIsNone DEF Linked
    <2> QED
      BY <1>2, <2>2 DEF Get
  <1> QED
    BY <1>1, <1>2

LEMMA MostOf ==
    ASSUME NEW N \in Nat, NEW T \in SUBSET (0 .. N), T # {}
    PROVE Max(T) \in T /\ \A y \in T : y <= Max(T)
  <1> DEFINE U == {N - y : y \in T}
  <1>1. U \in SUBSET Nat /\ U # {}
    OBVIOUS
  <1> HIDE DEF U
  <1>2. PICK u \in U : \A w \in U : u <= w
    BY <1>1, NatLeast
  <1>3. PICK x \in T : u = N - x
    BY <1>2 DEF U
  <1>4. \A y \in T : x >= y
    <2> SUFFICES ASSUME NEW y \in T PROVE x >= y
      OBVIOUS
    <2>1. N - x <= N - y
      BY <1>2, <1>3 DEF U
    <2>2. x \in Int /\ y \in Int
      OBVIOUS
    <2> QED
      BY <2>1, <2>2
  <1>5. Max(T) \in T /\ \A y \in T : Max(T) >= y
    BY <1>4 DEF Max
  <1> QED
    BY <1>5

\* get_free_pos: the last node without a key, if there is one.
LEMMA FreePosIs ==
    ASSUME NEW tab, TabOK(tab)
    PROVE \/ FreePos(tab) = Null /\ \A n \in DOMAIN tab.node : tab.node[n].key # NoKey
          \/ /\ FreePos(tab) \in DOMAIN tab.node /\ FreePos(tab) # Null
             /\ tab.node[FreePos(tab)].key = NoKey
             /\ \A n \in DOMAIN tab.node : tab.node[n].key = NoKey => n <= FreePos(tab)
  <1> DEFINE free == {n \in 1 .. tab.last : tab.node[n].val = Nil /\ tab.node[n].key = NoKey}
             L == Len(tab.node)
  <1>1. L \in Nat /\ DOMAIN tab.node = 1 .. L /\ tab.last \in 0 .. L
    BY ShapedIs DEF TabOK, Linked
  <1>2. \A n \in DOMAIN tab.node : tab.node[n].key = NoKey => n \in free
    <2> SUFFICES ASSUME NEW n \in DOMAIN tab.node, tab.node[n].key = NoKey PROVE n \in free
      OBVIOUS
    <2>1. n <= tab.last /\ tab.node[n].val = Nil
      BY DEF TabOK, Linked, Empty
    <2> QED
      BY <1>1, <2>1
  <1>3. free \in SUBSET (0 .. L) /\ free \subseteq DOMAIN tab.node /\ \A n \in free : tab.node[n].key = NoKey /\ n # Null
    BY <1>1 DEF Null
  <1>4. FreePos(tab) = IF free = {} THEN Null ELSE Max(free)
    BY DEF FreePos
  <1> HIDE DEF free, L
  <1>5. CASE free = {}
    BY <1>2, <1>4, <1>5
  <1>6. CASE free # {}
    BY <1>1, <1>2, <1>3, <1>4, <1>6, MostOf
  <1> QED
    BY <1>5, <1>6
-----------------------------------------------------------------------------
(* Stores that find room. *)

\* What newkey makes of the nodes: one more key, and one less node without.
Added(a, b, key, val) ==
    /\ Linked(b) /\ Len(b) = Len(a)
    /\ \A j \in Keys : ValOf(b, j) = IF j = key THEN val ELSE ValOf(a, j)
    /\ \A y \in DOMAIN b : b[y].key \in {NoKey, key} \/ \E n \in DOMAIN a : a[n].key = b[y].key
    /\ \A n \in DOMAIN b : b[n].key = NoKey => a[n].key = NoKey
    /\ \E x \in DOMAIN b : \A n \in DOMAIN b \ {x} : b[n].key # NoKey => a[n].key # NoKey

LEMMA AddedBy ==
    ASSUME NEW a, Linked(a), NEW b, Linked(b), Len(b) = Len(a), DOMAIN b = DOMAIN a,
           NEW key \in Keys, NEW val, NEW x \in DOMAIN a, b[x].key = key, b[x].val = val, Carried(a, b, key),
           NEW z \in DOMAIN a, \A n \in DOMAIN a \ {z} : b[n].key # NoKey <=> a[n].key # NoKey, b[z].key # NoKey
    PROVE Added(a, b, key, val)
  <1>1. Agree(a, b, key, val)
    BY ValsKept DEF Linked
  <1>2. \A n \in DOMAIN b : b[n].key = NoKey => a[n].key = NoKey
    OBVIOUS
  <1>3. \E y \in DOMAIN b : \A n \in DOMAIN b \ {y} : b[n].key # NoKey => a[n].key # NoKey
    OBVIOUS
  <1> QED
    BY <1>1, <1>2, <1>3 DEF Added, Agree, Carried

LEMMA NodesAre ==
    ASSUME NEW a, Linked(a), NEW key \in Keys
    PROVE /\ Shaped(a) /\ a \in Seq(NodeRecord) /\ Home(a, key) \in DOMAIN a /\ key # NoKey
          /\ DOMAIN a = 1 .. Len(a) /\ Len(a) \in Nat
          /\ \A n \in DOMAIN a : /\ a[n] \in NodeRecord /\ a[n].key \in Keys \cup {NoKey}
                                 /\ a[n].val \in Vals \cup {Nil} /\ a[n].next \in Nat
                                 /\ a[n].val # Nil => a[n].key # NoKey
  <1>1. Shaped(a) /\ a \in Seq(NodeRecord)
    BY DEF Linked, Shaped
  <1>2. Home(a, key) \in DOMAIN a /\ key # NoKey /\ DOMAIN a = 1 .. Len(a) /\ Len(a) \in Nat
    BY <1>1, HomeIsNode, NoKeyIsNone, ShapedIs
  <1>3. \A n \in DOMAIN a : /\ a[n] \in NodeRecord /\ a[n].key \in Keys \cup {NoKey}
                            /\ a[n].val \in Vals \cup {Nil} /\ a[n].next \in Nat
    BY <1>1, ShapedIs
  <1>4. \A n \in DOMAIN a : a[n].val # Nil => a[n].key # NoKey
    BY DEF Linked, Empty
  <1> QED
    BY <1>1, <1>2, <1>3, <1>4

LEMMA ReusedIs ==
    ASSUME NEW a, Linked(a), NEW key \in Keys, NEW val \in Vals \cup {Nil},
           \A n \in DOMAIN a : a[n].key # key, NEW mp, mp = Home(a, key), a[mp].val = Nil
    PROVE Added(a, [a EXCEPT ![mp].key = key, ![mp].val = val], key, val)
  <1> DEFINE new == [key |-> key, val |-> val, next |-> a[mp].next]
             b == [a EXCEPT ![mp] = new]
  <1>1. /\ a \in Seq(NodeRecord) /\ mp \in 1 .. Len(a) /\ DOMAIN a = 1 .. Len(a) /\ key # NoKey
        /\ a[mp] \in NodeRecord /\ a[mp].next \in Nat
    BY NodesAre
  <1>2. new \in NodeRecord
    BY <1>1 DEF NodeRecord
  <1>3. [a EXCEPT ![mp].key = key, ![mp].val = val] = b
    <2> DEFINE keyed == [key |-> key, val |-> a[mp].val, next |-> a[mp].next]
               d == [a EXCEPT ![mp] = keyed]
    <2>1. \A r \in NodeRecord : [r EXCEPT !.key = key] = [key |-> key, val |-> r.val, next |-> r.next]
      BY DEF NodeRecord
    <2>2. [a[mp] EXCEPT !.key = key] = keyed
      BY <1>1, <2>1
    <2>3. [keyed EXCEPT !.val = val] = new
      OBVIOUS
    <2> HIDE DEF new, keyed
    <2>4. [a EXCEPT ![mp].key = key] = d
      BY <2>2
    <2>5. d[mp] = keyed
      BY <1>1
    <2>6. [d EXCEPT ![mp].val = val] = [d EXCEPT ![mp] = new]
      BY <2>3, <2>5
    <2>7. [d EXCEPT ![mp] = new] = b
      BY <1>1
    <2> HIDE DEF d, b
    <2>8. [[a EXCEPT ![mp].key = key] EXCEPT ![mp].val = val] = b
      BY <2>4, <2>6, <2>7, Zenon
    <2> QED
      BY <2>8
  <1> HIDE DEF new
  <1>4. b \in Seq(NodeRecord) /\ Len(b) = Len(a) /\ \A n \in 1 .. Len(a) : b[n] = IF n = mp THEN new ELSE a[n]
    BY <1>1, <1>2, ExceptSeq
  <1> HIDE DEF b
  <1>5. DOMAIN b = DOMAIN a
    BY <1>1, <1>4
  <1>6. new.key = key /\ new.val = val /\ new.next = a[mp].next
    BY DEF new
  <1>7. \A n \in DOMAIN a \ {mp} : b[n] = a[n]
    BY <1>1, <1>4
  <1>8. b[mp] = new
    BY <1>1, <1>4
  <1>9. Linked(b)
    BY <1>4, <1>6, <1>7, <1>8, LinkedReused
  <1>10. ASSUME NEW n \in DOMAIN a, a[n].key \notin {NoKey, key}
         PROVE \/ \E y \in DOMAIN b : b[y].key = a[n].key /\ b[y].val = a[n].val
               \/ a[n].val = Nil /\ \A y \in DOMAIN b : b[y].key # a[n].key
    <2>1. CASE n # mp
      BY <1>5, <1>7, <2>1
    <2>2. CASE n = mp
      <3>1. \A y \in DOMAIN a \ {mp} : a[y].key # a[n].key
        BY <1>10, <2>2 DEF Linked, Distinct
      <3> QED
        BY <1>5, <1>6, <1>7, <1>8, <1>10, <2>2, <3>1
    <2> QED
      BY <2>1, <2>2
  <1>11. Carried(a, b, key)
    <2>1. \A y \in DOMAIN b : b[y].key \in {NoKey, key} \/ \E n \in DOMAIN a : a[n].key = b[y].key
      BY <1>5, <1>6, <1>7, <1>8
    <2> QED
      BY <1>10, <2>1 DEF Carried
  <1>12. mp \in DOMAIN a /\ b[mp].key = key /\ b[mp].val = val /\ b[mp].key # NoKey
    BY <1>1, <1>6, <1>8
  <1>13. \A n \in DOMAIN a \ {mp} : b[n].key # NoKey <=> a[n].key # NoKey
    BY <1>7
  <1> QED
    BY <1>3, <1>4, <1>5, <1>9, <1>11, <1>12, <1>13, AddedBy

LEMMA InsertedIs ==
    ASSUME NEW a, Linked(a), NEW key \in Keys, NEW val \in Vals \cup {Nil},
           \A n \in DOMAIN a : a[n].key # key, NEW mp, mp = Home(a, key),
           a[mp].val # Nil, Home(a, a[mp].key) = mp, NEW fn \in DOMAIN a, a[fn].key = NoKey
    PROVE Added(a, [a EXCEPT ![fn] = [key |-> key, val |-> val, next |-> a[mp].next], ![mp].next = fn], key, val)
  <1> DEFINE new == [key |-> key, val |-> val, next |-> a[mp].next]
             old == [key |-> a[mp].key, val |-> a[mp].val, next |-> fn]
             c == [a EXCEPT ![fn] = new]
             b == [c EXCEPT ![mp] = old]
  <1>1. /\ a \in Seq(NodeRecord) /\ mp \in 1 .. Len(a) /\ fn \in 1 .. Len(a) /\ DOMAIN a = 1 .. Len(a) /\ key # NoKey
        /\ a[mp] \in NodeRecord /\ a[mp].next \in Nat /\ a[mp].key # NoKey /\ mp # fn /\ fn \in Nat
        /\ a[mp].key \in Keys \cup {NoKey} /\ a[mp].val \in Vals \cup {Nil}
    BY NodesAre
  <1>2. new \in NodeRecord /\ old \in NodeRecord
    BY <1>1 DEF NodeRecord
  <1>3. [a EXCEPT ![fn] = [key |-> key, val |-> val, next |-> a[mp].next], ![mp].next = fn] = b
    <2>1. \A r \in NodeRecord : [r EXCEPT !.next = fn] = [key |-> r.key, val |-> r.val, next |-> fn]
      BY DEF NodeRecord
    <2>2. [a[mp] EXCEPT !.next = fn] = old
      BY <1>1, <2>1
    <2> HIDE DEF new, old
    <2>3. c[mp] = a[mp]
      BY <1>1
    <2>4. [c EXCEPT ![mp].next = fn] = b
      BY <2>2, <2>3
    <2> QED
      BY <2>4 DEF new
  <1> HIDE DEF new, old
  <1>4. c \in Seq(NodeRecord) /\ Len(c) = Len(a) /\ \A n \in 1 .. Len(a) : c[n] = IF n = fn THEN new ELSE a[n]
    BY <1>1, <1>2, ExceptSeq
  <1> HIDE DEF c
  <1>5. b \in Seq(NodeRecord) /\ Len(b) = Len(c) /\ \A n \in 1 .. Len(c) : b[n] = IF n = mp THEN old ELSE c[n]
    BY <1>1, <1>2, <1>4, ExceptSeq
  <1> HIDE DEF b
  <1>6. new.key = key /\ new.val = val /\ new.next = a[mp].next /\ old.key = a[mp].key /\ old.val = a[mp].val /\ old.next = fn
    BY DEF new, old
  <1>7. /\ b \in Seq(NodeRecord) /\ Len(b) = Len(a) /\ DOMAIN b = DOMAIN a /\ b[fn] = new /\ b[mp] = old
        /\ \A n \in DOMAIN a \ {mp, fn} : b[n] = a[n]
    BY <1>1, <1>4, <1>5
  <1>8. Linked(b)
    <2>1. /\ b[fn].key = key /\ b[fn].next = a[mp].next
          /\ b[mp].key = a[mp].key /\ b[mp].val = a[mp].val /\ b[mp].next = fn
      BY <1>6, <1>7, Zenon
    <2>2. Inserted(a, b, key, mp, fn)
      BY <1>1, <1>7, <2>1, Zenon DEF Inserted
    <2> QED
      BY <2>2, LinkedInserted
  <1>9. \A n \in DOMAIN a : a[n].key \notin {NoKey, key} => \E y \in DOMAIN a : b[y].key = a[n].key /\ b[y].val = a[n].val
    BY <1>1, <1>6, <1>7
  <1>10. \A y \in DOMAIN a : b[y].key \in {NoKey, key} \/ \E n \in DOMAIN a : a[n].key = b[y].key
    BY <1>1, <1>6, <1>7
  <1>11. \A n \in DOMAIN a \ {fn} : b[n].key # NoKey <=> a[n].key # NoKey
    BY <1>1, <1>6, <1>7
  <1>12. b[fn].key = key /\ b[fn].val = val /\ b[fn].key # NoKey
    BY <1>1, <1>6, <1>7
  <1>13. Added(a, b, key, val)
    <2>1. Len(b) = Len(a) /\ DOMAIN b = DOMAIN a
      BY <1>7, Zenon
    <2>2. Carried(a, b, key)
      BY <1>9, <1>10, <2>1, Zenon DEF Carried
    <2> QED
      BY <1>8, <1>11, <1>12, <2>1, <2>2, AddedBy
  <1> QED
    BY <1>3, <1>13, Zenon

LEMMA MovedIs ==
    ASSUME NEW a, Linked(a), NEW key \in Keys, NEW val \in Vals \cup {Nil},
           \A n \in DOMAIN a : a[n].key # key, NEW mp, mp = Home(a, key),
           a[mp].val # Nil, Home(a, a[mp].key) # mp, NEW fn \in DOMAIN a, a[fn].key = NoKey,
           NEW pre \in DOMAIN a, a[pre].next = mp
    PROVE /\ pre # mp
          /\ Added(a, [[a EXCEPT ![fn] = a[mp], ![pre].next = fn] EXCEPT ![mp] = [key |-> key, val |-> val, next |-> Null]],
                   key, val)
  <1> DEFINE new == [key |-> key, val |-> val, next |-> Null]
             old == [key |-> a[pre].key, val |-> a[pre].val, next |-> fn]
             c == [a EXCEPT ![fn] = a[mp]]
             d == [c EXCEPT ![pre] = old]
             b == [d EXCEPT ![mp] = new]
  <1>1. /\ a \in Seq(NodeRecord) /\ mp \in 1 .. Len(a) /\ fn \in 1 .. Len(a) /\ pre \in 1 .. Len(a)
        /\ DOMAIN a = 1 .. Len(a) /\ key # NoKey /\ fn \in Nat
        /\ a[mp] \in NodeRecord /\ a[mp].key # NoKey /\ mp # fn
        /\ a[pre] \in NodeRecord /\ a[pre].key \in Keys \cup {NoKey} /\ a[pre].val \in Vals \cup {Nil}
    BY NodesAre
  <1>0. pre # mp /\ pre # fn
    <2>1. {mp} \in SUBSET DOMAIN a /\ {mp} # {}
      BY <1>1
    <2>2. a[mp].next # mp
      BY <2>1 DEF Linked, NoRing
    <2>3. mp # Null
      BY <1>1 DEF Null
    <2>4. a[fn].next = Null
      BY DEF Linked, Empty
    <2> QED
      BY <2>2, <2>3, <2>4
  <1>2. new \in NodeRecord /\ old \in NodeRecord
    BY <1>1 DEF NodeRecord, Null
  <1>3. [[a EXCEPT ![fn] = a[mp], ![pre].next = fn] EXCEPT ![mp] = [key |-> key, val |-> val, next |-> Null]] = b
    <2>1. \A r \in NodeRecord : [r EXCEPT !.next = fn] = [key |-> r.key, val |-> r.val, next |-> fn]
      BY DEF NodeRecord
    <2>2. [a[pre] EXCEPT !.next = fn] = old
      BY <1>1, <2>1
    <2> HIDE DEF new, old
    <2>3. c[pre] = a[pre]
      BY <1>0, <1>1
    <2>4. [c EXCEPT ![pre].next = fn] = d
      BY <2>2, <2>3
    <2> QED
      BY <2>4 DEF new
  <1> HIDE DEF new, old
  <1>4. c \in Seq(NodeRecord) /\ Len(c) = Len(a) /\ \A n \in 1 .. Len(a) : c[n] = IF n = fn THEN a[mp] ELSE a[n]
    BY <1>1, <1>2, ExceptSeq
  <1> HIDE DEF c
  <1>5. d \in Seq(NodeRecord) /\ Len(d) = Len(c) /\ \A n \in 1 .. Len(c) : d[n] = IF n = pre THEN old ELSE c[n]
    BY <1>1, <1>2, <1>4, ExceptSeq
  <1> HIDE DEF d
  <1>6. b \in Seq(NodeRecord) /\ Len(b) = Len(d) /\ \A n \in 1 .. Len(d) : b[n] = IF n = mp THEN new ELSE d[n]
    BY <1>1, <1>2, <1>4, <1>5, ExceptSeq
  <1> HIDE DEF b
  <1>7. new.key = key /\ new.val = val /\ new.next = Null /\ old.key = a[pre].key /\ old.val = a[pre].val /\ old.next = fn
    BY DEF new, old
  <1>8. /\ b \in Seq(NodeRecord) /\ Len(b) = Len(a) /\ DOMAIN b = DOMAIN a
        /\ b[fn] = a[mp] /\ b[mp] = new /\ b[pre] = old
        /\ \A n \in DOMAIN a \ {mp, fn, pre} : b[n] = a[n]
    BY <1>0, <1>1, <1>4, <1>5, <1>6
  <1>9. Linked(b)
    BY <1>0, <1>1, <1>7, <1>8, LinkedMoved, ZenonT(40)
  <1>10. ASSUME NEW n \in DOMAIN a, a[n].key # NoKey PROVE \E y \in DOMAIN a : b[y].key = a[n].key /\ b[y].val = a[n].val
    BY <1>0, <1>1, <1>7, <1>8, <1>10
  <1>11. \A y \in DOMAIN a : b[y].key \in {NoKey, key} \/ \E n \in DOMAIN a : a[n].key = b[y].key
    BY <1>1, <1>7, <1>8
  <1>12. \A n \in DOMAIN a \ {fn} : b[n].key # NoKey <=> a[n].key # NoKey
    BY <1>0, <1>1, <1>7, <1>8
  <1>13. b[mp].key = key /\ b[mp].val = val /\ b[fn].key # NoKey /\ mp \in DOMAIN a
    BY <1>1, <1>7, <1>8
  <1>14. Added(a, b, key, val)
    <2>1. Carried(a, b, key)
      BY <1>8, <1>10, <1>11, Zenon DEF Carried
    <2> QED
      BY <1>8, <1>9, <1>12, <1>13, <2>1, AddedBy
  <1> QED
    BY <1>0, <1>3, <1>14

\* newkey with a free node.
LEMMA PlacedIs ==
    ASSUME NEW tab, Linked(tab.node), NEW key \in Keys, NEW val \in Vals \cup {Nil},
           \A n \in DOMAIN tab.node : tab.node[n].key # key,
           NEW fn \in DOMAIN tab.node, tab.node[fn].key = NoKey
    PROVE Added(tab.node, Placed(tab, fn, key, val), key, val)
  <1> DEFINE a == tab.node
             mp == Home(a, key)
             other == Home(a, a[mp].key)
             pre == Before(tab, mp)[other]
  <1>1. MainPosition(tab, key) = mp /\ MainPosition(tab, a[mp].key) = other
    BY DEF MainPosition, Home
  <1>2. CASE a[mp].val = Nil
    <2>1. Placed(tab, fn, key, val) = [a EXCEPT ![mp].key = key, ![mp].val = val]
      BY <1>1, <1>2 DEF Placed
    <2> HIDE DEF mp
    <2>2. mp = Home(a, key)
      BY DEF mp
    <2> HIDE DEF a
    <2>3. Linked(a) /\ \A n \in DOMAIN a : a[n].key # key
      BY DEF a
    <2>4. Added(a, [a EXCEPT ![mp].key = key, ![mp].val = val], key, val)
      BY <1>2, <2>2, <2>3, ReusedIs
    <2> QED
      BY <2>1, <2>4, Zenon DEF a
  <1>3. CASE a[mp].val # Nil /\ other = mp
    <2>1. Placed(tab, fn, key, val) =
              [a EXCEPT ![fn] = [key |-> key, val |-> val, next |-> a[mp].next], ![mp].next = fn]
      BY <1>1, <1>3 DEF Placed
    <2> HIDE DEF mp
    <2>2. mp = Home(a, key) /\ Home(a, a[mp].key) = mp
      BY <1>3, Zenon DEF mp
    <2> HIDE DEF a, other
    <2>3. Linked(a) /\ (\A n \in DOMAIN a : a[n].key # key) /\ fn \in DOMAIN a /\ a[fn].key = NoKey
      BY Zenon DEF a
    <2>4. Added(a, [a EXCEPT ![fn] = [key |-> key, val |-> val, next |-> a[mp].next], ![mp].next = fn], key, val)
      BY <1>3, <2>2, <2>3, InsertedIs
    <2> QED
      BY <2>1, <2>4, Zenon DEF a
  <1>4. CASE a[mp].val # Nil /\ other # mp
    <2>1. other \in DOMAIN a /\ mp \in Chain(a, other)
      <3>1. mp \in DOMAIN a /\ a[mp].key # NoKey /\ a[mp].key \in Keys
        BY <1>4, NodesAre
      <3> QED
        BY <3>1, NodesAre DEF Linked, OnChain
    <2>2. pre \in DOMAIN a /\ a[pre].next = mp
      BY <1>4, <2>1, BeforeFinds
    <2> HIDE DEF pre
    <2>3. /\ pre # mp
          /\ Added(a, [[a EXCEPT ![fn] = a[mp], ![pre].next = fn] EXCEPT ![mp] = [key |-> key, val |-> val, next |-> Null]],
                   key, val)
      BY <1>4, <2>2, MovedIs
    <2>4. Placed(tab, fn, key, val) =
              [[a EXCEPT ![fn] = a[mp], ![pre].next = fn] EXCEPT ![mp] = [key |-> key, val |-> val, next |-> Null]]
      BY <1>1, <1>4, <2>3, Zenon DEF Placed, pre
    <2> QED
      BY <2>3, <2>4
  <1> QED
    BY <1>2, <1>3, <1>4

\* A value is written to a node that has a key.
LEMMA LinkedValued ==
    ASSUME NEW a, Linked(a), NEW m \in DOMAIN a, a[m].key # NoKey, NEW val \in Vals \cup {Nil},
           NEW b, b = [a EXCEPT ![m].val = val]
    PROVE /\ Linked(b) /\ Len(b) = Len(a) /\ DOMAIN b = DOMAIN a
          /\ \A n \in DOMAIN a : b[n].key = a[n].key
          /\ b[m].val = val /\ \A n \in DOMAIN a \ {m} : b[n] = a[n]
  <1> DEFINE new == [key |-> a[m].key, val |-> val, next |-> a[m].next]
  <1>1. /\ Shaped(a) /\ a \in Seq(NodeRecord) /\ DOMAIN a = 1 .. Len(a) /\ a[m] \in NodeRecord
        /\ \A n \in DOMAIN a : a[n].next <= Len(a)
    BY ShapedIs DEF Linked, Shaped
  <1>2. new \in NodeRecord
    BY <1>1 DEF NodeRecord
  <1>3. b = [a EXCEPT ![m] = new]
    <2>1. \A r \in NodeRecord : [r EXCEPT !.val = val] = [key |-> r.key, val |-> val, next |-> r.next]
      BY DEF NodeRecord
    <2>2. [a[m] EXCEPT !.val = val] = new
      BY <1>1, <2>1
    <2> HIDE DEF new
    <2> QED
      BY <2>2
  <1>4. new.key = a[m].key /\ new.val = val /\ new.next = a[m].next
    OBVIOUS
  <1> HIDE DEF new
  <1>5. b \in Seq(NodeRecord) /\ Len(b) = Len(a) /\ \A n \in 1 .. Len(a) : b[n] = IF n = m THEN new ELSE a[n]
    BY <1>1, <1>2, <1>3, ExceptSeq
  <1>6. /\ DOMAIN b = DOMAIN a /\ b[m].val = val /\ \A n \in DOMAIN a \ {m} : b[n] = a[n]
        /\ \A n \in DOMAIN a : b[n].key = a[n].key /\ b[n].next = a[n].next
    BY <1>1, <1>4, <1>5
  <1>7. Shaped(b) /\ \A k : Home(b, k) = Home(a, k)
    <2>1. \A n \in DOMAIN a : b[n].next <= Len(a)
      BY <1>1, <1>6
    <2> QED
      BY <1>1, <1>5, <2>1, ShapedAgain, Zenon
  <1>8. \A c : Chain(b, c) = Chain(a, c)
    <2> HIDE DEF new
    <2>1. \A n \in DOMAIN a : b[n].next = a[n].next
      BY <1>6
    <2>2. DOMAIN b = DOMAIN a
      BY <1>6
    <2> QED
      BY <2>1, <2>2, ChainSame, ZenonT(20)
  <1>9. Distinct(b)
    BY <1>6 DEF Distinct, Linked
  <1>10. Empty(b)
    <2> SUFFICES ASSUME NEW n \in DOMAIN a
                 PROVE /\ b[n].key = NoKey => b[n].val = Nil /\ b[n].next = Null
                       /\ b[n].next # Null => b[b[n].next].key # NoKey
      BY <1>6 DEF Empty
    <2>1. /\ a[n].key = NoKey => n # m /\ a[n].val = Nil /\ a[n].next = Null
          /\ a[n].next # Null => a[n].next \in DOMAIN a /\ a[a[n].next].key # NoKey
      BY <1>1, ShapedIs DEF Linked, Empty, Null
    <2> QED
      BY <1>6, <2>1
  <1>11. AtHome(b)
    <2> SUFFICES ASSUME NEW n \in DOMAIN a, b[n].key # NoKey
                 PROVE b[Home(b, b[n].key)].key # NoKey
                       /\ Home(b, b[Home(b, b[n].key)].key) = Home(b, b[n].key)
      BY <1>6, Zenon DEF AtHome
    <2>0. b[n].key = a[n].key /\ a[n].key # NoKey
      BY <1>6
    <2>1. a[n].key \in Keys
      BY <1>1, <2>0, ShapedIs
    <2>2. Home(a, a[n].key) \in DOMAIN a
      BY <1>1, <2>1, HomeIsNode
    <2>3. a[Home(a, a[n].key)].key # NoKey /\ Home(a, a[Home(a, a[n].key)].key) = Home(a, a[n].key)
      BY <2>0 DEF Linked, AtHome
    <2>4. Home(b, b[n].key) = Home(a, a[n].key) /\ b[Home(a, a[n].key)].key = a[Home(a, a[n].key)].key
      BY <1>6, <1>7, <2>0, <2>2
    <2>5. Home(b, b[Home(a, a[n].key)].key) = Home(a, a[n].key)
      BY <1>7, <2>3, <2>4
    <2> QED
      BY <2>3, <2>4, <2>5
  <1>12. OneBefore(b) /\ NoRing(b)
    BY <1>6 DEF OneBefore, NoRing, Linked
  <1>13. OnChain(b)
    <2> SUFFICES ASSUME NEW n \in DOMAIN a, b[n].key # NoKey PROVE n \in Chain(b, Home(b, b[n].key))
      BY <1>6 DEF OnChain
    <2>1. a[n].key = b[n].key /\ n \in Chain(a, Home(a, a[n].key))
      BY <1>6 DEF OnChain, Linked
    <2>2. Home(b, b[n].key) = Home(a, a[n].key)
      BY <1>7, <2>1
    <2> QED
      BY <1>8, <2>1, <2>2
  <1> QED
    BY <1>5, <1>6, <1>7, <1>9, <1>10, <1>11, <1>12, <1>13 DEF Linked

\* What a store makes of a table with room for it.
Keyed(node) == {n \in DOMAIN node : node[n].key # NoKey}
Room(tab, key) == InVector(tab, key) \/ NodeOf(tab, key) # Null \/ FreePos(tab) # Null
Finds(tab, t, key, val) == \A j \in Keys : Get(t, j) = IF j = key THEN val ELSE Get(tab, j)
FindsBut(tab, t, key, val, hid) ==
    Get(t, key) = val /\ \A j \in Keys \ hid : j # key => Get(t, j) = Get(tab, j)
PutOK(tab, t, key, val) ==
    /\ TabOK(t) /\ Len(t.vec) = Len(tab.vec) /\ Len(t.node) = Len(tab.node)
    /\ Finds(tab, t, key, val) /\ \A hid : Shown(tab, hid) => Shown(t, hid)
    /\ InVector(tab, key) => t.node = tab.node
    /\ \E x \in DOMAIN t.node : Keyed(t.node) \subseteq Keyed(tab.node) \cup {x}

LEMMA KeyIs ==
    ASSUME NEW key \in Keys PROVE key = <<key[1], key[2]>> /\ key[1] \in {"str", "num"} /\ key[2] \in Int
  <1>1. Strs \subseteq Int /\ NumKeys \subseteq Int
    BY TableAssumption DEF TableAssumption, NumKeys
  <1>2. PICK s \in {"str", "num"}, n \in Strs \cup NumKeys : key = <<s, n>>
    BY DEF Keys
  <1> QED
    BY <1>1, <1>2

LEMMA TabIs ==
    ASSUME NEW tab, TabOK(tab)
    PROVE /\ Linked(tab.node) /\ DOMAIN tab.node = 1 .. Len(tab.node) /\ Len(tab.node) \in Nat \ {0}
          /\ DOMAIN tab.vec = 1 .. Len(tab.vec) /\ Len(tab.vec) \in Nat /\ tab.vec \in Seq(Vals \cup {Nil})
          /\ \A n \in DOMAIN tab.node : tab.node[n].key \in Keys \cup {NoKey} /\ tab.node[n].val \in Vals \cup {Nil}
          /\ \A key \in Keys : InVector(tab, key) => key[2] + 1 \in DOMAIN tab.vec /\ key = <<"num", key[2]>>
  <1>1. Linked(tab.node) /\ DOMAIN tab.node = 1 .. Len(tab.node) /\ Len(tab.node) \in Nat \ {0}
        /\ \A n \in DOMAIN tab.node : tab.node[n].key \in Keys \cup {NoKey} /\ tab.node[n].val \in Vals \cup {Nil}
    BY ShapedIs DEF TabOK, Linked
  <1>2. DOMAIN tab.vec = 1 .. Len(tab.vec) /\ Len(tab.vec) \in Nat /\ tab.vec \in Seq(Vals \cup {Nil})
    BY DEF TabOK
  <1>3. ASSUME NEW key \in Keys, InVector(tab, key) PROVE key[2] + 1 \in DOMAIN tab.vec /\ key = <<"num", key[2]>>
    BY <1>2, <1>3, KeyIs DEF InVector
  <1> QED
    BY <1>1, <1>2, <1>3

LEMMA PutInVector ==
    ASSUME NEW tab, TabOK(tab), NEW key \in Keys, NEW val \in Vals \cup {Nil}, InVector(tab, key)
    PROVE PutOK(tab, [tab EXCEPT !.vec[key[2] + 1] = val], key, val)
  <1> DEFINE i == key[2] + 1
             vec == [tab.vec EXCEPT ![i] = val]
             t == [vec |-> vec, node |-> tab.node, last |-> tab.last]
  <1>1. /\ i \in 1 .. Len(tab.vec) /\ key = <<"num", i - 1>> /\ tab.vec \in Seq(Vals \cup {Nil})
        /\ DOMAIN tab.vec = 1 .. Len(tab.vec) /\ Linked(tab.node)
    <2>1. key[2] + 1 \in DOMAIN tab.vec /\ key = <<"num", key[2]>> /\ DOMAIN tab.vec = 1 .. Len(tab.vec)
      BY TabIs
    <2> QED
      BY <2>1, KeyIs, TabIs, SMTT(20)
  <1>2. vec \in Seq(Vals \cup {Nil}) /\ Len(vec) = Len(tab.vec) /\ \A j \in 1 .. Len(tab.vec) : vec[j] = IF j = i THEN val ELSE tab.vec[j]
    BY <1>1, ExceptSeq
  <1>3. [tab EXCEPT !.vec[key[2] + 1] = val] = t
    <2>1. tab = [vec |-> tab.vec, node |-> tab.node, last |-> tab.last]
      BY DEF TabOK
    <2> QED
      BY <2>1
  <1>4. t.vec = vec /\ t.node = tab.node /\ t.last = tab.last /\ t = [vec |-> t.vec, node |-> t.node, last |-> t.last]
    OBVIOUS
  <1>5. \A j : InVector(t, j) <=> InVector(tab, j)
    BY <1>2 DEF InVector
  <1> HIDE DEF vec, t
  <1>6. TabOK(t)
    <2>1. \A j \in DOMAIN vec : vec[j] # Nil => <<"num", j - 1>> \in Keys
      <3> SUFFICES ASSUME NEW j \in 1 .. Len(tab.vec), vec[j] # Nil PROVE <<"num", j - 1>> \in Keys
        BY <1>2
      <3>1. CASE j = i
        BY <1>1, <3>1
      <3>2. CASE j # i
        BY <1>1, <1>2, <3>2 DEF TabOK
      <3> QED
        BY <3>1, <3>2
    <2> QED
      BY <1>2, <1>4, <1>5, <2>1 DEF TabOK
  <1>7. Finds(tab, t, key, val)
    <2> SUFFICES ASSUME NEW j \in Keys PROVE Get(t, j) = IF j = key THEN val ELSE Get(tab, j)
      BY DEF Finds
    <2>1. /\ Get(tab, j) = IF InVector(tab, j) THEN tab.vec[j[2] + 1] ELSE ValOf(tab.node, j)
          /\ Get(t, j) = IF InVector(tab, j) THEN vec[j[2] + 1] ELSE ValOf(tab.node, j)
      BY <1>1, <1>4, <1>5, GetIs
    <2>2. CASE InVector(tab, j)
      <3>1. j[2] + 1 \in 1 .. Len(tab.vec) /\ j = <<"num", j[2]>> /\ j[2] \in Int
        BY <1>1, <2>2, KeyIs, TabIs
      <3>2. j[2] + 1 = i <=> j = key
        <4>1. key = <<"num", key[2]>> /\ key[2] \in Int /\ i = key[2] + 1
          BY KeyIs, TabIs
        <4> QED
          BY <3>1, <4>1
      <3> QED
        BY <1>2, <2>1, <2>2, <3>1, <3>2
    <2>3. CASE ~InVector(tab, j)
      BY <2>1, <2>3
    <2> QED
      BY <2>2, <2>3
  <1>8. \E x \in DOMAIN t.node : Keyed(t.node) \subseteq Keyed(tab.node) \cup {x}
    <2>1. 1 \in DOMAIN tab.node
      BY TabIs
    <2> QED
      BY <1>4, <2>1
  <1>9. \A hid : Shown(tab, hid) => Shown(t, hid)
    BY <1>4, <1>5 DEF Shown
  <1> QED
    BY <1>2, <1>3, <1>4, <1>6, <1>7, <1>8, <1>9 DEF PutOK

LEMMA PutOnNode ==
    ASSUME NEW tab, TabOK(tab), NEW key \in Keys, NEW val \in Vals \cup {Nil},
           ~InVector(tab, key), NodeOf(tab, key) # Null
    PROVE PutOK(tab, [tab EXCEPT !.node[NodeOf(tab, key)].val = val], key, val)
  <1> DEFINE a == tab.node
             m == NodeOf(tab, key)
             b == [a EXCEPT ![m].val = val]
             t == [vec |-> tab.vec, node |-> b, last |-> tab.last]
  <1>1. Linked(a) /\ m \in DOMAIN a /\ a[m].key = key /\ key # NoKey
    BY NodeOfIs, NoKeyIsNone, TabIs
  <1>2. [tab EXCEPT !.node[NodeOf(tab, key)].val = val] = t
    <2>1. tab = [vec |-> tab.vec, node |-> tab.node, last |-> tab.last]
      BY DEF TabOK
    <2> HIDE DEF m
    <2>2. [tab EXCEPT !.node = b] = t
      BY <2>1
    <2> QED
      BY <2>2 DEF m
  <1>3. t.vec = tab.vec /\ t.node = b /\ t.last = tab.last /\ t = [vec |-> t.vec, node |-> t.node, last |-> t.last]
    OBVIOUS
  <1> HIDE DEF a, m, t
  <1>4. /\ Linked(b) /\ Len(b) = Len(a) /\ DOMAIN b = DOMAIN a /\ b[m].val = val
        /\ \A n \in DOMAIN a : b[n].key = a[n].key
        /\ \A n \in DOMAIN a \ {m} : b[n] = a[n]
    BY <1>1, LinkedValued
  <1> HIDE DEF b
  <1>5. \A j : InVector(t, j) <=> InVector(tab, j)
    BY <1>3 DEF InVector
  <1>6. TabOK(t)
    <2>1. \A n \in DOMAIN t.node : t.node[n].key = NoKey => n <= t.last
      BY <1>3, <1>4 DEF TabOK, a
    <2>3. t.last \in 0 .. Len(t.node) /\ Linked(t.node)
      BY <1>3, <1>4 DEF TabOK, a
    <2>4. t.vec \in Seq(Vals \cup {Nil}) /\ \A i \in DOMAIN t.vec : t.vec[i] # Nil => <<"num", i - 1>> \in Keys
      BY <1>3 DEF TabOK
    <2> QED
      BY <1>3, <2>1, <2>3, <2>4 DEF TabOK
  <1>7. Agree(a, b, key, val)
    <2>1. Carried(a, b, key)
      <3>1. ASSUME NEW n \in DOMAIN a, a[n].key \notin {NoKey, key} PROVE b[n].key = a[n].key /\ b[n].val = a[n].val
        BY <1>1, <1>4, <3>1
      <3> QED
        BY <1>4, <3>1 DEF Carried
    <2>2. Distinct(a) /\ Distinct(b) /\ m \in DOMAIN b /\ b[m].key = key /\ b[m].val = val
      BY <1>1, <1>4 DEF Linked
    <2> QED
      BY <2>1, <2>2, ValsKept
  <1>8. Finds(tab, t, key, val)
    <2> SUFFICES ASSUME NEW j \in Keys PROVE Get(t, j) = IF j = key THEN val ELSE Get(tab, j)
      BY DEF Finds
    <2>1. /\ Get(tab, j) = IF InVector(tab, j) THEN tab.vec[j[2] + 1] ELSE ValOf(a, j)
          /\ Get(t, j) = IF InVector(tab, j) THEN tab.vec[j[2] + 1] ELSE ValOf(b, j)
      BY <1>1, <1>3, <1>4, <1>5, GetIs DEF a
    <2>2. ValOf(b, j) = IF j = key THEN val ELSE ValOf(a, j)
      BY <1>7 DEF Agree
    <2> QED
      BY <2>1, <2>2
  <1>9. m \in DOMAIN t.node /\ Keyed(t.node) \subseteq Keyed(tab.node) \cup {m}
    BY <1>1, <1>3, <1>4 DEF Keyed, a
  <1>10. \A hid : Shown(tab, hid) => Shown(t, hid)
    BY <1>3, <1>4, <1>5 DEF Shown, a
  <1> QED
    BY <1>2, <1>3, <1>4, <1>6, <1>8, <1>9, <1>10 DEF PutOK, a

LEMMA PutOnNew ==
    ASSUME NEW tab, TabOK(tab), NEW key \in Keys, NEW val \in Vals \cup {Nil},
           ~InVector(tab, key), NodeOf(tab, key) = Null, FreePos(tab) # Null
    PROVE PutOK(tab, [tab EXCEPT !.last = FreePos(tab), !.node = Placed(tab, FreePos(tab), key, val)], key, val)
  <1> DEFINE a == tab.node
             fn == FreePos(tab)
             b == Placed(tab, fn, key, val)
             t == [vec |-> tab.vec, node |-> b, last |-> fn]
  <1>1. /\ Linked(a) /\ fn \in DOMAIN a /\ a[fn].key = NoKey /\ DOMAIN a = 1 .. Len(a) /\ Len(a) \in Nat
        /\ \A n \in DOMAIN a : a[n].key = NoKey => n <= fn
    BY FreePosIs, TabIs
  <1>2. \A n \in DOMAIN a : a[n].key # key
    <2>1. Null \notin DOMAIN a
      BY <1>1 DEF Null
    <2> QED
      BY <1>1, <2>1, NodeOfIs
  <1>3. [tab EXCEPT !.last = FreePos(tab), !.node = Placed(tab, FreePos(tab), key, val)] = t
    <2>1. tab = [vec |-> tab.vec, node |-> tab.node, last |-> tab.last]
      BY DEF TabOK
    <2> HIDE DEF fn, b
    <2> DEFINE u == [vec |-> tab.vec, node |-> tab.node, last |-> fn]
    <2>3. [tab EXCEPT !.last = fn] = u
      BY <2>1
    <2>4. [u EXCEPT !.node = b] = t
      OBVIOUS
    <2> HIDE DEF u, t
    <2>2. [[tab EXCEPT !.last = fn] EXCEPT !.node = b] = t
      BY <2>3, <2>4, Zenon
    <2> QED
      BY <2>2 DEF fn, b
  <1>4. t.vec = tab.vec /\ t.node = b /\ t.last = fn /\ t = [vec |-> t.vec, node |-> t.node, last |-> t.last]
    OBVIOUS
  <1>5. Added(a, b, key, val)
    <2> HIDE DEF fn
    <2> QED
      BY <1>1, <1>2, PlacedIs
  <1> HIDE DEF a, fn, b, t
  <1>6. Linked(b) /\ Len(b) = Len(a) /\ DOMAIN b = DOMAIN a
    BY <1>1, <1>5, ShapedIs DEF Added, Linked
  <1>7. \A j : InVector(t, j) <=> InVector(tab, j)
    BY <1>4 DEF InVector
  <1>8. TabOK(t)
    <2>1. \A n \in DOMAIN t.node : t.node[n].key = NoKey => n <= t.last
      BY <1>1, <1>4, <1>5, <1>6 DEF Added
    <2>3. t.last \in 0 .. Len(t.node) /\ Linked(t.node)
      BY <1>1, <1>4, <1>6
    <2>4. t.vec \in Seq(Vals \cup {Nil}) /\ \A i \in DOMAIN t.vec : t.vec[i] # Nil => <<"num", i - 1>> \in Keys
      BY <1>4 DEF TabOK
    <2> QED
      BY <1>4, <2>1, <2>3, <2>4 DEF TabOK
  <1>9. Finds(tab, t, key, val)
    <2> SUFFICES ASSUME NEW j \in Keys PROVE Get(t, j) = IF j = key THEN val ELSE Get(tab, j)
      BY DEF Finds
    <2>1. /\ Get(tab, j) = IF InVector(tab, j) THEN tab.vec[j[2] + 1] ELSE ValOf(a, j)
          /\ Get(t, j) = IF InVector(tab, j) THEN tab.vec[j[2] + 1] ELSE ValOf(b, j)
      BY <1>1, <1>4, <1>6, <1>7, GetIs DEF a
    <2>2. ValOf(b, j) = IF j = key THEN val ELSE ValOf(a, j)
      BY <1>5 DEF Added
    <2> QED
      BY <2>1, <2>2
  <1>10. \E x \in DOMAIN t.node : Keyed(t.node) \subseteq Keyed(tab.node) \cup {x}
    <2>1. PICK x \in DOMAIN b : \A n \in DOMAIN b \ {x} : b[n].key # NoKey => a[n].key # NoKey
      BY <1>5 DEF Added
    <2>2. Keyed(b) \subseteq Keyed(a) \cup {x}
      BY <1>6, <2>1 DEF Keyed
    <2> QED
      BY <1>4, <2>1, <2>2 DEF a
  <1>11. ASSUME NEW hid, Shown(tab, hid) PROVE Shown(t, hid)
    <2> SUFFICES ASSUME NEW n \in DOMAIN b, InVector(tab, b[n].key) PROVE b[n].key \in hid
      BY <1>4, <1>7 DEF Shown
    <2>1. ~InVector(tab, NoKey)
      BY DEF InVector, NoKey
    <2>2. b[n].key \in {NoKey, key} \/ \E x \in DOMAIN a : a[x].key = b[n].key
      BY <1>5 DEF Added
    <2>3. \A x \in DOMAIN a : InVector(tab, a[x].key) => a[x].key \in hid
      BY <1>11 DEF Shown, a
    <2> QED
      BY <2>1, <2>2, <2>3
  <1> QED
    BY <1>3, <1>4, <1>6, <1>8, <1>9, <1>10, <1>11 DEF PutOK, a

LEMMA PutIs ==
    ASSUME NEW tab, TabOK(tab), NEW key \in Keys, NEW val \in Vals \cup {Nil}, Room(tab, key)
    PROVE PutOK(tab, Put(tab, key, val), key, val)
  <1>1. CASE InVector(tab, key)
    BY <1>1, PutInVector DEF Put
  <1>2. CASE ~InVector(tab, key) /\ NodeOf(tab, key) # Null
    BY <1>2, PutOnNode DEF Put
  <1>3. CASE ~InVector(tab, key) /\ NodeOf(tab, key) = Null
    BY <1>3, PutOnNew DEF Put, Room
  <1> QED
    BY <1>1, <1>2, <1>3
-----------------------------------------------------------------------------
(* The entries of a table: they are its keys with a value, each once unless the *)
(* vector has grown over it.                                                   *)

EntriesOf(tab, e) ==
    /\ DOMAIN e = 1 .. Len(tab.vec) + Len(tab.node) /\ Len(e) = Len(tab.vec) + Len(tab.node)
    /\ \A i \in 1 .. Len(tab.vec) : e[i].key = <<"num", i - 1>> /\ e[i].val = tab.vec[i]
    /\ \A n \in 1 .. Len(tab.node) : /\ e[Len(tab.vec) + n].key = tab.node[n].key
                                     /\ e[Len(tab.vec) + n].val = tab.node[n].val

LEMMA SumOf ==
    ASSUME NEW x \in Nat, NEW y \in Nat
    PROVE /\ \A k \in 1 .. x + y : k \in 1 .. x \/ \E n \in 1 .. y : k = x + n /\ k > x
          /\ \A k \in 1 .. x : k \in 1 .. x + y
          /\ \A n \in 1 .. y : x + n \in 1 .. x + y
          /\ x + y \in Nat
  <1>1. ASSUME NEW k \in 1 .. x + y, k > x PROVE \E n \in 1 .. y : k = x + n
    <2>1. k - x \in 1 .. y /\ k = x + (k - x)
      BY <1>1
    <2> QED
      BY <2>1
  <1> QED
    BY <1>1

LEMMA EntriesAre == ASSUME NEW tab, TabOK(tab) PROVE EntriesOf(tab, Entries(tab))
  <1> DEFINE V == [i \in DOMAIN tab.vec |-> [key |-> <<"num", i - 1>>, val |-> tab.vec[i]]]
             M == [n \in DOMAIN tab.node |-> [key |-> tab.node[n].key, val |-> tab.node[n].val]]
             S == {V[i] : i \in DOMAIN V} \cup {M[n] : n \in DOMAIN M}
  <1>1. /\ DOMAIN tab.node = 1 .. Len(tab.node) /\ Len(tab.node) \in Nat
        /\ DOMAIN tab.vec = 1 .. Len(tab.vec) /\ Len(tab.vec) \in Nat
    BY TabIs
  <1>2. \A i \in 1 .. Len(tab.vec) : V[i].key = <<"num", i - 1>> /\ V[i].val = tab.vec[i]
    BY <1>1
  <1>3. \A n \in 1 .. Len(tab.node) : M[n].key = tab.node[n].key /\ M[n].val = tab.node[n].val
    BY <1>1
  <1>4. V = [i \in 1 .. Len(tab.vec) |-> V[i]] /\ M = [n \in 1 .. Len(tab.node) |-> M[n]]
        /\ DOMAIN V = 1 .. Len(tab.vec) /\ DOMAIN M = 1 .. Len(tab.node)
    BY <1>1
  <1> HIDE DEF V, M
  <1>5. V \in [1 .. Len(tab.vec) -> S] /\ M \in [1 .. Len(tab.node) -> S]
    BY <1>4
  <1> HIDE DEF S
  <1>6. V \in Seq(S) /\ M \in Seq(S) /\ Len(V) = Len(tab.vec) /\ Len(M) = Len(tab.node)
    BY <1>1, <1>4, <1>5
  <1>7. Entries(tab) = V \o M
    BY Zenon DEF Entries, V, M
  <1>8. /\ Len(V \o M) = Len(V) + Len(M) /\ V \o M \in Seq(S)
        /\ \A i \in 1 .. Len(V) + Len(M) : (V \o M)[i] = IF i <= Len(V) THEN V[i] ELSE M[i - Len(V)]
    BY <1>6, ConcatProperties
  <1>9. \A i \in 1 .. Len(tab.vec) : (V \o M)[i] = V[i]
    BY <1>1, <1>6, <1>8
  <1>10. \A n \in 1 .. Len(tab.node) : (V \o M)[Len(tab.vec) + n] = M[n]
    BY <1>1, <1>6, <1>8
  <1>11. DOMAIN (V \o M) = 1 .. Len(tab.vec) + Len(tab.node)
    <2>1. \A s \in Seq(S) : DOMAIN s = 1 .. Len(s)
      OBVIOUS
    <2> QED
      BY <1>6, <1>8, <2>1, Zenon
  <1> QED
    BY <1>2, <1>3, <1>6, <1>7, <1>8, <1>9, <1>10, <1>11, ZenonT(20) DEF EntriesOf

LEMMA EntriesLen ==
    ASSUME NEW tab, TabOK(tab), NEW e, EntriesOf(tab, e) PROVE Len(e) \in Nat /\ DOMAIN e = 1 .. Len(e)
  <1>1. Len(tab.vec) \in Nat /\ Len(tab.node) \in Nat
    BY TabIs
  <1>2. DOMAIN e = 1 .. Len(tab.vec) + Len(tab.node) /\ Len(e) = Len(tab.vec) + Len(tab.node)
    BY Zenon DEF EntriesOf
  <1>3. Len(tab.vec) + Len(tab.node) \in Nat
    BY <1>1, SumOf, Zenon
  <1> QED
    BY <1>2, <1>3

LEMMA EntriesAt ==
    ASSUME NEW tab, TabOK(tab), NEW e, EntriesOf(tab, e)
    PROVE /\ \A i \in 1 .. Len(tab.vec) : i \in DOMAIN e /\ e[i].key = <<"num", i - 1>> /\ e[i].val = tab.vec[i]
          /\ \A n \in 1 .. Len(tab.node) : /\ Len(tab.vec) + n \in DOMAIN e /\ Len(tab.vec) + n > Len(tab.vec)
                                           /\ e[Len(tab.vec) + n].key = tab.node[n].key
                                           /\ e[Len(tab.vec) + n].val = tab.node[n].val
          /\ \A x \in DOMAIN e : \/ x \in 1 .. Len(tab.vec) /\ ~(x > Len(tab.vec))
                                \/ \E n \in 1 .. Len(tab.node) : x = Len(tab.vec) + n /\ x > Len(tab.vec)
  <1> DEFINE lv == Len(tab.vec)
             ln == Len(tab.node)
  <1>1. lv \in Nat /\ ln \in Nat
    BY TabIs
  <1>2. /\ DOMAIN e = 1 .. lv + ln
        /\ \A i \in 1 .. lv : e[i].key = <<"num", i - 1>> /\ e[i].val = tab.vec[i]
        /\ \A n \in 1 .. ln : e[lv + n].key = tab.node[n].key /\ e[lv + n].val = tab.node[n].val
    BY Zenon DEF EntriesOf
  <1> HIDE DEF lv, ln
  <1>3. /\ \A i \in 1 .. lv : i \in DOMAIN e /\ ~(i > lv)
        /\ \A n \in 1 .. ln : lv + n \in DOMAIN e /\ lv + n > lv
    BY <1>1, <1>2
  <1>4. \A x \in 1 .. lv + ln : x \in 1 .. lv \/ \E n \in 1 .. ln : x = lv + n /\ x > lv
    BY <1>1, SumOf, Zenon
  <1> QED
    BY <1>2, <1>3, <1>4, Zenon DEF lv, ln

LEMMA EntryIs ==
    ASSUME NEW tab, TabOK(tab), NEW e, EntriesOf(tab, e), NEW i \in DOMAIN e
    PROVE \/ i \in DOMAIN tab.vec /\ e[i].key = <<"num", i - 1>> /\ e[i].val = tab.vec[i] /\ i <= Len(tab.vec)
          \/ \E n \in DOMAIN tab.node : /\ i = Len(tab.vec) + n /\ i > Len(tab.vec)
                                        /\ e[i].key = tab.node[n].key /\ e[i].val = tab.node[n].val
  <1>1. /\ DOMAIN tab.node = 1 .. Len(tab.node) /\ Len(tab.node) \in Nat
        /\ DOMAIN tab.vec = 1 .. Len(tab.vec) /\ Len(tab.vec) \in Nat /\ i \in 1 .. Len(tab.vec) + Len(tab.node)
    BY TabIs DEF EntriesOf
  <1>2. CASE i \in 1 .. Len(tab.vec)
    <2>1. i <= Len(tab.vec)
      BY <1>1, <1>2
    <2> QED
      BY <1>1, <1>2, <2>1 DEF EntriesOf
  <1>3. CASE \E n \in 1 .. Len(tab.node) : i = Len(tab.vec) + n /\ i > Len(tab.vec)
    <2>1. PICK n \in 1 .. Len(tab.node) : i = Len(tab.vec) + n /\ i > Len(tab.vec)
      BY <1>3
    <2> QED
      BY <1>1, <2>1 DEF EntriesOf
  <1> QED
    BY <1>1, <1>2, <1>3, SumOf

LEMMA EntriesOnce ==
    ASSUME NEW tab, TabOK(tab), NEW hid, Shown(tab, hid), NEW e, EntriesOf(tab, e),
           NEW i \in DOMAIN e, NEW j \in DOMAIN e, e[i].key = e[j].key, e[i].key \notin {NoKey} \cup hid
    PROVE i = j
  <1>1. /\ DOMAIN tab.vec = 1 .. Len(tab.vec) /\ Len(tab.vec) \in Nat
        /\ DOMAIN tab.node = 1 .. Len(tab.node) /\ Len(tab.node) \in Nat
    BY TabIs
  <1>2. \A x \in 1 .. Len(tab.vec) : \A n \in DOMAIN tab.node :
            tab.node[n].key = <<"num", x - 1>> => tab.node[n].key \in hid
    <2> SUFFICES ASSUME NEW x \in 1 .. Len(tab.vec), NEW n \in DOMAIN tab.node, tab.node[n].key = <<"num", x - 1>>
                 PROVE tab.node[n].key \in hid
      OBVIOUS
    <2>1. InVector(tab, <<"num", x - 1>>)
      BY <1>1 DEF InVector
    <2> QED
      BY <2>1 DEF Shown
  <1>3. \A m, n \in DOMAIN tab.node : tab.node[m].key = tab.node[n].key /\ tab.node[n].key # NoKey => m = n
    BY TabIs DEF Linked, Distinct
  <1>4. \A x, y \in 1 .. Len(tab.vec) : <<"num", x - 1>> = <<"num", y - 1>> => x = y
    BY <1>1
  <1>5. CASE i \in DOMAIN tab.vec /\ e[i].key = <<"num", i - 1>>
    <2>1. CASE j \in DOMAIN tab.vec /\ e[j].key = <<"num", j - 1>>
      BY <1>1, <1>4, <1>5, <2>1
    <2>2. CASE \E n \in DOMAIN tab.node : e[j].key = tab.node[n].key
      BY <1>1, <1>2, <1>5, <2>2
    <2> QED
      BY <2>1, <2>2, EntryIs
  <1>6. CASE \E n \in DOMAIN tab.node : i = Len(tab.vec) + n /\ e[i].key = tab.node[n].key
    <2>1. CASE j \in DOMAIN tab.vec /\ e[j].key = <<"num", j - 1>>
      BY <1>1, <1>2, <1>6, <2>1
    <2>2. CASE \E n \in DOMAIN tab.node : j = Len(tab.vec) + n /\ e[j].key = tab.node[n].key
      BY <1>3, <1>6, <2>2
    <2> QED
      BY <2>1, <2>2, EntryIs
  <1> QED
    BY <1>5, <1>6, EntryIs

LEMMA EntryFound ==
    ASSUME NEW tab, TabOK(tab), NEW e, EntriesOf(tab, e), NEW i \in DOMAIN e, e[i].val # Nil
    PROVE /\ e[i].key \in Keys /\ e[i].key # NoKey /\ e[i].val \in Vals \cup {Nil}
          /\ \A hid : Shown(tab, hid) /\ e[i].key \notin hid => Get(tab, e[i].key) = e[i].val
  <1>0. /\ DOMAIN tab.vec = 1 .. Len(tab.vec) /\ Len(tab.vec) \in Nat /\ Linked(tab.node)
        /\ tab.vec \in Seq(Vals \cup {Nil})
    BY TabIs
  <1>1. CASE i \in DOMAIN tab.vec /\ e[i].key = <<"num", i - 1>> /\ e[i].val = tab.vec[i]
    <2>1. <<"num", i - 1>> \in Keys
      BY <1>1 DEF TabOK
    <2>2. InVector(tab, <<"num", i - 1>>) /\ <<"num", i - 1>>[2] + 1 = i
      BY <1>0, <1>1 DEF InVector
    <2>3. Get(tab, <<"num", i - 1>>) = tab.vec[i]
      BY <2>2 DEF Get
    <2> QED
      BY <1>0, <1>1, <2>1, <2>3, NoKeyIsNone
  <1>2. CASE \E n \in DOMAIN tab.node : e[i].key = tab.node[n].key /\ e[i].val = tab.node[n].val
    <2>1. PICK n \in DOMAIN tab.node : e[i].key = tab.node[n].key /\ e[i].val = tab.node[n].val
      BY <1>2
    <2>2. tab.node[n].key # NoKey /\ tab.node[n].key \in Keys /\ tab.node[n].val \in Vals \cup {Nil}
      BY <2>1, TabIs DEF Linked, Empty
    <2>3. ValOf(tab.node, tab.node[n].key) = tab.node[n].val
      BY <1>0, <2>2, ValAt DEF Linked
    <2>4. ASSUME NEW hid, Shown(tab, hid), tab.node[n].key \notin hid
          PROVE Get(tab, tab.node[n].key) = tab.node[n].val
      <3>1. ~InVector(tab, tab.node[n].key)
        BY <2>4 DEF Shown
      <3> QED
        BY <1>0, <2>2, <2>3, <3>1, GetIs
    <2> QED
      BY <2>1, <2>2, <2>4
  <1> QED
    BY <1>1, <1>2, EntryIs

LEMMA EntryOf ==
    ASSUME NEW tab, TabOK(tab), NEW e, EntriesOf(tab, e), NEW key \in Keys, Get(tab, key) # Nil
    PROVE \E i \in DOMAIN e : e[i].key = key /\ e[i].val = Get(tab, key)
  <1>0. /\ DOMAIN tab.vec = 1 .. Len(tab.vec) /\ Len(tab.vec) \in Nat /\ Linked(tab.node)
        /\ DOMAIN tab.node = 1 .. Len(tab.node) /\ Len(tab.node) \in Nat
    BY TabIs
  <1>1. CASE InVector(tab, key)
    <2>1. key[2] + 1 \in 1 .. Len(tab.vec) /\ key = <<"num", key[2]>> /\ key[2] \in Int
      BY <1>0, <1>1, KeyIs, TabIs
    <2>2. (key[2] + 1) - 1 = key[2]
      BY <2>1
    <2>3. key[2] + 1 \in DOMAIN e /\ e[key[2] + 1].key = <<"num", key[2]>> /\ e[key[2] + 1].val = tab.vec[key[2] + 1]
      BY <1>0, <2>1, <2>2, EntriesAt
    <2> QED
      BY <1>1, <2>1, <2>3 DEF Get
  <1>2. CASE ~InVector(tab, key)
    <2>1. NodeOf(tab, key) # Null /\ Get(tab, key) = tab.node[NodeOf(tab, key)].val
      BY <1>2 DEF Get
    <2>2. NodeOf(tab, key) \in 1 .. Len(tab.node) /\ tab.node[NodeOf(tab, key)].key = key
      BY <1>0, <2>1, NodeOfIs
    <2>3. Len(tab.vec) + NodeOf(tab, key) \in DOMAIN e
      BY <1>0, <2>2, EntriesAt
    <2> QED
      BY <2>1, <2>2, <2>3, EntriesAt, SMTT(20)
  <1> QED
    BY <1>1, <1>2
-----------------------------------------------------------------------------
(* New tables, and the resize. *)

LEMMA FreshIs ==
    ASSUME NEW vsize \in Nat, NEW tsize \in Nat \ {0}, NEW t, t = FreshTable(vsize, tsize)
    PROVE /\ TabOK(t) /\ Shown(t, {}) /\ Len(t.vec) = vsize /\ Len(t.node) = tsize /\ Keyed(t.node) = {}
          /\ \A j \in Keys : Get(t, j) = Nil
          /\ \A n \in DOMAIN t.node : t.node[n].key = NoKey
  <1> DEFINE vec == [i \in 1 .. vsize |-> Nil]
             node == [n \in 1 .. tsize |-> FreeNode]
  <1>1. t = [vec |-> vec, node |-> node, last |-> tsize]
    BY DEF FreshTable
  <1>2. t.vec = vec /\ t.node = node /\ t.last = tsize /\ t = [vec |-> t.vec, node |-> t.node, last |-> t.last]
    BY <1>1
  <1>3. FreeNode \in NodeRecord /\ FreeNode.key = NoKey /\ FreeNode.val = Nil /\ FreeNode.next = Null /\ Null = 0
    BY DEF FreeNode, NodeRecord, Null
  <1>4. vec \in Seq(Vals \cup {Nil}) /\ Len(vec) = vsize /\ DOMAIN vec = 1 .. vsize /\ \A i \in 1 .. vsize : vec[i] = Nil
    OBVIOUS
  <1>5. node \in Seq(NodeRecord) /\ Len(node) = tsize /\ DOMAIN node = 1 .. tsize
    BY <1>3
  <1>6. \A n \in 1 .. tsize : node[n].key = NoKey /\ node[n].val = Nil /\ node[n].next = 0
    BY <1>3
  <1> HIDE DEF vec, node
  <1>7. Linked(node)
    <2>1. Shaped(node)
      BY <1>5, <1>6 DEF Shaped
    <2>2. Distinct(node) /\ AtHome(node) /\ OnChain(node)
      BY <1>5, <1>6 DEF Distinct, AtHome, OnChain
    <2>3. Empty(node) /\ OneBefore(node)
      BY <1>3, <1>5, <1>6 DEF Empty, OneBefore
    <2>4. NoRing(node)
      <3> SUFFICES ASSUME NEW C \in SUBSET DOMAIN node, C # {} PROVE \E n \in C : node[n].next \notin C
        BY DEF NoRing
      <3>1. PICK n \in C : TRUE
        OBVIOUS
      <3>2. n \in 1 .. tsize /\ 0 \notin C
        BY <1>5
      <3> QED
        BY <1>6, <3>2
    <2> QED
      BY <2>1, <2>2, <2>3, <2>4 DEF Linked
  <1>8. Shown(t, {})
    BY <1>2, <1>5, <1>6 DEF Shown, InVector, NoKey
  <1>9. TabOK(t)
    BY <1>2, <1>4, <1>5, <1>7 DEF TabOK
  <1>10. ASSUME NEW j \in Keys PROVE Get(t, j) = Nil
    <2>1. CASE InVector(t, j)
      <3>1. j[2] + 1 \in 1 .. vsize
        BY <1>2, <1>4, <1>9, <2>1, TabIs
      <3> QED
        BY <1>2, <1>4, <2>1, <3>1 DEF Get
    <2>2. CASE ~InVector(t, j)
      <3>1. \A n \in DOMAIN node : node[n].key # j
        BY <1>5, <1>6, NoKeyIsNone
      <3>2. ValOf(node, j) = Nil
        BY <3>1, ValNone
      <3> QED
        BY <1>2, <1>7, <2>2, <3>2, GetIs
    <2> QED
      BY <2>1, <2>2
  <1>11. Keyed(t.node) = {} /\ \A n \in DOMAIN t.node : t.node[n].key = NoKey
    BY <1>2, <1>5, <1>6 DEF Keyed
  <1> QED
    BY <1>2, <1>4, <1>5, <1>8, <1>9, <1>10, <1>11

\* The equation of entered has a solution, so the one chosen solves it.
LEMMA EnterIs ==
    ASSUME NEW tab, NEW e, Len(e) \in Nat, NEW F, F = Enter(tab, e)
    PROVE \A i \in 0 .. Len(e) :
              F[i] = IF i = 0 THEN tab
                     ELSE IF e[i].val = Nil THEN F[i - 1] ELSE Put(F[i - 1], e[i].key, e[i].val)
  <1> DEFINE N == Len(e)
             Step(i, before) == IF i = 0 THEN tab ELSE IF e[i].val = Nil THEN before ELSE Put(before, e[i].key, e[i].val)
             Body(f) == [i \in 0 .. N |-> Step(i, f[i - 1])]
             Upto(n, f) == f = [i \in 0 .. n |-> Step(i, f[i - 1])]
             T == {n \in 0 .. N : \E f : Upto(n, f)}
  <1>1. 0 \in T
    <2> DEFINE f == [i \in 0 .. 0 |-> tab]
    <2>1. \A i \in 0 .. 0 : Step(i, f[i - 1]) = tab
      OBVIOUS
    <2> HIDE DEF Step
    <2>2. Upto(0, f)
      BY <2>1
    <2>3. 0 \in 0 .. N
      OBVIOUS
    <2> HIDE DEF Upto, f
    <2> QED
      BY <2>2, <2>3
  <1>2. ASSUME NEW n \in 0 .. N - 1, n \in T PROVE n + 1 \in T
    <2>1. PICK f : Upto(n, f)
      BY <1>2
    <2> DEFINE g == [i \in 0 .. n + 1 |-> IF i <= n THEN f[i] ELSE Step(n + 1, f[n])]
    <2> HIDE DEF Step
    <2>2. \A i \in 0 .. n : f[i] = Step(i, f[i - 1])
      <3>1. f = [i \in 0 .. n |-> Step(i, f[i - 1])]
        BY <2>1
      <3> QED
        BY <3>1, Zenon
    <2>3. \A i \in 0 .. n + 1 : g[i] = Step(i, g[i - 1])
      <3> SUFFICES ASSUME NEW i \in 0 .. n + 1 PROVE g[i] = Step(i, g[i - 1])
        OBVIOUS
      <3>1. CASE i = 0
        <4>1. g[0] = f[0] /\ f[0] = Step(0, f[0 - 1])
          BY <2>2
        <4>2. \A x : Step(0, x) = tab
          BY DEF Step
        <4> HIDE DEF g
        <4> QED
          BY <3>1, <4>1, <4>2
      <3>2. CASE i \in 1 .. n
        <4>1. g[i] = f[i] /\ g[i - 1] = f[i - 1] /\ f[i] = Step(i, f[i - 1])
          BY <2>2, <3>2
        <4> QED
          BY <4>1, Zenon
      <3>3. CASE i = n + 1
        <4>1. g[n + 1] = Step(n + 1, f[n]) /\ g[n] = f[n] /\ (n + 1) - 1 = n
          OBVIOUS
        <4> HIDE DEF g
        <4> QED
          BY <3>3, <4>1
      <3> QED
        BY <3>1, <3>2, <3>3
    <2>4. Upto(n + 1, g)
      <3> DEFINE h == [i \in 0 .. n + 1 |-> Step(i, g[i - 1])]
      <3>1. \A i \in 0 .. n + 1 : g[i] = h[i]
        <4> HIDE DEF g
        <4> QED
          BY <2>3
      <3>2. g = [i \in 0 .. n + 1 |-> g[i]]
        OBVIOUS
      <3>3. h = [i \in 0 .. n + 1 |-> h[i]]
        OBVIOUS
      <3> HIDE DEF h, g
      <3>4. g = h
        BY <3>1, <3>2, <3>3
      <3> QED
        BY <3>4 DEF h
    <2> HIDE DEF Upto
    <2> QED
      BY <2>4
  <1>3. \E f : f = Body(f)
    <2> HIDE DEF Upto
    <2>1. N \in T
      <3> HIDE DEF T
      <3>1. 0 .. N \subseteq T
        BY <1>1, <1>2, IntervalInduction
      <3> QED
        BY <3>1
    <2>2. PICK f : Upto(N, f)
      BY <2>1
    <2> HIDE DEF Step
    <2> QED
      BY <2>2 DEF Upto
  <1>4. F = CHOOSE f : f = Body(f)
    BY Zenon DEF Enter
  <1> HIDE DEF Body
  <1>5. F = Body(F)
    BY <1>3, <1>4, Zenon
  <1> HIDE DEF Step
  <1>6. \A i \in 0 .. N : F[i] = Step(i, F[i - 1])
    BY <1>5, Zenon DEF Body
  <1> QED
    BY <1>6, Zenon DEF Step

\* The entries up to i that have to be in nodes, and the keys that have been met.
Low(vsize, key) == key[1] = "num" /\ key[2] >= 0 /\ key[2] < vsize
Hashed(e, i, vsize) == {x \in 1 .. i : e[x].val # Nil /\ ~Low(vsize, e[x].key)}
Met(e, i, key) == \E x \in 1 .. i : e[x].key = key /\ e[x].val # Nil
EnteredOK(tab, hid, e, i, t, vsize, tsize) ==
    /\ TabOK(t) /\ Shown(t, {}) /\ Len(t.vec) = vsize /\ Len(t.node) = tsize
    /\ Cardinality(Keyed(t.node)) <= Cardinality(Hashed(e, i, vsize))
    /\ \A j \in Keys \ hid : Get(t, j) = IF Met(e, i, j) THEN Get(tab, j) ELSE Nil

LEMMA KeyedIs ==
    ASSUME NEW t, TabOK(t)
    PROVE /\ IsFiniteSet(Keyed(t.node)) /\ Cardinality(Keyed(t.node)) \in Nat
          /\ Cardinality(Keyed(t.node)) < Len(t.node) => FreePos(t) # Null
  <1>1. DOMAIN t.node = 1 .. Len(t.node) /\ Len(t.node) \in Nat /\ IsFiniteSet(1 .. Len(t.node))
        /\ Cardinality(1 .. Len(t.node)) = Len(t.node)
    BY TabIs, FS_Interval
  <1>2. Keyed(t.node) \in SUBSET (1 .. Len(t.node))
    BY <1>1 DEF Keyed
  <1>3. IsFiniteSet(Keyed(t.node)) /\ Cardinality(Keyed(t.node)) \in Nat
    BY <1>1, <1>2, FS_Subset, FS_CardinalityType
  <1>4. ASSUME Cardinality(Keyed(t.node)) < Len(t.node) PROVE FreePos(t) # Null
    <2>1. Keyed(t.node) # 1 .. Len(t.node)
      BY <1>1, <1>3, <1>4
    <2>2. \E n \in DOMAIN t.node : t.node[n].key = NoKey
      BY <1>1, <1>2, <2>1 DEF Keyed
    <2> QED
      BY <2>2, FreePosIs
  <1> QED
    BY <1>3, <1>4

LEMMA HashedIs ==
    ASSUME NEW e, NEW N \in Nat, NEW i \in 0 .. N, NEW vsize
    PROVE /\ IsFiniteSet(Hashed(e, i, vsize)) /\ Cardinality(Hashed(e, i, vsize)) \in Nat
          /\ Cardinality(Hashed(e, N, vsize)) \in Nat
          /\ Cardinality(Hashed(e, i, vsize)) <= Cardinality(Hashed(e, N, vsize))
  <1>1. IsFiniteSet(1 .. N) /\ IsFiniteSet(1 .. i)
    BY FS_Interval
  <1>2. Hashed(e, i, vsize) \in SUBSET (1 .. i) /\ Hashed(e, N, vsize) \in SUBSET (1 .. N)
        /\ Hashed(e, i, vsize) \in SUBSET Hashed(e, N, vsize)
    BY DEF Hashed
  <1>3. IsFiniteSet(Hashed(e, i, vsize)) /\ IsFiniteSet(Hashed(e, N, vsize))
    BY <1>1, <1>2, FS_Subset
  <1> QED
    BY <1>2, <1>3, FS_Subset, FS_CardinalityType

LEMMA EnteredNothing ==
    ASSUME NEW tab, NEW hid, NEW e, NEW N \in Nat, NEW i \in 0 .. N - 1, NEW t, NEW vsize, NEW tsize,
           EnteredOK(tab, hid, e, i, t, vsize, tsize), e[i + 1].val = Nil
    PROVE EnteredOK(tab, hid, e, i + 1, t, vsize, tsize)
  <1>1. \A x \in 1 .. i + 1 : x \in 1 .. i \/ x = i + 1
    OBVIOUS
  <1>2. \A x \in 1 .. i : x \in 1 .. i + 1
    OBVIOUS
  <1>3. Hashed(e, i + 1, vsize) = Hashed(e, i, vsize)
    BY <1>1, <1>2 DEF Hashed
  <1>4. \A j : Met(e, i + 1, j) <=> Met(e, i, j)
    BY <1>1, <1>2 DEF Met
  <1> QED
    BY <1>3, <1>4 DEF EnteredOK

LEMMA EnteredOne ==
    ASSUME NEW tab, TabOK(tab), NEW hid, Shown(tab, hid), NEW e, EntriesOf(tab, e), NEW i \in 0 .. Len(e) - 1,
           NEW t, NEW vsize \in Nat, NEW tsize \in Nat,
           EnteredOK(tab, hid, e, i, t, vsize, tsize), e[i + 1].val # Nil, Cardinality(Hashed(e, Len(e), vsize)) < tsize
    PROVE EnteredOK(tab, hid, e, i + 1, Put(t, e[i + 1].key, e[i + 1].val), vsize, tsize)
  <1> DEFINE key == e[i + 1].key
             val == e[i + 1].val
             u == Put(t, key, val)
             H(n) == Cardinality(Hashed(e, n, vsize))
             K(x) == Cardinality(Keyed(x.node))
  <1>1. Len(e) \in Nat /\ DOMAIN e = 1 .. Len(e) /\ i + 1 \in DOMAIN e /\ i \in Nat
    <2>1. Len(e) \in Nat /\ DOMAIN e = 1 .. Len(e)
      BY EntriesLen
    <2> QED
      BY <2>1
  <1>2. key \in Keys /\ val \in Vals \cup {Nil} /\ (key \notin hid => Get(tab, key) = val)
    BY <1>1, EntryFound
  <1>3. /\ TabOK(t) /\ Shown(t, {}) /\ Len(t.vec) = vsize /\ Len(t.node) = tsize /\ K(t) <= H(i)
        /\ \A j \in Keys \ hid : Get(t, j) = IF Met(e, i, j) THEN Get(tab, j) ELSE Nil
    BY DEF EnteredOK
  <1>4. \A x \in 1 .. i + 1 : x \in 1 .. i \/ x = i + 1
    BY <1>1
  <1>5. i + 1 \in 1 .. i + 1 /\ i + 1 \notin 1 .. i /\ \A x \in 1 .. i : x \in 1 .. i + 1
    BY <1>1
  <1>6. InVector(t, key) <=> Low(vsize, key)
    BY <1>3 DEF InVector, Low
  <1>7. IsFiniteSet(Hashed(e, i, vsize)) /\ H(i) \in Nat /\ H(i + 1) \in Nat /\ H(i + 1) < tsize
    <2>1. i \in 0 .. Len(e) /\ i + 1 \in 0 .. Len(e)
      BY <1>1
    <2>2. H(i) \in Nat /\ H(i + 1) \in Nat /\ H(Len(e)) \in Nat /\ H(i + 1) <= H(Len(e)) /\ IsFiniteSet(Hashed(e, i, vsize))
      BY <1>1, <2>1, HashedIs
    <2> QED
      BY <2>2
  <1>8. H(i + 1) = IF Low(vsize, key) THEN H(i) ELSE H(i) + 1
    <2>1. CASE Low(vsize, key)
      <3>1. Hashed(e, i + 1, vsize) = Hashed(e, i, vsize)
        BY <1>4, <1>5, <2>1 DEF Hashed
      <3> QED
        BY <2>1, <3>1
    <2>2. CASE ~Low(vsize, key)
      <3>1. Hashed(e, i + 1, vsize) = Hashed(e, i, vsize) \cup {i + 1} /\ i + 1 \notin Hashed(e, i, vsize)
        BY <1>4, <1>5, <2>2 DEF Hashed
      <3> QED
        BY <1>7, <2>2, <3>1, FS_AddElement
    <2> QED
      BY <2>1, <2>2
  <1>9. IsFiniteSet(Keyed(t.node)) /\ K(t) \in Nat /\ (K(t) < tsize => FreePos(t) # Null)
    BY <1>3, KeyedIs
  <1> HIDE DEF key, val, u, H, K
  <1>10. Room(t, key)
    <2>1. CASE Low(vsize, key)
      BY <1>6, <2>1 DEF Room
    <2>2. CASE ~Low(vsize, key)
      BY <1>3, <1>7, <1>8, <1>9, <2>2 DEF Room
    <2> QED
      BY <2>1, <2>2
  <1>11. PutOK(t, u, key, val)
    BY <1>2, <1>3, <1>10, PutIs DEF u
  <1>12. K(u) <= H(i + 1)
    <2>1. CASE Low(vsize, key)
      <3>1. u.node = t.node
        BY <1>6, <1>11, <2>1 DEF PutOK
      <3> QED
        BY <1>3, <1>8, <2>1, <3>1 DEF K
    <2>2. CASE ~Low(vsize, key)
      <3>1. PICK x : Keyed(u.node) \subseteq Keyed(t.node) \cup {x}
        BY <1>11 DEF PutOK
      <3>2. IsFiniteSet(Keyed(t.node) \cup {x}) /\ Cardinality(Keyed(t.node) \cup {x}) \in Nat
            /\ Cardinality(Keyed(t.node) \cup {x}) <= K(t) + 1
        <4>1. /\ IsFiniteSet(Keyed(t.node) \cup {x})
              /\ Cardinality(Keyed(t.node) \cup {x}) = IF x \in Keyed(t.node) THEN K(t) ELSE K(t) + 1
          BY <1>9, FS_AddElement, Zenon DEF K
        <4>2. Cardinality(Keyed(t.node) \cup {x}) \in Nat
          BY <4>1, FS_CardinalityType, Zenon
        <4> QED
          BY <1>9, <4>1, <4>2
      <3>3. K(u) <= Cardinality(Keyed(t.node) \cup {x}) /\ K(u) \in Nat
        BY <3>1, <3>2, FS_Subset, FS_CardinalityType DEF K
      <3> QED
        BY <1>3, <1>7, <1>8, <1>9, <2>2, <3>2, <3>3
    <2> QED
      BY <2>1, <2>2
  <1>13. ASSUME NEW j \in Keys \ hid PROVE Get(u, j) = IF Met(e, i + 1, j) THEN Get(tab, j) ELSE Nil
    <2>1. Get(u, j) = IF j = key THEN val ELSE Get(t, j)
      BY <1>11 DEF PutOK, Finds
    <2>2. CASE j = key
      <3>1. Met(e, i + 1, j)
        BY <1>5, <2>2 DEF Met, key
      <3> QED
        BY <1>2, <2>1, <2>2, <3>1
    <2>3. CASE j # key
      <3>1. Met(e, i + 1, j) <=> Met(e, i, j)
        BY <1>4, <1>5, <2>3 DEF Met, key
      <3> QED
        BY <1>3, <2>1, <2>3, <3>1
    <2> QED
      BY <2>2, <2>3
  <1>14. TabOK(u) /\ Shown(u, {}) /\ Len(u.vec) = vsize /\ Len(u.node) = tsize
    BY <1>3, <1>11 DEF PutOK
  <1>15. EnteredOK(tab, hid, e, i + 1, u, vsize, tsize)
    BY <1>12, <1>13, <1>14, Zenon DEF EnteredOK, K, H
  <1> QED
    BY <1>15 DEF u, key, val

\* All entries find room in a table with more nodes than there are entries for them.
LEMMA EnteredAll ==
    ASSUME NEW tab, TabOK(tab), NEW hid, Shown(tab, hid), NEW e, EntriesOf(tab, e),
           NEW vsize \in Nat, NEW tsize \in Nat \ {0},
           Cardinality(Hashed(e, Len(e), vsize)) < tsize,
           NEW t, t = Enter(FreshTable(vsize, tsize), e)[Len(e)]
    PROVE /\ TabOK(t) /\ Shown(t, {}) /\ Len(t.node) = tsize
          /\ Cardinality(Keyed(t.node)) <= Cardinality(Hashed(e, Len(e), vsize))
          /\ \A j \in Keys \ hid : Get(t, j) = Get(tab, j)
  <1> DEFINE N == Len(e)
             new == FreshTable(vsize, tsize)
             F == Enter(new, e)
             OK(i) == EnteredOK(tab, hid, e, i, F[i], vsize, tsize)
             T == {i \in 0 .. N : OK(i)}
  <1>1. N \in Nat /\ DOMAIN e = 1 .. N
    BY EntriesLen
  <1>2. \A i \in 0 .. N : F[i] = IF i = 0 THEN new ELSE IF e[i].val = Nil THEN F[i - 1] ELSE Put(F[i - 1], e[i].key, e[i].val)
    <2> HIDE DEF new, F
    <2>1. F = Enter(new, e)
      BY DEF F
    <2> QED
      BY <1>1, <2>1, EnterIs
  <1>3. OK(0)
    <2>1. F[0] = new
      <3> HIDE DEF F, new
      <3> QED
        BY <1>1, <1>2
    <2>2. /\ TabOK(new) /\ Shown(new, {}) /\ Len(new.vec) = vsize /\ Len(new.node) = tsize /\ Keyed(new.node) = {}
          /\ \A j \in Keys : Get(new, j) = Nil
      <3>1. new = FreshTable(vsize, tsize)
        OBVIOUS
      <3> HIDE DEF new, F, OK, T, N
      <3>2. TabOK(new) /\ Len(new.vec) = vsize /\ Len(new.node) = tsize /\ Keyed(new.node) = {}
        BY <3>1, FreshIs
      <3>3. Shown(new, {})
        BY <3>1, FreshIs
      <3>4. \A j \in Keys : Get(new, j) = Nil
        BY <3>1, FreshIs
      <3> QED
        BY <3>2, <3>3, <3>4
    <2>3. Hashed(e, 0, vsize) = {} /\ \A j : ~Met(e, 0, j)
      BY DEF Hashed, Met
    <2>4. Cardinality({}) <= Cardinality({})
      BY FS_EmptySet
    <2> HIDE DEF F, new
    <2> QED
      BY <2>1, <2>2, <2>3, <2>4 DEF EnteredOK
  <1> HIDE DEF F, new
  <1>4. ASSUME NEW i \in 0 .. N - 1, OK(i) PROVE OK(i + 1)
    <2>1. i + 1 \in 0 .. N /\ i + 1 # 0 /\ (i + 1) - 1 = i
      BY <1>1
    <2>2. F[i + 1] = IF e[i + 1].val = Nil THEN F[i] ELSE Put(F[i], e[i + 1].key, e[i + 1].val)
      BY <1>2, <2>1
    <2>3. CASE e[i + 1].val = Nil
      BY <1>1, <1>4, <2>2, <2>3, EnteredNothing
    <2>4. CASE e[i + 1].val # Nil
      BY <1>1, <1>4, <2>2, <2>4, EnteredOne
    <2> QED
      BY <2>3, <2>4
  <1>5. OK(N)
    <2> HIDE DEF OK
    <2>1. 0 \in T
      BY <1>1, <1>3
    <2>2. \A i \in 0 .. N - 1 : i \in T => i + 1 \in T
      BY <1>1, <1>4
    <2>3. N \in 0 .. N
      BY <1>1
    <2> HIDE DEF T
    <2>4. 0 .. N \subseteq T
      BY <1>1, <2>1, <2>2, IntervalInduction
    <2> QED
      BY <2>3, <2>4 DEF T
  <1>6. t = F[N]
    BY DEF F, new
  <1>7. ASSUME NEW j \in Keys \ hid PROVE Get(t, j) = Get(tab, j)
    <2>1. Get(t, j) = IF Met(e, N, j) THEN Get(tab, j) ELSE Nil
      BY <1>5, <1>6 DEF EnteredOK
    <2>2. Get(tab, j) # Nil => Met(e, N, j)
      BY <1>1, EntryOf DEF Met
    <2> QED
      BY <2>1, <2>2
  <1> QED
    BY <1>5, <1>6, <1>7 DEF EnteredOK

\* As many entries have a value as CountTable says.
Filled(e) == {x \in DOMAIN e : e[x].val # Nil}

LEMMA BijectionIs ==
    ASSUME NEW A, NEW B, NEW f \in [A -> B], \A x, y \in A : f[x] = f[y] => x = y, \A y \in B : \E x \in A : f[x] = y
    PROVE f \in Bijection(A, B)
  BY DEF Bijection, Injection, Surjection, IsInjective

\* Places of the vector and nodes are counted together as entries.
Shifted(by, M) == {by + n : n \in M}
LEMMA CountIs ==
    ASSUME NEW tab, TabOK(tab), NEW V \in SUBSET DOMAIN tab.vec, NEW M \in SUBSET DOMAIN tab.node
    PROVE /\ Cardinality(V) + Cardinality(M) \in Nat /\ IsFiniteSet(V) /\ IsFiniteSet(M)
          /\ IsFiniteSet(V \cup Shifted(Len(tab.vec), M))
          /\ Cardinality(V \cup Shifted(Len(tab.vec), M)) = Cardinality(V) + Cardinality(M)
  <1> DEFINE lv == Len(tab.vec)
             B == Shifted(lv, M)
             f == [n \in M |-> lv + n]
  <1>1. V \in SUBSET (1 .. lv) /\ lv \in Nat /\ M \in SUBSET (1 .. Len(tab.node)) /\ Len(tab.node) \in Nat
    BY TabIs
  <1> HIDE DEF lv
  <1>2. IsFiniteSet(V) /\ IsFiniteSet(M)
    <2>1. IsFiniteSet(1 .. lv) /\ IsFiniteSet(1 .. Len(tab.node))
      BY <1>1, FS_Interval
    <2> QED
      BY <1>1, <2>1, FS_Subset
  <1>3. f \in Bijection(M, B)
    <2>1. f \in [M -> B] /\ (\A m, n \in M : f[m] = f[n] => m = n) /\ \A x \in B : \E n \in M : f[n] = x
      BY <1>1 DEF Shifted
    <2> HIDE DEF f, B
    <2> QED
      BY <2>1, BijectionIs
  <1>4. V \cap B = {}
    BY <1>1 DEF Shifted
  <1> HIDE DEF B, f
  <1>5. IsFiniteSet(B) /\ Cardinality(B) = Cardinality(M)
    BY <1>2, <1>3, FS_Bijection DEF ExistsBijection
  <1>6. Cardinality(V) \in Nat /\ Cardinality(M) \in Nat /\ Cardinality(V \cap B) = 0
    BY <1>2, <1>4, FS_CardinalityType, FS_EmptySet
  <1>7. IsFiniteSet(V \cup B) /\ Cardinality(V \cup B) = Cardinality(V) + Cardinality(B) - Cardinality(V \cap B)
    BY <1>2, <1>5, FS_Union
  <1>8. Cardinality(V \cup B) = Cardinality(V) + Cardinality(M) /\ Cardinality(V) + Cardinality(M) \in Nat
    BY <1>5, <1>6, <1>7
  <1> QED
    BY <1>2, <1>7, <1>8 DEF B, lv

\* The entries in a set are those of the places and of the nodes in it.
Places(tab, X) == {i \in DOMAIN tab.vec : i \in X}
Nodes(tab, X) == {n \in DOMAIN tab.node : Len(tab.vec) + n \in X}
LEMMA EntriesWith ==
    ASSUME NEW tab, TabOK(tab), NEW e, EntriesOf(tab, e), NEW X \in SUBSET DOMAIN e
    PROVE /\ IsFiniteSet(X) /\ Cardinality(X) = Cardinality(Places(tab, X)) + Cardinality(Nodes(tab, X))
          /\ Cardinality(X) \in Nat /\ IsFiniteSet(Places(tab, X)) /\ IsFiniteSet(Nodes(tab, X))
  <1> DEFINE lv == Len(tab.vec)
             V == Places(tab, X)
             M == Nodes(tab, X)
             B == Shifted(lv, M)
  <1>1. DOMAIN tab.vec = 1 .. lv /\ DOMAIN tab.node = 1 .. Len(tab.node)
    BY TabIs
  <1>2. \A x \in DOMAIN e : x \in 1 .. lv \/ \E n \in 1 .. Len(tab.node) : x = lv + n
    BY EntriesAt
  <1>3. X = V \cup B
    BY <1>1, <1>2 DEF Places, Nodes, Shifted
  <1>4. V \in SUBSET DOMAIN tab.vec /\ M \in SUBSET DOMAIN tab.node
    BY DEF Places, Nodes
  <1> HIDE DEF V, M
  <1>5. /\ IsFiniteSet(V \cup B) /\ Cardinality(V \cup B) = Cardinality(V) + Cardinality(M)
        /\ Cardinality(V) + Cardinality(M) \in Nat /\ IsFiniteSet(V) /\ IsFiniteSet(M)
    <2>1. B = Shifted(Len(tab.vec), M)
      OBVIOUS
    <2> HIDE DEF B
    <2>2. /\ IsFiniteSet(V) /\ IsFiniteSet(M) /\ IsFiniteSet(V \cup Shifted(Len(tab.vec), M))
      BY <1>4, CountIs
    <2>3. Cardinality(V) \in Nat /\ Cardinality(M) \in Nat
      BY <2>2, FS_CardinalityType
    <2>4. Cardinality(V \cup Shifted(Len(tab.vec), M)) = Cardinality(V) + Cardinality(M)
      BY <1>4, <2>3, CountIs
    <2> QED
      BY <2>1, <2>2, <2>3, <2>4
  <1> HIDE DEF B
  <1> QED
    BY <1>3, <1>5 DEF V, M

LEMMA UsedIs ==
    ASSUME NEW tab, TabOK(tab), NEW e, EntriesOf(tab, e)
    PROVE IsFiniteSet(Filled(e)) /\ Cardinality(Filled(e)) = Used(tab) /\ Used(tab) \in Nat
  <1> DEFINE V == {i \in DOMAIN tab.vec : tab.vec[i] # Nil}
             M == {n \in DOMAIN tab.node : tab.node[n].val # Nil}
  <1>1. DOMAIN tab.vec = 1 .. Len(tab.vec) /\ DOMAIN tab.node = 1 .. Len(tab.node)
    BY TabIs
  <1>2. V = Places(tab, Filled(e)) /\ M = Nodes(tab, Filled(e))
    BY <1>1, EntriesAt DEF Filled, Places, Nodes
  <1>3. Filled(e) \in SUBSET DOMAIN e
    BY DEF Filled
  <1>4. Used(tab) = Cardinality(V) + Cardinality(M)
    BY Zenon DEF Used
  <1> HIDE DEF V, M
  <1> QED
    BY <1>2, <1>3, <1>4, EntriesWith

\* Below counts the entries that go to a vector of that size.
LEMMA BelowIs ==
    ASSUME NEW tab, TabOK(tab), NEW e, EntriesOf(tab, e), NEW vsize \in Nat
    PROVE /\ Cardinality({x \in Filled(e) : Low(vsize, e[x].key)}) = Below(tab, vsize) /\ Below(tab, vsize) \in Nat
          /\ IsFiniteSet({x \in Filled(e) : Low(vsize, e[x].key)})
  <1> DEFINE V == {i \in DOMAIN tab.vec : tab.vec[i] # Nil /\ i - 1 < vsize}
             M == {n \in DOMAIN tab.node : /\ tab.node[n].val # Nil
                                            /\ tab.node[n].key \in {"num"} \X (0 .. vsize - 1)}
             X == {x \in Filled(e) : Low(vsize, e[x].key)}
  <1>1. DOMAIN tab.vec = 1 .. Len(tab.vec) /\ Len(tab.vec) \in Nat /\ DOMAIN tab.node = 1 .. Len(tab.node)
    BY TabIs
  <1>2. ASSUME NEW i \in 1 .. Len(tab.vec) PROVE i \in V <=> i \in X
    <2>1. i \in DOMAIN e /\ e[i].key = <<"num", i - 1>> /\ e[i].val = tab.vec[i] /\ i - 1 >= 0
      BY <1>1, EntriesAt
    <2>2. Low(vsize, <<"num", i - 1>>) <=> i - 1 < vsize
      BY <2>1 DEF Low
    <2> QED
      BY <1>1, <2>1, <2>2 DEF Filled
  <1>3. ASSUME NEW n \in 1 .. Len(tab.node) PROVE n \in M <=> Len(tab.vec) + n \in X
    <2> DEFINE k == tab.node[n].key
    <2>1. Len(tab.vec) + n \in DOMAIN e /\ e[Len(tab.vec) + n].key = k /\ e[Len(tab.vec) + n].val = tab.node[n].val
      BY EntriesAt
    <2>2. k \in Keys \/ k = NoKey
      BY <1>1, TabIs
    <2> HIDE DEF k
    <2>3. k \in {"num"} \X (0 .. vsize - 1) <=> Low(vsize, k)
      <3>1. CASE k \in Keys
        <4>1. k = <<k[1], k[2]>> /\ k[2] \in Int
          BY <3>1, KeyIs
        <4> QED
          BY <4>1 DEF Low
      <3>2. CASE k = NoKey
        BY <3>2 DEF Low, NoKey
      <3> QED
        BY <2>2, <3>1, <3>2
    <2>4. n \in M <=> tab.node[n].val # Nil /\ k \in {"num"} \X (0 .. vsize - 1)
      BY <1>1 DEF k
    <2> QED
      BY <2>1, <2>3, <2>4 DEF Filled
  <1>4. X \in SUBSET DOMAIN e
    BY DEF Filled
  <1>8. V \in SUBSET DOMAIN tab.vec /\ M \in SUBSET DOMAIN tab.node
    OBVIOUS
  <1>5. Below(tab, vsize) = Cardinality(V) + Cardinality(M)
    BY Zenon DEF Below
  <1> HIDE DEF V, M, X
  <1>6. V = Places(tab, X) /\ M = Nodes(tab, X)
    BY <1>1, <1>2, <1>3, <1>8 DEF Places, Nodes
  <1>7. IsFiniteSet(X) /\ Cardinality(X) = Below(tab, vsize) /\ Cardinality(X) \in Nat
    BY <1>4, <1>5, <1>6, EntriesWith
  <1> QED
    BY <1>7 DEF X

LEMMA HashedCount ==
    ASSUME NEW tab, TabOK(tab), NEW e, EntriesOf(tab, e), NEW vsize \in Nat
    PROVE /\ Cardinality(Hashed(e, Len(e), vsize)) \in Nat
          /\ Cardinality(Hashed(e, Len(e), vsize)) = Used(tab) - Below(tab, vsize)
  <1> DEFINE H == Hashed(e, Len(e), vsize)
             L == {x \in Filled(e) : Low(vsize, e[x].key)}
  <1>1. Len(e) \in Nat /\ DOMAIN e = 1 .. Len(e)
    BY EntriesLen
  <1>2. IsFiniteSet(Filled(e)) /\ Cardinality(Filled(e)) = Used(tab) /\ Used(tab) \in Nat
    BY UsedIs
  <1>3. Filled(e) = H \cup L /\ H \cap L = {} /\ H \in SUBSET Filled(e)
    BY <1>1 DEF Hashed, Filled
  <1>4. IsFiniteSet(L) /\ Cardinality(L) = Below(tab, vsize) /\ Below(tab, vsize) \in Nat
    BY BelowIs
  <1> HIDE DEF H, L
  <1>5. IsFiniteSet(H)
    BY <1>2, <1>3, FS_Subset
  <1>6. Cardinality(H) \in Nat /\ Cardinality(H \cap L) = 0
    BY <1>3, <1>5, FS_CardinalityType, FS_EmptySet
  <1>7. Cardinality(H \cup L) = Cardinality(H) + Cardinality(L) - Cardinality(H \cap L)
    BY <1>4, <1>5, FS_Union
  <1>8. Cardinality(H) = Used(tab) - Below(tab, vsize)
    BY <1>2, <1>3, <1>4, <1>6, <1>7
  <1> QED
    BY <1>6, <1>8 DEF H

\* compute_size: one entry is half of two, so there is always a size.
LEMMA SizeIs == ASSUME NEW tab, TabOK(tab) PROVE VectorSize(tab) \in Nat
  <1> DEFINE P == {p \in {1, 2, 4, 8, 16} : Below(tab, p) >= p \div 2}
  <1>1. 1 \in P
    <2>1. EntriesOf(tab, Entries(tab))
      BY EntriesAre
    <2>2. Below(tab, 1) \in Nat
      BY <2>1, BelowIs
    <2>3. 1 \div 2 = 0
      OBVIOUS
    <2> QED
      BY <2>2, <2>3
  <1>2. P \in SUBSET (0 .. 16)
    OBVIOUS
  <1>3. VectorSize(tab) = Max(P)
    BY Zenon DEF VectorSize
  <1> HIDE DEF P
  <1>4. 16 \in Nat /\ P # {}
    BY <1>1
  <1>5. Max(P) \in P
    BY <1>2, <1>4, MostOf
  <1>6. 0 .. 16 \subseteq Nat
    OBVIOUS
  <1>7. VectorSize(tab) \in 0 .. 16
    BY <1>2, <1>3, <1>5, Zenon
  <1> QED
    BY <1>6, <1>7, Zenon

LEMMA ResizedIs ==
    ASSUME NEW tab, TabOK(tab), NEW hid, Shown(tab, hid)
    PROVE /\ TabOK(Resized(tab)) /\ Shown(Resized(tab), {}) /\ FreePos(Resized(tab)) # Null
          /\ \A j \in Keys \ hid : Get(Resized(tab), j) = Get(tab, j)
  <1> DEFINE e == Entries(tab)
             vsize == VectorSize(tab)
             room == Used(tab) - Below(tab, vsize)
             tsize == 2 * (Used(tab) - Below(tab, vsize) + 1)
             t == Enter(FreshTable(vsize, tsize), e)[Len(e)]
  <1>1. EntriesOf(tab, e)
    BY EntriesAre
  <1>2. Resized(tab) = t
    BY Zenon DEF Resized
  <1> HIDE DEF e
  <1>3. vsize \in Nat
    BY SizeIs
  <1>4. tsize = 2 * (room + 1)
    OBVIOUS
  <1> HIDE DEF vsize, tsize
  <1>5. Cardinality(Hashed(e, Len(e), vsize)) \in Nat /\ Cardinality(Hashed(e, Len(e), vsize)) = room
    BY <1>1, <1>3, HashedCount
  <1> HIDE DEF room
  <1>6. tsize \in Nat \ {0} /\ Cardinality(Hashed(e, Len(e), vsize)) < tsize
    BY <1>4, <1>5
  <1> HIDE DEF t
  <1>7. /\ TabOK(t) /\ Shown(t, {}) /\ Len(t.node) = tsize
        /\ Cardinality(Keyed(t.node)) <= Cardinality(Hashed(e, Len(e), vsize))
        /\ \A j \in Keys \ hid : Get(t, j) = Get(tab, j)
    BY <1>1, <1>3, <1>6, EnteredAll DEF t
  <1>8. FreePos(t) # Null
    <2>1. Cardinality(Keyed(t.node)) \in Nat /\ (Cardinality(Keyed(t.node)) < Len(t.node) => FreePos(t) # Null)
      BY <1>7, KeyedIs
    <2> QED
      BY <1>5, <1>6, <1>7, <2>1
  <1> QED
    BY <1>2, <1>7, <1>8

LEMMA StoreIs ==
    ASSUME NEW tab, TabOK(tab), NEW hid, Shown(tab, hid), NEW key \in Keys, NEW val \in Vals \cup {Nil}
    PROVE /\ TabOK(Store(tab, key, val)) /\ Shown(Store(tab, key, val), hid)
          /\ FindsBut(tab, Store(tab, key, val), key, val, hid)
  <1>1. CASE Room(tab, key)
    <2>1. Store(tab, key, val) = Put(tab, key, val)
      BY <1>1 DEF Room, Store
    <2>2. PutOK(tab, Put(tab, key, val), key, val)
      BY <1>1, PutIs
    <2> QED
      BY <2>1, <2>2 DEF PutOK, Finds, FindsBut
  <1>2. CASE ~Room(tab, key)
    <2> DEFINE t == Resized(tab)
    <2>1. Store(tab, key, val) = Put(t, key, val)
      BY <1>2 DEF Room, Store
    <2>2. TabOK(t) /\ Shown(t, {}) /\ Room(t, key) /\ \A j \in Keys \ hid : Get(t, j) = Get(tab, j)
      BY ResizedIs DEF Room
    <2> HIDE DEF t
    <2>3. PutOK(t, Put(t, key, val), key, val) /\ Shown(t, hid)
      BY <2>2, PutIs DEF Shown
    <2> QED
      BY <2>1, <2>2, <2>3 DEF PutOK, Finds, FindsBut
  <1> QED
    BY <1>1, <1>2

LEMMA LeastOf == ASSUME NEW T \in SUBSET Nat, T # {} PROVE Min(T) \in T /\ \A y \in T : Min(T) <= y
  <1>1. \E x \in T : \A y \in T : x <= y
    BY NatLeast
  <1>2. Min(T) \in T /\ \A y \in T : Min(T) <= y
    BY <1>1 DEF Min
  <1> QED
    BY <1>2

\* rbtH_setnextnum: numbers in nodes that the vector grows over are hidden.
LEMMA StoreNextIs ==
    ASSUME NEW tab, TabOK(tab), NEW hid, Shown(tab, hid), NextNum(tab) < MaxNum, NEW val \in Vals
    PROVE /\ <<"num", NextNum(tab)>> \in Keys /\ TabOK(StoreNext(tab, val))
          /\ Shown(StoreNext(tab, val), hid \cup Covered(tab))
          /\ FindsBut(tab, StoreNext(tab, val), <<"num", NextNum(tab)>>, val, hid \cup Covered(tab))
  <1> DEFINE i == NextNum(tab)
             L == Len(tab.vec)
             free == {j \in DOMAIN tab.vec : tab.vec[j] = Nil}
             S == Vals \cup {Nil}
  <1>1. /\ DOMAIN tab.vec = 1 .. L /\ L \in Nat /\ tab.vec \in Seq(S) /\ Linked(tab.node)
        /\ tab = [vec |-> tab.vec, node |-> tab.node, last |-> tab.last]
    BY TabIs DEF TabOK
  <1>2. i \in 0 .. L
    <2>1. CASE free = {}
      BY <1>1, <2>1 DEF NextNum
    <2>2. CASE free # {}
      <3>1. free \in SUBSET Nat /\ free \subseteq 1 .. L
        BY <1>1
      <3>2. i = Min(free) - 1
        BY <2>2, Zenon DEF NextNum
      <3> HIDE DEF free, i
      <3>3. Min(free) \in free
        BY <2>2, <3>1, LeastOf
      <3> QED
        BY <1>1, <3>1, <3>2, <3>3
    <2> QED
      BY <2>1, <2>2
  <1>3. <<"num", i>> \in Keys
    BY <1>1, <1>2, TableAssumption DEF Keys, NumKeys, TableAssumption
  <1>4. CASE i = L
    <2> DEFINE big == tab.vec \o <<Nil, Nil>>
               vec == [big EXCEPT ![i + 1] = val]
               t == [vec |-> vec, node |-> tab.node, last |-> tab.last]
    <2>1. StoreNext(tab, val) = t
      <3>1. [tab EXCEPT !.vec = @ \o <<Nil, Nil>>] = [vec |-> big, node |-> tab.node, last |-> tab.last]
        <4>1. [tab EXCEPT !.vec = @ \o <<Nil, Nil>>] = [tab EXCEPT !.vec = big]
          BY Zenon
        <4> HIDE DEF big
        <4>2. [tab EXCEPT !.vec = big] = [vec |-> big, node |-> tab.node, last |-> tab.last]
          BY <1>1
        <4> QED
          BY <4>1, <4>2, Zenon
      <3> HIDE DEF big
      <3>2. [[vec |-> big, node |-> tab.node, last |-> tab.last] EXCEPT !.vec[i + 1] = val] = t
        OBVIOUS
      <3> QED
        BY <1>4, <3>1, <3>2, Zenon DEF StoreNext
    <2>2. big \in Seq(S) /\ Len(big) = L + 2 /\ \A j \in 1 .. L + 2 : big[j] = IF j <= L THEN tab.vec[j] ELSE Nil
      BY <1>1
    <2> HIDE DEF big
    <2>3. /\ vec \in Seq(S) /\ Len(vec) = L + 2
          /\ \A j \in 1 .. L + 2 : vec[j] = IF j = i + 1 THEN val ELSE IF j <= L THEN tab.vec[j] ELSE Nil
      BY <1>1, <1>4, <2>2, ExceptSeq
    <2>4. t.vec = vec /\ t.node = tab.node /\ t.last = tab.last /\ t = [vec |-> t.vec, node |-> t.node, last |-> t.last]
      OBVIOUS
    <2> HIDE DEF vec, t
    <2>5. \A n \in DOMAIN tab.node : tab.node[n].key \in {<<"num", L>>, <<"num", L + 1>>}
                                           => tab.node[n].key \in Covered(tab)
      BY <1>1, <1>4 DEF Covered
    <2>6. Shown(t, hid \cup Covered(tab))
      <3> SUFFICES ASSUME NEW n \in DOMAIN tab.node, InVector(t, tab.node[n].key), tab.node[n].key \notin hid
                   PROVE tab.node[n].key \in Covered(tab)
        BY <2>4 DEF Shown
      <3>1. tab.node[n].key \in Keys
        BY TabIs DEF InVector, NoKey
      <3>2. PICK x \in Int : tab.node[n].key = <<"num", x>> /\ x >= 0 /\ x < L + 2
        BY <2>3, <2>4, <3>1, KeyIs DEF InVector
      <3>3. ~(x < L)
        BY <3>2 DEF Shown, InVector
      <3>4. x = L \/ x = L + 1
        BY <1>1, <3>2, <3>3
      <3> QED
        BY <2>5, <3>2, <3>4
    <2>7. TabOK(t)
      <3>1. \A j \in DOMAIN vec : vec[j] # Nil => <<"num", j - 1>> \in Keys
        <4> SUFFICES ASSUME NEW j \in 1 .. L + 2, vec[j] # Nil PROVE <<"num", j - 1>> \in Keys
          BY <2>3
        <4>1. CASE j = i + 1
          <5>1. j - 1 = i
            BY <1>2, <4>1
          <5> QED
            BY <1>3, <5>1
        <4>2. CASE j # i + 1
          <5>1. j \in DOMAIN tab.vec /\ tab.vec[j] # Nil
            BY <1>1, <2>3, <4>2
          <5> QED
            BY <5>1 DEF TabOK
        <4> QED
          BY <4>1, <4>2
      <3>2. t.last \in 0 .. Len(t.node) /\ \A n \in DOMAIN t.node : t.node[n].key = NoKey => n <= t.last
        BY <2>4 DEF TabOK
      <3> QED
        BY <1>1, <2>3, <2>4, <3>1, <3>2 DEF TabOK
    <2>8. ASSUME NEW j \in Keys, j = <<"num", i>> \/ j \notin Covered(tab)
          PROVE Get(t, j) = IF j = <<"num", i>> THEN val ELSE Get(tab, j)
      <3>0. j = <<j[1], j[2]>> /\ j[2] \in Int
        BY KeyIs
      <3>1. /\ Get(tab, j) = IF InVector(tab, j) THEN tab.vec[j[2] + 1] ELSE ValOf(tab.node, j)
            /\ Get(t, j) = IF InVector(t, j) THEN vec[j[2] + 1] ELSE ValOf(tab.node, j)
        BY <1>1, <2>4, GetIs
      <3>2. CASE InVector(tab, j)
        <4>1. j[2] \in 0 .. L - 1 /\ j # <<"num", i>> /\ InVector(t, j)
          BY <1>1, <1>4, <2>3, <2>4, <3>0, <3>2 DEF InVector
        <4>2. vec[j[2] + 1] = tab.vec[j[2] + 1]
          BY <1>1, <1>4, <2>3, <4>1
        <4> QED
          BY <3>1, <3>2, <4>1, <4>2
      <3>3. CASE ~InVector(tab, j) /\ ~InVector(t, j)
        <4>1. j # <<"num", i>>
          BY <1>1, <1>4, <2>3, <2>4, <3>3 DEF InVector
        <4> QED
          BY <3>1, <3>3, <4>1
      <3>4. CASE ~InVector(tab, j) /\ InVector(t, j)
        <4>1. j[1] = "num" /\ j[2] \in {L, L + 1}
          BY <1>1, <2>3, <2>4, <3>0, <3>4 DEF InVector
        <4>2. j \in {<<"num", L>>, <<"num", L + 1>>}
          BY <3>0, <4>1
        <4>3. j # <<"num", i>> => ValOf(tab.node, j) = Nil
          BY <2>5, <2>8, <4>2, ValNone
        <4>4. vec[j[2] + 1] = IF j = <<"num", i>> THEN val ELSE Nil
          BY <1>1, <1>4, <2>3, <3>0, <4>1
        <4> QED
          BY <3>1, <3>4, <4>3, <4>4
      <3> QED
        BY <3>2, <3>3, <3>4
    <2> QED
      BY <1>3, <2>1, <2>6, <2>7, <2>8 DEF FindsBut
  <1>5. CASE i # L
    <2>1. <<"num", i>>[2] + 1 = i + 1 /\ InVector(tab, <<"num", i>>)
      BY <1>1, <1>2, <1>5 DEF InVector
    <2>2. StoreNext(tab, val) = [tab EXCEPT !.vec[<<"num", i>>[2] + 1] = val]
      <3>1. StoreNext(tab, val) = [tab EXCEPT !.vec[i + 1] = val]
        BY <1>5, Zenon DEF StoreNext
      <3> QED
        BY <2>1, <3>1, Zenon
    <2> HIDE DEF i
    <2>3. PutOK(tab, [tab EXCEPT !.vec[<<"num", i>>[2] + 1] = val], <<"num", i>>, val)
      BY <1>3, <2>1, PutInVector
    <2>4. TabOK(StoreNext(tab, val)) /\ Shown(StoreNext(tab, val), hid)
          /\ Finds(tab, StoreNext(tab, val), <<"num", NextNum(tab)>>, val)
      BY <2>2, <2>3 DEF PutOK, i
    <2> QED
      BY <1>3, <2>4 DEF Shown, Finds, FindsBut, i
  <1> QED
    BY <1>4, <1>5
-----------------------------------------------------------------------------
(* The positions of a visit. *)

LEMMA PositionIs ==
    ASSUME NEW tab, TabOK(tab), NEW e, e = Entries(tab)
    PROVE /\ EntriesOf(tab, e)
          /\ \A p \in Positions(tab) : /\ p + 1 \in DOMAIN e /\ p \in Int /\ p >= 0
                                       /\ KeyAt(tab, p) = e[p + 1].key /\ ValueAt(tab, p) = e[p + 1].val
          /\ \A x \in DOMAIN e : x - 1 \in Positions(tab) /\ (x - 1) + 1 = x
          /\ \A p, q \in Positions(tab) : p + 1 = q + 1 => p = q
  <1> DEFINE lv == Len(tab.vec)
             ln == Len(tab.node)
  <1>1. EntriesOf(tab, e)
    BY EntriesAre
  <1>2. lv \in Nat /\ ln \in Nat /\ DOMAIN e = 1 .. lv + ln /\ Positions(tab) = 0 .. (lv + ln - 1)
    BY <1>1, TabIs DEF EntriesOf, Positions
  <1>3. \A p \in Int : /\ KeyAt(tab, p) = IF p < lv THEN <<"num", p>> ELSE tab.node[p - lv + 1].key
                       /\ ValueAt(tab, p) = IF p < lv THEN tab.vec[p + 1] ELSE tab.node[p - lv + 1].val
    BY Zenon DEF KeyAt, ValueAt
  <1>4. /\ \A i \in 1 .. lv : e[i].key = <<"num", i - 1>> /\ e[i].val = tab.vec[i]
        /\ \A n \in 1 .. ln : e[lv + n].key = tab.node[n].key /\ e[lv + n].val = tab.node[n].val
    BY <1>1, Zenon DEF EntriesOf
  <1> HIDE DEF lv, ln
  <1>5. ASSUME NEW p \in 0 .. (lv + ln - 1)
        PROVE /\ p + 1 \in DOMAIN e /\ p \in Int /\ p >= 0
              /\ KeyAt(tab, p) = e[p + 1].key /\ ValueAt(tab, p) = e[p + 1].val
    <2>1. p + 1 \in DOMAIN e /\ p \in Int /\ p >= 0 /\ (p + 1) - 1 = p
      BY <1>2
    <2>2. CASE p < lv
      <3>1. p + 1 \in 1 .. lv
        BY <1>2, <2>2
      <3>2. e[p + 1].key = <<"num", (p + 1) - 1>> /\ e[p + 1].val = tab.vec[p + 1]
        BY <1>4, <3>1
      <3> QED
        BY <1>3, <2>1, <2>2, <3>2
    <2>3. CASE ~(p < lv)
      <3>1. p - lv + 1 \in 1 .. ln /\ lv + (p - lv + 1) = p + 1
        BY <1>2, <2>3
      <3>2. e[lv + (p - lv + 1)].key = tab.node[p - lv + 1].key /\ e[lv + (p - lv + 1)].val = tab.node[p - lv + 1].val
        BY <1>4, <3>1
      <3> QED
        BY <1>3, <2>1, <2>3, <3>1, <3>2
    <2> QED
      BY <2>1, <2>2, <2>3
  <1>6. \A x \in 1 .. lv + ln : x - 1 \in 0 .. (lv + ln - 1) /\ (x - 1) + 1 = x
    BY <1>2
  <1>7. \A p, q \in 0 .. (lv + ln - 1) : p + 1 = q + 1 => p = q
    BY <1>2
  <1> QED
    BY <1>1, <1>2, <1>5, <1>6, <1>7

LEMMA PositionOnce ==
    ASSUME NEW tab, TabOK(tab), NEW hid, Shown(tab, hid), NEW p \in Positions(tab), NEW q \in Positions(tab),
           KeyAt(tab, p) = KeyAt(tab, q), KeyAt(tab, p) \notin {NoKey} \cup hid
    PROVE p = q
  <1> DEFINE e == Entries(tab)
  <1>1. EntriesOf(tab, e) /\ p + 1 \in DOMAIN e /\ q + 1 \in DOMAIN e /\ (p + 1 = q + 1 => p = q)
        /\ KeyAt(tab, p) = e[p + 1].key /\ KeyAt(tab, q) = e[q + 1].key
    BY PositionIs
  <1> HIDE DEF e
  <1>2. e[p + 1].key = e[q + 1].key /\ e[p + 1].key \notin {NoKey} \cup hid
    BY <1>1
  <1>3. p + 1 = q + 1
    BY <1>1, <1>2, EntriesOnce
  <1> QED
    BY <1>1, <1>3

LEMMA PositionFound ==
    ASSUME NEW tab, TabOK(tab), NEW p \in Positions(tab), ValueAt(tab, p) # Nil
    PROVE /\ KeyAt(tab, p) \in Keys /\ KeyAt(tab, p) # NoKey /\ ValueAt(tab, p) \in Vals \cup {Nil}
          /\ \A hid : Shown(tab, hid) /\ KeyAt(tab, p) \notin hid => Get(tab, KeyAt(tab, p)) = ValueAt(tab, p)
  <1> DEFINE e == Entries(tab)
  <1>1. EntriesOf(tab, e) /\ p + 1 \in DOMAIN e /\ KeyAt(tab, p) = e[p + 1].key /\ ValueAt(tab, p) = e[p + 1].val
    BY PositionIs
  <1> HIDE DEF e
  <1> QED
    BY <1>1, EntryFound

LEMMA PositionOf ==
    ASSUME NEW tab, TabOK(tab), NEW key \in Keys, Get(tab, key) # Nil
    PROVE \E p \in Positions(tab) : p > -1 /\ KeyAt(tab, p) = key
  <1> DEFINE e == Entries(tab)
  <1>1. EntriesOf(tab, e)
    BY PositionIs
  <1>2. PICK x \in DOMAIN e : e[x].key = key
    BY <1>1, EntryOf
  <1>3. x - 1 \in Positions(tab) /\ (x - 1) + 1 = x
    BY <1>2, PositionIs
  <1>4. x - 1 >= 0 /\ KeyAt(tab, x - 1) = e[(x - 1) + 1].key /\ x - 1 \in Int
    BY <1>3, PositionIs
  <1> HIDE DEF e
  <1>5. x - 1 > -1
    BY <1>4
  <1> QED
    BY <1>2, <1>3, <1>4, <1>5

LEMMA FollowingIs ==
    ASSUME NEW tab, TabOK(tab), NEW i \in Int, i >= -1
    PROVE \/ Following(tab, i) = End /\ \A p \in Positions(tab) : p > i => ValueAt(tab, p) = Nil
          \/ /\ Following(tab, i) # End /\ Following(tab, i) \in Positions(tab)
             /\ Following(tab, i) > i /\ ValueAt(tab, Following(tab, i)) # Nil
             /\ \A p \in Positions(tab) : p > i /\ ValueAt(tab, p) # Nil => Following(tab, i) <= p
  <1> DEFINE top == Len(tab.vec) + Len(tab.node) - 1
             more == {j \in (i + 1) .. top : ValueAt(tab, j) # Nil}
  <1>1. top \in Int /\ Positions(tab) = 0 .. top
    <2>1. Len(tab.vec) \in Nat /\ Len(tab.node) \in Nat
      BY TabIs
    <2>2. \A x, y \in Nat : x + y - 1 \in Int
      OBVIOUS
    <2> QED
      BY <2>1, <2>2, Zenon DEF Positions
  <1>2. Following(tab, i) = IF more = {} THEN End ELSE Min(more)
    BY Zenon DEF Following
  <1> HIDE DEF top
  <1>3. /\ more \in SUBSET Nat /\ more \subseteq Positions(tab) /\ \A j \in more : ValueAt(tab, j) # Nil /\ j > i
        /\ \A p \in Positions(tab) : p > i /\ ValueAt(tab, p) # Nil => p \in more
    BY <1>1
  <1> HIDE DEF more
  <1>4. CASE more = {}
    BY <1>2, <1>3, <1>4
  <1>5. CASE more # {}
    <2>1. Min(more) \in more /\ \A y \in more : Min(more) <= y
      BY <1>3, <1>5, LeastOf
    <2>2. Min(more) # End
      BY <1>3, <2>1 DEF End
    <2> QED
      BY <1>2, <1>3, <1>5, <2>1, <2>2
  <1> QED
    BY <1>4, <1>5

\* A key that the table has is at the same position after a store.
LEMMA PutKeepsKeys ==
    ASSUME NEW tab, TabOK(tab), NEW key \in Keys, NEW val \in Vals \cup {Nil}, ~IsNew(tab, key)
    PROVE /\ Positions(Store(tab, key, val)) = Positions(tab) /\ Len(Store(tab, key, val).vec) = Len(tab.vec)
          /\ \A p \in Positions(tab) : KeyAt(Store(tab, key, val), p) = KeyAt(tab, p)
  <1> DEFINE t == Store(tab, key, val)
             m == NodeOf(tab, key)
  <1>1. InVector(tab, key) \/ m # Null
    BY DEF IsNew
  <1>2. t = Put(tab, key, val)
    BY <1>1 DEF Store
  <1> HIDE DEF t
  <1>3. PutOK(tab, t, key, val)
    BY <1>1, <1>2, PutIs DEF Room
  <1>4. Len(t.vec) = Len(tab.vec) /\ Len(t.node) = Len(tab.node)
    BY <1>3 DEF PutOK
  <1>5. \A n \in DOMAIN tab.node : t.node[n].key = tab.node[n].key
    <2>1. CASE InVector(tab, key)
      BY <1>3, <2>1 DEF PutOK
    <2>2. CASE ~InVector(tab, key)
      <3> DEFINE b == [tab.node EXCEPT ![m].val = val]
      <3>1. t = [tab EXCEPT !.node[m].val = val]
        BY <1>1, <1>2, <2>2 DEF Put
      <3>2. t.node = b
        <4>1. tab = [vec |-> tab.vec, node |-> tab.node, last |-> tab.last]
          BY DEF TabOK
        <4> HIDE DEF m
        <4>2. [tab EXCEPT !.node = b].node = b
          BY <4>1
        <4> QED
          BY <3>1, <4>2
      <3>3. Linked(tab.node) /\ m \in DOMAIN tab.node /\ tab.node[m].key # NoKey
        BY <1>1, <2>2, NodeOfIs, NoKeyIsNone, TabIs
      <3> HIDE DEF m
      <3>4. \A n \in DOMAIN tab.node : b[n].key = tab.node[n].key
        BY <3>3, LinkedValued
      <3> QED
        BY <3>2, <3>4
    <2> QED
      BY <2>1, <2>2
  <1>6. Positions(t) = Positions(tab)
    BY <1>4 DEF Positions
  <1>7. \A p \in Positions(tab) : KeyAt(t, p) = KeyAt(tab, p)
    <2> SUFFICES ASSUME NEW p \in Positions(tab) PROVE KeyAt(t, p) = KeyAt(tab, p)
      OBVIOUS
    <2>1. p < Len(tab.vec) \/ p - Len(tab.vec) + 1 \in DOMAIN tab.node
      <3>1. \A x, y \in Nat : \A q \in 0 .. (x + y - 1) : q < x \/ q - x + 1 \in 1 .. y
        OBVIOUS
      <3> QED
        BY <3>1, TabIs DEF Positions
    <2> QED
      BY <1>4, <1>5, <2>1 DEF KeyAt
  <1> QED
    BY <1>4, <1>6, <1>7 DEF t
-----------------------------------------------------------------------------
(* The table as a map. *)

LEMMA TableBegins == ASSUME TableInit PROVE TInv /\ VInv
  <1>1. TabOK(table) /\ Shown(table, hidden) /\ IsFiniteSet(hidden) /\ \A j \in Keys : Get(table, j) = Nil
    BY FreshIs, FS_EmptySet DEF TableInit
  <1>2. stored \in [Keys -> Vals \cup {Nil}] /\ \A j \in Keys : stored[j] = Nil
    BY DEF TableInit
  <1>3. visited \in Seq(Keys \X (Vals \cup {Nil})) /\ place = NotVisiting /\ place \in Int
    BY DEF TableInit, NotVisiting
  <1> QED
    BY <1>1, <1>2, <1>3 DEF TInv, VInv, IsMap

LEMMA MapSet ==
    ASSUME TInv, NEW k \in Keys, NEW v \in Vals \cup {Nil}, NEW more,
           TabOK(table'), Shown(table', hidden \cup more), FindsBut(table, table', k, v, hidden \cup more),
           stored' = [stored EXCEPT ![k] = v], hidden' = hidden \cup more, IsFiniteSet(hidden \cup more)
    PROVE TInv'
  <1>1. stored' \in [Keys -> Vals \cup {Nil}] /\ \A j \in Keys : stored'[j] = IF j = k THEN v ELSE stored[j]
    BY DEF TInv
  <1>2. \A j \in Keys \ hidden' : Get(table', j) = stored'[j]
    BY <1>1 DEF TInv, IsMap, FindsBut
  <1>3. Shown(table', hidden') /\ IsFiniteSet(hidden')
    OBVIOUS
  <1> QED
    BY <1>1, <1>2, <1>3 DEF TInv, IsMap

LEMMA CleanIs ==
    ASSUME TInv, TableClean
    PROVE /\ TInv' /\ Positions(table') = Positions(table) /\ lasting' = {} /\ place' = place /\ visited' = visited
          /\ \A p \in Positions(table) : \/ KeyAt(table', p) = NoKey
                                         \/ KeyAt(table', p) = KeyAt(table, p) /\ ~(p >= Len(table.vec))
  <1> DEFINE lv == Len(table.vec)
             ln == Len(table.node)
  <1>1. lv \in Nat /\ ln \in Nat \ {0}
    BY TabIs DEF TInv
  <1>2. table' = FreshTable(lv, ln) /\ stored' = [k \in Keys |-> Nil]
        /\ lasting' = {} /\ place' = place /\ visited' = visited /\ hidden' = {}
    BY DEF TableClean
  <1> HIDE DEF lv, ln
  <1>3. /\ TabOK(table') /\ Shown(table', {}) /\ Len(table'.vec) = lv /\ Len(table'.node) = ln /\ DOMAIN table'.node = 1 .. Len(table'.node)
        /\ \A j \in Keys : Get(table', j) = Nil
        /\ \A n \in DOMAIN table'.node : table'.node[n].key = NoKey
    BY <1>1, <1>2, FreshIs, TabIs
  <1>4. TInv'
    <2>1. stored' \in [Keys -> Vals \cup {Nil}] /\ \A j \in Keys : stored'[j] = Nil
      BY <1>2
    <2> QED
      BY <1>2, <1>3, <2>1, FS_EmptySet DEF TInv, IsMap
  <1>5. Positions(table') = Positions(table)
    BY <1>3 DEF Positions, lv, ln
  <1>6. ASSUME NEW p \in Positions(table)
        PROVE KeyAt(table', p) = NoKey \/ (KeyAt(table', p) = KeyAt(table, p) /\ ~(p >= lv))
    <2>1. p < lv \/ p - lv + 1 \in 1 .. ln
      <3>1. \A x, y \in Nat : \A q \in 0 .. (x + y - 1) : q < x \/ q - x + 1 \in 1 .. y
        OBVIOUS
      <3>2. p \in 0 .. (lv + ln - 1)
        BY DEF Positions, lv, ln
      <3> QED
        BY <1>1, <3>1, <3>2
    <2>2. KeyAt(table', p) = IF p < lv THEN <<"num", p>> ELSE table'.node[p - lv + 1].key
      BY <1>3 DEF KeyAt
    <2>3. p < lv => KeyAt(table, p) = <<"num", p>>
      BY DEF KeyAt, lv
    <2>4. ~(p < lv) => table'.node[p - lv + 1].key = NoKey
      BY <1>3, <2>1
    <2>5. p < lv => ~(p >= lv)
      <3>1. p \in Int
        BY DEF Positions
      <3> QED
        BY <1>1, <3>1
    <2> QED
      BY <2>2, <2>3, <2>4, <2>5, Zenon
  <1> QED
    BY <1>2, <1>4, <1>5, <1>6 DEF lv

LEMMA MapKept == ASSUME TInv, [TableNext]_tableVars PROVE TInv'
  <1>1. ASSUME NEW k \in Keys, NEW v \in Vals \cup {Nil}, TableSet(k, v) PROVE TInv'
    <2>1. table' = Store(table, k, v) /\ stored' = [stored EXCEPT ![k] = v] /\ hidden' = hidden \cup {}
      BY <1>1 DEF TableSet
    <2>2. TabOK(table') /\ Shown(table', hidden \cup {}) /\ FindsBut(table, table', k, v, hidden \cup {})
      BY <2>1, StoreIs DEF TInv
    <2>3. IsFiniteSet(hidden \cup {})
      BY DEF TInv
    <2> QED
      BY <2>1, <2>2, <2>3, MapSet
  <1>2. ASSUME NEW v \in Vals, TableSetNext(v) PROVE TInv'
    <2>1. /\ table' = StoreNext(table, v) /\ stored' = [stored EXCEPT ![<<"num", NextNum(table)>>] = v]
          /\ hidden' = hidden \cup Covered(table) /\ NextNum(table) < MaxNum
      BY <1>2 DEF TableSetNext
    <2>2. /\ <<"num", NextNum(table)>> \in Keys /\ TabOK(table') /\ Shown(table', hidden \cup Covered(table))
          /\ FindsBut(table, table', <<"num", NextNum(table)>>, v, hidden \cup Covered(table))
      BY <2>1, StoreNextIs DEF TInv
    <2>3. IsFiniteSet(hidden \cup Covered(table))
      <3> DEFINE two == {<<"num", Len(table.vec)>>, <<"num", Len(table.vec) + 1>>}
      <3>1. IsFiniteSet(two)
        <4> DEFINE a == <<"num", Len(table.vec)>>
                   b == <<"num", Len(table.vec) + 1>>
        <4>1. IsFiniteSet({a})
          BY FS_Singleton
        <4> HIDE DEF a, b
        <4>2. IsFiniteSet({a} \cup {b}) /\ {a} \cup {b} = {a, b}
          BY <4>1, FS_AddElement
        <4> QED
          BY <4>2 DEF a, b
      <3>2. Covered(table) \subseteq two
        BY DEF Covered
      <3> HIDE DEF two
      <3>3. IsFiniteSet(Covered(table))
        BY <3>1, <3>2, FS_Subset
      <3> QED
        BY <3>3, FS_Union DEF TInv
    <2> QED
      BY <2>1, <2>2, <2>3, MapSet
  <1>3. CASE TableClean
    BY <1>3, CleanIs
  <1>4. CASE UNCHANGED <<table, stored, hidden>>
    BY <1>4 DEF TInv, IsMap
  <1> QED
    BY <1>1, <1>2, <1>3, <1>4 DEF TableNext, TableBegin, TableVisit, tableVars

LEMMA VisitIs ==
    ASSUME TInv, VInv, TableVisit, Following(table, place) # End
    PROVE LET next == Following(table, place)
              k == KeyAt(table, next)
          IN  /\ place # NotVisiting /\ Visiting /\ place >= -1 /\ place \in Int
              /\ next \in Positions(table) /\ next > place /\ next \in Int /\ next >= -1 /\ ValueAt(table, next) # Nil
              /\ \A p \in Positions(table) : p > place /\ ValueAt(table, p) # Nil => next <= p
              /\ k \in Keys /\ k # NoKey /\ (k \notin hidden => ValueAt(table, next) = stored[k])
              /\ ValueAt(table, next) \in Vals \cup {Nil}
              /\ place' = next /\ lasting' = lasting /\ UNCHANGED <<table, stored, hidden>>
              /\ visited' \in Seq(Keys \X (Vals \cup {Nil})) /\ Len(visited') = Len(visited) + 1 /\ Len(visited) \in Nat
              /\ visited'[Len(visited')] = <<k, ValueAt(table, next)>>
              /\ \A i \in DOMAIN visited : visited'[i] = visited[i]
              /\ DOMAIN visited' = DOMAIN visited \cup {Len(visited')} /\ Len(visited') \notin DOMAIN visited
  <1> DEFINE next == Following(table, place)
             k == KeyAt(table, next)
             val == ValueAt(table, next)
  <1>1. place # NotVisiting /\ Visiting /\ place >= -1 /\ place \in Int /\ TabOK(table)
    BY DEF TableVisit, VInv, TInv
  <1>2. /\ next \in Positions(table) /\ next > place /\ ValueAt(table, next) # Nil
        /\ \A p \in Positions(table) : p > place /\ ValueAt(table, p) # Nil => next <= p
    BY <1>1, FollowingIs
  <1>3. next \in Int /\ next >= -1
    <2>1. next \in Int /\ next >= 0
      BY <1>1, <1>2, PositionIs
    <2> HIDE DEF next
    <2> QED
      BY <2>1
  <1>4. k \in Keys /\ k # NoKey /\ val \in Vals \cup {Nil} /\ (k \notin hidden => Get(table, k) = val)
    <2>1. Shown(table, hidden)
      BY DEF TInv
    <2> HIDE DEF next
    <2> QED
      BY <1>1, <1>2, <2>1, PositionFound
  <1>5. k \notin hidden => val = stored[k]
    BY <1>4 DEF TInv, IsMap
  <1>6. place' = next /\ lasting' = lasting /\ UNCHANGED <<table, stored, hidden>> /\ visited' = Append(visited, <<k, val>>)
    BY DEF TableVisit
  <1> HIDE DEF next, k, val
  <1>7. visited \in Seq(Keys \X (Vals \cup {Nil})) /\ <<k, val>> \in Keys \X (Vals \cup {Nil})
    BY <1>4 DEF VInv
  <1>8. /\ visited' \in Seq(Keys \X (Vals \cup {Nil})) /\ Len(visited') = Len(visited) + 1 /\ Len(visited) \in Nat
        /\ visited'[Len(visited) + 1] = <<k, val>> /\ \A i \in 1 .. Len(visited) : visited'[i] = visited[i]
        /\ DOMAIN visited = 1 .. Len(visited) /\ DOMAIN visited' = 1 .. Len(visited) + 1
    <2> DEFINE S == Keys \X (Vals \cup {Nil})
               x == <<k, val>>
    <2>1. visited \in Seq(S) /\ x \in S /\ visited' = Append(visited, x)
      BY <1>6, <1>7
    <2> HIDE DEF S, x
    <2>2. /\ visited' \in Seq(S) /\ Len(visited') = Len(visited) + 1 /\ Len(visited) \in Nat
          /\ visited'[Len(visited) + 1] = x /\ \A i \in 1 .. Len(visited) : visited'[i] = visited[i]
          /\ DOMAIN visited = 1 .. Len(visited) /\ DOMAIN visited' = 1 .. Len(visited) + 1
      BY <2>1, AppendProperties
    <2> QED
      BY <2>2 DEF S, x
  <1>9. DOMAIN visited' = DOMAIN visited \cup {Len(visited')} /\ Len(visited') \notin DOMAIN visited
    <2>1. \A n \in Nat : 1 .. n + 1 = (1 .. n) \cup {n + 1} /\ n + 1 \notin 1 .. n
      OBVIOUS
    <2> QED
      BY <1>8, <2>1
  <1>10. visited'[Len(visited')] = <<k, val>> /\ \A i \in DOMAIN visited : visited'[i] = visited[i]
    BY <1>8
  <1> QED
    BY <1>1, <1>2, <1>3, <1>4, <1>5, <1>6, <1>8, <1>9, <1>10 DEF next, k, val

LEMMA GivesIs == ASSUME TInv, VInv, TableVisit PROVE GivesOnce
  <1> DEFINE next == Following(table, place)
  <1>1. CASE next = End
    <2>1. place # NotVisiting /\ Visiting /\ place >= -1 /\ place \in Int /\ TabOK(table)
      BY DEF TableVisit, VInv, TInv
    <2>2. \A p \in Positions(table) : p > place => ValueAt(table, p) = Nil
      BY <1>1, <2>1, FollowingIs
    <2>3. ASSUME NEW k \in lasting \ hidden PROVE \E i \in DOMAIN visited : visited[i][1] = k
      <3>1. k \in Keys /\ stored[k] # Nil
        BY <2>1 DEF Visiting
      <3>2. ASSUME NEW p \in Positions(table), p > place, KeyAt(table, p) = k PROVE FALSE
        <4>1. Get(table, k) # Nil
          BY <3>1 DEF TInv, IsMap
        <4> DEFINE e == Entries(table)
        <4>2. EntriesOf(table, e) /\ p + 1 \in DOMAIN e /\ k = e[p + 1].key /\ ValueAt(table, p) = e[p + 1].val
          BY <2>1, <3>2, PositionIs
        <4> HIDE DEF e
        <4>3. PICK x \in DOMAIN e : e[x].key = k /\ e[x].val = Get(table, k)
          BY <2>1, <3>1, <4>1, <4>2, EntryOf
        <4>4. x = p + 1
          BY <2>1, <2>3, <3>1, <4>2, <4>3, EntriesOnce, NoKeyIsNone DEF TInv
        <4> QED
          BY <2>2, <3>2, <4>1, <4>2, <4>3, <4>4
      <3> QED
        BY <2>1, <3>2 DEF Visiting
    <2> QED
      BY <1>1, <2>3 DEF GivesOnce
  <1>2. CASE next # End
    <2> DEFINE k == KeyAt(table, next)
    <2>1. /\ Visiting /\ next \in Positions(table) /\ next > place
          /\ (k \notin hidden => ValueAt(table, next) = stored[k])
          /\ visited'[Len(visited')] = <<k, ValueAt(table, next)>>
      BY <1>2, VisitIs
    <2>2. k \notin hidden => \A i \in DOMAIN visited : visited[i][1] # k
      BY <2>1 DEF Visiting
    <2> HIDE DEF next, k
    <2>3. visited'[Len(visited')][1] = k /\ (k \notin hidden => visited'[Len(visited')][2] = stored[k])
      BY <2>1
    <2> QED
      BY <1>2, <2>2, <2>3 DEF GivesOnce, next
  <1> QED
    BY <1>1, <1>2

LEMMA VisitKept == ASSUME TInv, VInv, [TableNext]_tableVars PROVE VInv'
  <1>1. ASSUME NEW k \in Keys, NEW v \in Vals \cup {Nil}, TableSet(k, v) PROVE VInv'
    <2>1. /\ table' = Store(table, k, v) /\ stored' = [stored EXCEPT ![k] = v] /\ visited' = visited
          /\ lasting' = IF v = Nil THEN lasting \ {k} ELSE lasting
          /\ place' = IF IsNew(table, k) THEN NotVisiting ELSE place
          /\ hidden' = hidden
      BY <1>1 DEF TableSet
    <2>2. visited' \in Seq(Keys \X (Vals \cup {Nil})) /\ place' \in Int /\ (place' = NotVisiting \/ place' >= -1)
      BY <2>1 DEF VInv, NotVisiting
    <2>3. CASE place' = NotVisiting
      BY <2>2, <2>3 DEF VInv
    <2>4. CASE place' # NotVisiting
      <3>1. ~IsNew(table, k) /\ place' = place /\ Visiting
        BY <2>1, <2>4 DEF VInv
      <3>2. /\ Positions(table') = Positions(table) /\ Len(table'.vec) = Len(table.vec)
            /\ \A p \in Positions(table) : KeyAt(table', p) = KeyAt(table, p)
        BY <2>1, <3>1, PutKeepsKeys DEF TInv
      <3>3. \A i \in DOMAIN visited' : \A p \in Positions(table') : p > place' /\ visited'[i][1] = KeyAt(table', p)
                => visited'[i][1] \in hidden' /\ p >= Len(table'.vec)
        BY <2>1, <3>1, <3>2 DEF Visiting
      <3>4. ASSUME NEW j \in lasting'
            PROVE /\ j \in Keys /\ stored'[j] # Nil
                  /\ \/ j \in hidden'
                     \/ \E i \in DOMAIN visited' : visited'[i][1] = j
                     \/ \E p \in Positions(table') : p > place' /\ KeyAt(table', p) = j
        <4>1. j \in lasting /\ (v = Nil => j # k)
          BY <2>1
        <4>2. j \in Keys /\ stored[j] # Nil
          BY <3>1, <4>1 DEF Visiting
        <4>3. stored'[j] # Nil
          BY <2>1, <4>1, <4>2 DEF TInv
        <4>4. CASE \E i \in DOMAIN visited : visited[i][1] = j
          BY <2>1, <4>2, <4>3, <4>4
        <4>5. CASE \E p \in Positions(table) : p > place /\ KeyAt(table, p) = j
          BY <3>1, <3>2, <4>2, <4>3, <4>5
        <4>6. CASE j \in hidden
          BY <2>1, <4>2, <4>3, <4>6
        <4> QED
          BY <3>1, <4>1, <4>4, <4>5, <4>6 DEF Visiting
      <3> QED
        BY <2>2, <3>3, <3>4, Zenon DEF VInv, Visiting
    <2> QED
      BY <2>3, <2>4
  <1>2. ASSUME NEW v \in Vals, TableSetNext(v) PROVE VInv'
    BY <1>2 DEF TableSetNext, VInv, NotVisiting
  <1>3. CASE TableClean
    <2>1. /\ Positions(table') = Positions(table) /\ lasting' = {} /\ place' = place /\ visited' = visited
          /\ \A p \in Positions(table) : \/ KeyAt(table', p) = NoKey
                                         \/ KeyAt(table', p) = KeyAt(table, p) /\ ~(p >= Len(table.vec))
      BY <1>3, CleanIs
    <2>2. \A i \in DOMAIN visited : visited[i][1] # NoKey
      <3>1. \A x \in Keys \X (Vals \cup {Nil}) : x[1] # NoKey
        BY NoKeyIsNone
      <3> QED
        BY <3>1 DEF VInv
    <2>3. place # NotVisiting => \A i \in DOMAIN visited' : \A p \in Positions(table') :
              p > place' => visited'[i][1] # KeyAt(table', p)
      BY <2>1, <2>2 DEF VInv, Visiting
    <2> QED
      BY <2>1, <2>3 DEF VInv, Visiting
  <1>4. CASE TableBegin
    <2>1. /\ place' = -1 /\ visited' = <<>> /\ lasting' = {k \in Keys : stored[k] # Nil}
          /\ table' = table /\ stored' = stored /\ hidden' = hidden
      BY <1>4 DEF TableBegin
    <2>2. ASSUME NEW k \in lasting'
          PROVE /\ k \in Keys /\ stored'[k] # Nil
                /\ k \in hidden' \/ \E p \in Positions(table') : p > place' /\ KeyAt(table', p) = k
      <3>1. k \in Keys /\ stored[k] # Nil /\ (k \notin hidden => Get(table, k) # Nil)
        BY <2>1 DEF TInv, IsMap
      <3>2. k \notin hidden => \E p \in Positions(table) : p > -1 /\ KeyAt(table, p) = k
        BY <3>1, PositionOf DEF TInv
      <3> QED
        BY <2>1, <3>1, <3>2
    <2>3. visited' \in Seq(Keys \X (Vals \cup {Nil})) /\ place' \in Int /\ place' >= -1 /\ DOMAIN visited' = {}
      BY <2>1
    <2> QED
      BY <2>2, <2>3 DEF VInv, Visiting
  <1>5. CASE TableVisit
    <2> DEFINE next == Following(table, place)
               k == KeyAt(table, next)
    <2>1. CASE next = End
      <3>1. place' = NotVisiting /\ visited' = <<>>
        BY <1>5, <2>1 DEF TableVisit
      <3> QED
        BY <3>1 DEF VInv, NotVisiting
    <2>2. CASE next # End
      <3>1. /\ place # NotVisiting /\ Visiting /\ place >= -1 /\ place \in Int
            /\ next \in Positions(table) /\ next > place /\ next \in Int /\ next >= -1
            /\ k \in Keys /\ k # NoKey
            /\ place' = next /\ lasting' = lasting /\ table' = table /\ stored' = stored /\ hidden' = hidden
            /\ visited' \in Seq(Keys \X (Vals \cup {Nil}))
            /\ visited'[Len(visited')] = <<k, ValueAt(table, next)>>
            /\ \A i \in DOMAIN visited : visited'[i] = visited[i]
            /\ DOMAIN visited' = DOMAIN visited \cup {Len(visited')} /\ Len(visited') \notin DOMAIN visited
        BY <1>5, <2>2, VisitIs
      <3>0. \A p \in Positions(table) : p > place /\ ValueAt(table, p) # Nil => next <= p
        BY <1>5, <2>2, VisitIs
      <3>2. \A p \in Positions(table) : p \in Int
        BY PositionIs DEF TInv
      <3>3. k \notin hidden => \A p \in Positions(table) : KeyAt(table, p) = k => p = next
        BY <3>1, PositionOnce DEF TInv
      <3>7. ASSUME NEW p \in Positions(table), p > next, KeyAt(table, p) = k PROVE k \in hidden /\ p >= Len(table.vec)
        <4>1. p \in Int /\ next \in Int /\ Len(table.vec) \in Nat /\ next >= 0 /\ p # next
          <5>1. TabOK(table)
            BY DEF TInv
          <5> HIDE DEF next, k
          <5>2. p \in Int /\ next \in Int /\ Len(table.vec) \in Nat /\ next >= 0
            BY <3>1, <5>1, PositionIs, TabIs
          <5> QED
            BY <3>7, <5>2
        <4>2. k \in hidden
          BY <3>3, <3>7, <4>1
        <4>3. ASSUME p < Len(table.vec) PROVE FALSE
          <5>0. p > next /\ KeyAt(table, p) = k
            BY <3>7
          <5> HIDE DEF next
          <5>1. next < Len(table.vec)
            BY <4>1, <4>3, <5>0
          <5>2. KeyAt(table, p) = <<"num", p>> /\ k = <<"num", next>>
            BY <4>3, <5>1 DEF KeyAt
          <5> HIDE DEF k
          <5>3. <<"num", p>> = <<"num", next>>
            BY <5>0, <5>2
          <5> QED
            BY <4>1, <5>3
        <4> QED
          BY <4>1, <4>2, <4>3
      <3>4. visited'[Len(visited')][1] = k /\ Len(visited') \in DOMAIN visited'
        BY <3>1
      <3> HIDE DEF next, k
      <3>5. \A i \in DOMAIN visited' : \A p \in Positions(table') : p > place' /\ visited'[i][1] = KeyAt(table', p)
                => visited'[i][1] \in hidden' /\ p >= Len(table'.vec)
        <4> SUFFICES ASSUME NEW i \in DOMAIN visited', NEW p \in Positions(table), p > next,
                            visited'[i][1] = KeyAt(table, p)
                     PROVE visited'[i][1] \in hidden /\ p >= Len(table.vec)
          BY <3>1
        <4>1. p > place /\ p # next
          <5>1. p \in Int /\ next \in Int /\ place \in Int /\ next > place /\ p > next
            BY <3>1, <3>2, Zenon
          <5> QED
            BY <5>1
        <4>2. CASE i \in DOMAIN visited
          <5>1. visited'[i] = visited[i]
            BY <3>1, <4>2
          <5>2. visited[i][1] = KeyAt(table, p) => visited[i][1] \in hidden /\ p >= Len(table.vec)
            <6>1. \A y \in DOMAIN visited : \A q \in Positions(table) :
                      q > place /\ visited[y][1] = KeyAt(table, q) => visited[y][1] \in hidden /\ q >= Len(table.vec)
              BY <3>1, Zenon DEF Visiting
            <6> QED
              BY <4>1, <4>2, <6>1
          <5> QED
            BY <5>1, <5>2
        <4>3. CASE i = Len(visited')
          BY <3>4, <3>7, <4>3
        <4> QED
          BY <3>1, <4>2, <4>3
      <3>6. ASSUME NEW j \in lasting'
            PROVE /\ j \in Keys /\ stored'[j] # Nil
                  /\ \/ j \in hidden'
                     \/ \E i \in DOMAIN visited' : visited'[i][1] = j
                     \/ \E p \in Positions(table') : p > place' /\ KeyAt(table', p) = j
        <4>1. j \in Keys /\ stored[j] # Nil /\ j # NoKey
          BY <3>1, NoKeyIsNone DEF Visiting
        <4>2. CASE \E i \in DOMAIN visited : visited[i][1] = j
          BY <3>1, <4>1, <4>2
        <4>3. CASE \E p \in Positions(table) : p > place /\ KeyAt(table, p) = j
          <5>1. PICK p \in Positions(table) : p > place /\ KeyAt(table, p) = j
            BY <4>3
          <5>2. CASE j \in hidden
            BY <3>1, <4>1, <5>2
          <5> SUFFICES ASSUME j \notin hidden
                       PROVE \/ \E i \in DOMAIN visited' : visited'[i][1] = j
                             \/ \E q \in Positions(table') : q > place' /\ KeyAt(table', q) = j
            BY <3>1, <4>1, <5>2
          <5>6. ValueAt(table, p) # Nil
            <6>1. Get(table, j) # Nil /\ TabOK(table) /\ Shown(table, hidden)
              BY <4>1 DEF TInv, IsMap
            <6> DEFINE e == Entries(table)
            <6>2. EntriesOf(table, e) /\ p + 1 \in DOMAIN e /\ j = e[p + 1].key /\ ValueAt(table, p) = e[p + 1].val
              BY <5>1, <6>1, PositionIs
            <6> HIDE DEF e
            <6>3. PICK x \in DOMAIN e : e[x].key = j /\ e[x].val = Get(table, j)
              BY <4>1, <6>1, <6>2, EntryOf
            <6>4. x = p + 1
              BY <4>1, <6>1, <6>2, <6>3, EntriesOnce
            <6> QED
              BY <6>1, <6>2, <6>3, <6>4
          <5>3. next <= p
            BY <3>0, <5>1, <5>6
          <5>4. CASE p = next
            BY <3>1, <3>4, <4>1, <5>1, <5>4 DEF k
          <5>5. CASE p # next
            <6>1. p > next
              <7>1. p \in Int /\ next \in Int
                BY <3>1, <3>2, Zenon
              <7> QED
                BY <5>3, <5>5, <7>1
            <6> QED
              BY <3>1, <4>1, <5>1, <6>1
          <5> QED
            BY <5>4, <5>5
        <4>4. CASE j \in hidden
          BY <3>1, <4>1, <4>4
        <4> QED
          BY <3>1, <4>2, <4>3, <4>4 DEF Visiting
      <3> QED
        BY <3>1, <3>5, <3>6 DEF VInv, Visiting
    <2> QED
      BY <2>1, <2>2
  <1>6. CASE UNCHANGED tableVars
    <2>1. VInv' = VInv
      BY <1>6 DEF VInv, Visiting, tableVars
    <2> QED
      BY <2>1
  <1> QED
    BY <1>1, <1>2, <1>3, <1>4, <1>5, <1>6 DEF TableNext
-----------------------------------------------------------------------------
(* The count. *)

\* Hidden keys have at most one place of the vector and one node each.
LEMMA HiddenCount ==
    ASSUME NEW tab, TabOK(tab), NEW hid, IsFiniteSet(hid), NEW e, EntriesOf(tab, e)
    PROVE LET X == {x \in Filled(e) : e[x].key \in hid}
          IN  IsFiniteSet(X) /\ Cardinality(X) \in Nat /\ Cardinality(X) <= 2 * Cardinality(hid)
  <1> DEFINE X == {x \in Filled(e) : e[x].key \in hid}
             V == Places(tab, X)
             M == Nodes(tab, X)
             v == [i \in V |-> <<"num", i - 1>>]
             m == [n \in M |-> tab.node[n].key]
  <1>1. DOMAIN tab.vec = 1 .. Len(tab.vec) /\ Len(tab.vec) \in Nat /\ DOMAIN tab.node = 1 .. Len(tab.node)
    BY TabIs
  <1>2. X \in SUBSET DOMAIN e
    BY DEF Filled
  <1>3. v \in Injection(V, hid)
    <2>1. \A i \in V : <<"num", i - 1>> \in hid
      <3> SUFFICES ASSUME NEW i \in V PROVE <<"num", i - 1>> \in hid
        OBVIOUS
      <3>1. i \in 1 .. Len(tab.vec) /\ e[i].key \in hid
        BY <1>1 DEF Places
      <3>2. e[i].key = <<"num", i - 1>>
        BY <3>1, EntriesAt
      <3> QED
        BY <3>1, <3>2
    <2>2. \A i, j \in V : <<"num", i - 1>> = <<"num", j - 1>> => i = j
      BY <1>1 DEF Places
    <2> HIDE DEF V
    <2>3. v \in [V -> hid] /\ \A i, j \in V : v[i] = v[j] => i = j
      BY <2>1, <2>2
    <2> HIDE DEF v
    <2> QED
      BY <2>3 DEF Injection, IsInjective
  <1>4. m \in Injection(M, hid)
    <2>1. ASSUME NEW n \in M PROVE tab.node[n].key \in hid /\ tab.node[n].key # NoKey
      <3>1. n \in 1 .. Len(tab.node) /\ Len(tab.vec) + n \in Filled(e) /\ e[Len(tab.vec) + n].key \in hid
        BY <1>1 DEF Nodes
      <3>2. e[Len(tab.vec) + n].key = tab.node[n].key
        BY <3>1, EntriesAt
      <3>3. e[Len(tab.vec) + n].key # NoKey
        BY <3>1, EntryFound DEF Filled
      <3> QED
        BY <3>1, <3>2, <3>3
    <2>2. \A i, j \in M : tab.node[i].key = tab.node[j].key => i = j
      BY <2>1, TabIs DEF Linked, Distinct, Nodes
    <2> HIDE DEF M
    <2>3. m \in [M -> hid] /\ \A i, j \in M : m[i] = m[j] => i = j
      BY <2>1, <2>2
    <2> HIDE DEF m
    <2> QED
      BY <2>3 DEF Injection, IsInjective
  <1> HIDE DEF X, v, m
  <1>6. IsFiniteSet(X) /\ Cardinality(X) = Cardinality(V) + Cardinality(M) /\ IsFiniteSet(V) /\ IsFiniteSet(M)
    BY <1>2, EntriesWith
  <1> HIDE DEF V, M
  <1>8. Cardinality(V) <= Cardinality(hid) /\ Cardinality(M) <= Cardinality(hid)
    BY <1>3, <1>4, FS_Injection
  <1>9. Cardinality(V) \in Nat /\ Cardinality(M) \in Nat /\ Cardinality(hid) \in Nat /\ Cardinality(X) \in Nat
    BY <1>6, FS_CardinalityType
  <1>10. IsFiniteSet(X) /\ Cardinality(X) \in Nat /\ Cardinality(X) <= 2 * Cardinality(hid)
    BY <1>6, <1>8, <1>9
  <1> QED
    BY <1>10 DEF X

LEMMA CountOK == ASSUME TInv PROVE Counted
  <1> DEFINE e == Entries(table)
             K == {k \in Keys \ hidden : stored[k] # Nil}
             X == {x \in Filled(e) : e[x].key \in hidden}
             Y == Filled(e) \ X
             f == [x \in Y |-> e[x].key]
  <1>1. /\ TabOK(table) /\ Shown(table, hidden) /\ EntriesOf(table, e) /\ IsFiniteSet(hidden)
        /\ \A k \in Keys \ hidden : Get(table, k) = stored[k]
    BY EntriesAre DEF TInv, IsMap
  <1> HIDE DEF e
  <1>2. \A x \in Y : x \in DOMAIN e /\ e[x].val # Nil /\ e[x].key \notin hidden
    BY DEF Filled
  <1>3. \A x \in Y : e[x].key \in K /\ e[x].key # NoKey
    BY <1>1, <1>2, EntryFound
  <1>4. \A x, y \in Y : e[x].key = e[y].key => x = y
    <2> HIDE DEF Y, K
    <2> SUFFICES ASSUME NEW x \in Y, NEW y \in Y, e[x].key = e[y].key PROVE x = y
      OBVIOUS
    <2>1. e[x].key \notin {NoKey} \cup hidden /\ x \in DOMAIN e /\ y \in DOMAIN e
      BY <1>2, <1>3
    <2> QED
      BY <1>1, <2>1, EntriesOnce
  <1>5. \A k \in K : \E x \in Y : e[x].key = k
    <2> SUFFICES ASSUME NEW k \in Keys, k \notin hidden, stored[k] # Nil PROVE \E x \in Y : e[x].key = k
      OBVIOUS
    <2>1. PICK x \in DOMAIN e : e[x].key = k /\ e[x].val = Get(table, k)
      BY <1>1, EntryOf
    <2>2. x \in Y
      BY <1>1, <2>1 DEF Filled
    <2> QED
      BY <2>1, <2>2
  <1>6. Filled(e) = X \cup Y /\ X \cap Y = {} /\ Y \in SUBSET Filled(e)
    OBVIOUS
  <1>7. f \in Bijection(Y, K)
    <2> HIDE DEF Y, K
    <2>1. f \in [Y -> K] /\ (\A x, y \in Y : f[x] = f[y] => x = y) /\ \A k \in K : \E x \in Y : f[x] = k
      BY <1>3, <1>4, <1>5
    <2> HIDE DEF f
    <2> QED
      BY <2>1, BijectionIs
  <1>8. IsFiniteSet(Filled(e)) /\ Cardinality(Filled(e)) = Used(table)
    BY <1>1, UsedIs
  <1>9. IsFiniteSet(X) /\ Cardinality(X) \in Nat /\ Cardinality(X) <= 2 * Cardinality(hidden)
    BY <1>1, HiddenCount
  <1> HIDE DEF X, Y, K, f
  <1>10. IsFiniteSet(Y) /\ Cardinality(Y) \in Nat /\ Cardinality(hidden) \in Nat
    BY <1>1, <1>6, <1>8, FS_Subset, FS_CardinalityType
  <1>11. Cardinality(K) = Cardinality(Y)
    BY <1>7, <1>10, FS_Bijection DEF ExistsBijection
  <1>12. Cardinality(X \cup Y) = Cardinality(X) + Cardinality(Y) - Cardinality(X \cap Y) /\ Cardinality(X \cap Y) = 0
    BY <1>6, <1>9, <1>10, FS_Union, FS_EmptySet
  <1>13. Used(table) \in Cardinality(K) .. Cardinality(K) + 2 * Cardinality(hidden)
    BY <1>6, <1>8, <1>9, <1>10, <1>11, <1>12
  <1> QED
    BY <1>13 DEF Counted, CountTable, K
-----------------------------------------------------------------------------
\* The nodes of the table are linked as its functions expect, and every key finds
\* what was stored under it, in every reachable state: table.c with any keys, and
\* with a vector that grows over the nodes of some of them.
THEOREM TableInv == TableSpec => [](TInv /\ VInv)
  <1>1. TableInit => TInv /\ VInv
    BY TableBegins
  <1>2. TInv /\ VInv /\ [TableNext]_tableVars => (TInv /\ VInv)'
    BY MapKept, VisitKept
  <1> QED
    BY <1>1, <1>2, PTL DEF TableSpec

\* A table is a map: a get finds what was stored last under that key (rbtH_get and
\* rbtH_set with the chains, the vector, the reuse of nodes and the resize), unless
\* the vector has grown over the node of the key (rbtH_setnextnum).
THEOREM TableIsMap == TableSpec => []IsMap
  <1>1. TInv => IsMap
    BY DEF TInv
  <1> QED
    BY <1>1, TableInv, PTL

\* The count of a table (rbtH_count) is the number of keys with a value, each with one
\* entry, but for at most two entries of each key that the vector has grown over.
THEOREM TableCounted == TableSpec => []Counted
  <1>1. TInv => Counted
    BY CountOK
  <1> QED
    BY <1>1, TableInv, PTL

\* A visit (rbtH_next from the start to the end) gives each key once, with its value
\* at that moment, and no key that lasts is left out, whatever is stored and removed
\* between two of its steps; but for the keys that the vector has grown over.
THEOREM TableVisits == TableSpec => EachOnce
  <1>1. TInv /\ VInv /\ [TableNext]_tableVars => [GivesOnce]_tableVars
    BY GivesIs DEF GivesOnce
  <1> QED
    BY <1>1, TableInv, PTL DEF TableSpec, EachOnce
=============================================================================
