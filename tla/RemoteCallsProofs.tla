------------------------- MODULE RemoteCallsProofs -------------------------
(***************************************************************************)
(* Theorems about RemoteCalls for any number of connections, scripts and   *)
(* preallocated parameters, as long as the ids have not wrapped: fewer     *)
(* calls than PKT_REQ_MAX.  Until then the id of a call is its number; IInv *)
(* says that the hash and the busy parameters are each other's inverse and *)
(* that a call has at most one packet on its way, and none while its       *)
(* answer is being handled.                                                *)
(***************************************************************************)
EXTENDS RemoteCalls, SequenceTheorems, FiniteSetTheorems, TLAPS

\* The id of the next call is its number; a call allocates at most one parameter.
Numbered == lastReqId = calls + 1 /\ total <= InitParams + calls

\* The hash leads to the busy parameters, and to each by its own id.
Indexed ==
    /\ \A p \in Busy : /\ hash[param[p].id] = p
                       /\ param[p].id = param[p].call
                       /\ param[p].call \in 1 .. calls
                       /\ param[p].ctx \in Scripts
    /\ \A i \in Ids : hash[i] # 0 => hash[i] \in Busy /\ param[hash[i]].id = i

\* A free parameter is not busy and is on the list once.
FreeUnused ==
    \A i \in DOMAIN free : /\ free[i] \notin Busy
                           /\ \A j \in DOMAIN free : free[i] = free[j] => i = j

\* The parameter that is being applied is still the one that was called.
Applied == applying # 0 => applying \in Busy /\ param[applying].call = answer

\* There is nothing on the wire of a closed connection.
ClosedSilent ==
    \A c \in Conns : c \notin up => requests[c] = {} /\ answers[c] = <<>>

\* A call is on its way once, and not while its answer is handled.
WireOnce ==
    \A c \in Conns :
        /\ \A m \in requests[c] : \A i \in DOMAIN answers[c] : answers[c][i] # m
        /\ \A i, j \in DOMAIN answers[c] : answers[c][i] = answers[c][j] => i = j
        /\ applying # 0 => /\ \A m \in requests[c] : m.call # param[applying].call
                           /\ \A i \in DOMAIN answers[c] :
                                 answers[c][i].call # param[applying].call

\* Awaited, without Range.
WireFinds ==
    \A c \in Conns : /\ \A m \in requests[c] : Finds(c, m)
                     /\ \A i \in DOMAIN answers[c] : Finds(c, answers[c][i])

IInv ==
    /\ TypeOK
    /\ Numbered
    /\ Indexed
    /\ FreeUnused
    /\ Applied
    /\ ClosedSilent
    /\ WireOnce
    /\ WireFinds

-----------------------------------------------------------------------------
\* Init establishes the invariant.
LEMMA InitIInv ==
    ASSUME RemoteCallsAssumption, Init PROVE IInv
<1>1. free \in Seq(1 .. total)
  <2>1. \A i \in 1 .. InitParams : InitParams + 1 - i \in 1 .. InitParams
    BY DEF RemoteCallsAssumption
  <2>2. [i \in 1 .. InitParams |-> InitParams + 1 - i] \in Seq(1 .. InitParams)
    BY <2>1, IsASeq DEF RemoteCallsAssumption
  <2>. QED
    BY <2>2 DEF Init
<1>2. Busy = {}
  BY DEF Init, Busy, Unused
<1>3. \A c \in Conns : requests[c] = {} /\ answers[c] = <<>>
  BY DEF Init
<1>4. \A c \in Conns : answers[c] \in Seq(Message)
  BY <1>3, EmptySeq
<1>5. TypeOK
  <2>1. param \in [Params -> Param]
    BY DEF Init, Unused, Param
  <2>2. /\ lastReqId \in Ids /\ total \in InitParams .. InitParams + MaxCalls
        /\ hash \in [Ids -> Params \cup {0}]
        /\ calls \in 0 .. MaxCalls /\ breaks \in 0 .. MaxBreaks
    BY DEF Init, RemoteCallsAssumption, Ids
  <2>3. /\ requests \in [Conns -> SUBSET Message]
        /\ answers \in [Conns -> Seq(Message)]
    BY <1>4 DEF Init
  <2>4. script \in [Scripts -> {"idle", "running", "waiting", "dropped"}]
    BY DEF Init
  <2>. QED
    BY <1>1, <1>2, <2>1, <2>2, <2>3, <2>4 DEF Init, TypeOK
<1>6. Numbered
  BY DEF Init, Numbered, RemoteCallsAssumption
<1>7. Indexed
  BY <1>2 DEF Init, Indexed
<1>8. FreeUnused
  <2>1. \A i, j \in 1 .. InitParams : InitParams + 1 - i = InitParams + 1 - j => i = j
    BY DEF RemoteCallsAssumption
  <2>. QED
    BY <1>2, <2>1 DEF Init, FreeUnused
<1>9. Applied /\ ClosedSilent
  BY DEF Init, Applied, ClosedSilent
<1>10. WireOnce /\ WireFinds
  BY <1>3 DEF Init, WireOnce, WireFinds
<1>. QED
  BY <1>5, <1>6, <1>7, <1>8, <1>9, <1>10 DEF IInv

\* A step that leaves the manager, the wires and the answer alone.
LEMMA ScriptStep ==
    ASSUME IInv,
           UNCHANGED <<manager, wires, applying, answer, calls, breaks>>,
           script' \in [Scripts -> {"idle", "running", "waiting", "dropped"}],
           running' \in Scripts \cup {None}
    PROVE  IInv'
<1>1. Busy' = Busy
  BY DEF Busy, manager
<1>2. TypeOK'
  BY <1>1 DEF IInv, TypeOK, manager, wires
<1>3. Numbered' /\ FreeUnused' /\ Applied' /\ Indexed'
  BY <1>1 DEF IInv, Numbered, FreeUnused, Applied, Indexed, manager
<1>4. UNCHANGED <<up, requests, answers, param, hash, applying>>
  BY DEF manager, wires
<1>5. ClosedSilent'
  BY <1>4 DEF IInv, ClosedSilent
<1>6. WireOnce'
  BY <1>4 DEF IInv, WireOnce
<1>7. WireFinds'
  <2>1. \A c \in Conns : \A m : Finds(c, m) => Finds(c, m)'
    BY <1>4 DEF Finds
  <2>. QED
    BY <1>4, <2>1 DEF IInv, WireFinds
<1>. QED
  BY <1>2, <1>3, <1>5, <1>6, <1>7 DEF IInv

\* A database sends an answer.
LEMMA PeerAnswersStep ==
    ASSUME IInv, NEW c \in Conns, NEW m \in requests[c], PeerAnswers(c, m)
    PROVE  IInv'
<1>. DEFINE q == answers[c]
<1>1. m \in Message /\ q \in Seq(Message)
  BY DEF IInv, TypeOK
<1>2. /\ requests'[c] = requests[c] \ {m}
      /\ answers'[c] = Append(q, m)
      /\ \A d \in Conns \ {c} : requests'[d] = requests[d] /\ answers'[d] = answers[d]
      /\ UNCHANGED <<manager, up, applying, calls>>
  BY DEF PeerAnswers, IInv, TypeOK
<1>3. /\ DOMAIN q = 1 .. Len(q) /\ Len(q) \in Nat
      /\ DOMAIN answers'[c] = 1 .. Len(q) + 1
      /\ answers'[c][Len(q) + 1] = m
      /\ \A i \in 1 .. Len(q) : answers'[c][i] = q[i]
  BY <1>1, <1>2, LenProperties, AppendProperties
<1>4. Busy' = Busy
  BY DEF PeerAnswers, Busy, manager
<1>5. TypeOK'
  <2>1. requests' \in [Conns -> SUBSET Message]
    BY DEF PeerAnswers, IInv, TypeOK
  <2>2. Append(q, m) \in Seq(Message)
    BY <1>1, AppendProperties
  <2>3. answers' \in [Conns -> Seq(Message)]
    BY <2>2 DEF PeerAnswers, IInv, TypeOK
  <2>. QED
    BY <1>4, <2>1, <2>3 DEF PeerAnswers, IInv, TypeOK, manager
<1>6. Numbered' /\ FreeUnused' /\ Applied' /\ Indexed'
  BY <1>4 DEF PeerAnswers, IInv, Numbered, FreeUnused, Applied, Indexed, manager
<1>7. ClosedSilent'
  BY <1>2 DEF IInv, ClosedSilent
<1>8. \A d \in Conns : \A n : Finds(d, n) => Finds(d, n)'
  BY <1>2 DEF Finds, manager
<1>9. WireFinds'
  <2>1. \A d \in Conns : /\ \A n \in requests[d] : Finds(d, n)
                         /\ \A i \in DOMAIN answers[d] : Finds(d, answers[d][i])
    BY DEF IInv, WireFinds
  <2>2. \A d \in Conns : \A n \in requests'[d] : Finds(d, n)
    BY <1>2, <2>1
  <2>3. \A i \in 1 .. Len(q) + 1 : i \in 1 .. Len(q) \/ i = Len(q) + 1
    BY <1>3
  <2>4. \A i \in DOMAIN answers'[c] : Finds(c, answers'[c][i])
    BY <1>3, <2>1, <2>3
  <2>5. \A d \in Conns : \A i \in DOMAIN answers'[d] : Finds(d, answers'[d][i])
    BY <1>2, <2>1, <2>4
  <2>6. \A d \in Conns : (\A n \in requests[d] : Finds(d, n))'
    BY <1>8, <2>2
  <2>7. \A d \in Conns : (\A i \in DOMAIN answers[d] : Finds(d, answers[d][i]))'
    BY <1>8, <2>5
  <2>. QED
    BY <2>6, <2>7 DEF WireFinds
<1>10. WireOnce'
  <2>. SUFFICES ASSUME NEW d \in Conns
                PROVE  /\ \A n \in requests'[d] : \A i \in DOMAIN answers'[d] : answers'[d][i] # n
                       /\ \A i, j \in DOMAIN answers'[d] :
                             answers'[d][i] = answers'[d][j] => i = j
                       /\ applying' # 0 =>
                             /\ \A n \in requests'[d] : n.call # param'[applying'].call
                             /\ \A i \in DOMAIN answers'[d] :
                                   answers'[d][i].call # param'[applying'].call
    BY DEF WireOnce
  <2>1. CASE d # c
    BY <1>2, <2>1 DEF IInv, WireOnce, manager
  <2>2. CASE d = c
    <3>1. /\ \A n \in requests[c] : \A i \in 1 .. Len(q) : q[i] # n
          /\ \A i, j \in 1 .. Len(q) : q[i] = q[j] => i = j
          /\ applying # 0 => /\ \A n \in requests[c] : n.call # param[applying].call
                             /\ \A i \in 1 .. Len(q) : q[i].call # param[applying].call
      BY <1>3 DEF IInv, WireOnce
    <3>2. \A i \in 1 .. Len(q) + 1 : i \in 1 .. Len(q) \/ i = Len(q) + 1
      BY <1>3
    <3>3. \A n \in requests'[c] : \A i \in DOMAIN answers'[c] : answers'[c][i] # n
      BY <1>2, <1>3, <3>1, <3>2
    <3>4. \A i, j \in DOMAIN answers'[c] : answers'[c][i] = answers'[c][j] => i = j
      BY <1>3, <3>1, <3>2
    <3>5. applying' # 0 =>
             /\ \A n \in requests'[c] : n.call # param'[applying'].call
             /\ \A i \in DOMAIN answers'[c] : answers'[c][i].call # param'[applying'].call
      BY <1>2, <1>3, <3>1, <3>2 DEF manager
    <3>. QED
      BY <2>2, <3>3, <3>4, <3>5
  <2>. QED
    BY <2>1, <2>2
<1>. QED
  BY <1>5, <1>6, <1>7, <1>9, <1>10 DEF IInv

\* rbtRpc_apply up to and with the resumption of the script.
LEMMA ApplyStep ==
    ASSUME RemoteCallsAssumption, IInv, NEW c \in Conns, Apply(c)
    PROVE  IInv'
<1>. DEFINE q == answers[c]
            m == Head(q)
            p == hash[m.id]
<1>1. q \in Seq(Message) /\ q # <<>> /\ Len(q) \in Nat \ {0} /\ DOMAIN q = 1 .. Len(q)
  BY EmptySeq, LenProperties DEF Apply, IInv, TypeOK
<1>2. /\ Tail(q) \in Seq(Message) /\ m = q[1] /\ m \in Message
      /\ DOMAIN Tail(q) = 1 .. Len(q) - 1
      /\ \A i \in 1 .. Len(q) - 1 : Tail(q)[i] = q[i + 1]
  BY <1>1, HeadTailProperties, LenProperties
<1>3. /\ answers'[c] = Tail(q)
      /\ \A d \in Conns \ {c} : answers'[d] = answers[d]
      /\ UNCHANGED <<manager, requests, up, calls>>
  BY DEF Apply, IInv, TypeOK
<1>4. applying = 0
  BY DEF Apply, Loop
<1>5. p # 0 /\ p \in Busy /\ param[p].call = m.call
  <2>1. Finds(c, m)
    BY <1>1, <1>2 DEF IInv, WireFinds
  <2>2. p # 0 /\ param[p].call = m.call
    BY <2>1 DEF Finds
  <2>3. m.id \in Ids
    BY <1>2 DEF Message
  <2>. QED
    BY <2>2, <2>3 DEF IInv, Indexed
<1>6. applying' = p /\ answer' = m.call /\ running' = param[p].ctx
  BY <1>5 DEF Apply
<1>7. Busy' = Busy
  BY <1>3 DEF Busy, manager
<1>8. TypeOK'
  <2>1. answers' \in [Conns -> Seq(Message)]
    BY <1>2 DEF Apply, IInv, TypeOK
  <2>2. param[p].ctx \in Scripts /\ p \in Params
    BY <1>5 DEF IInv, Indexed, Busy
  <2>3. script' \in [Scripts -> {"idle", "running", "waiting", "dropped"}]
    BY <1>5 DEF Apply, IInv, TypeOK
  <2>4. running' \in Scripts \cup {None} /\ applying' \in Params \cup {0}
        /\ answer' \in Calls \cup {0}
    BY <1>2, <1>6, <2>2 DEF Message
  <2>. QED
    BY <1>3, <1>7, <2>1, <2>3, <2>4 DEF Apply, IInv, TypeOK, manager
<1>9. Numbered' /\ FreeUnused' /\ Indexed'
  BY <1>3, <1>7 DEF IInv, Numbered, FreeUnused, Indexed, manager
<1>10. Applied'
  BY <1>3, <1>5, <1>6, <1>7 DEF Applied, manager
<1>11. ClosedSilent'
  <2>1. c \in up
    BY <1>1 DEF IInv, ClosedSilent
  <2>. QED
    BY <1>3, <2>1 DEF IInv, ClosedSilent
<1>12. \A d \in Conns : \A n : Finds(d, n) => Finds(d, n)'
  BY <1>3 DEF Finds, manager
<1>13. WireFinds'
  <2>. SUFFICES ASSUME NEW d \in Conns
                PROVE  /\ (\A n \in requests[d] : Finds(d, n))'
                       /\ (\A i \in DOMAIN answers[d] : Finds(d, answers[d][i]))'
    BY DEF WireFinds
  <2>1. /\ \A n \in requests[d] : Finds(d, n)
        /\ \A i \in DOMAIN answers[d] : Finds(d, answers[d][i])
    BY DEF IInv, WireFinds
  <2>2. \A i \in 1 .. Len(q) - 1 : Finds(c, Tail(q)[i])
    BY <1>1, <1>2 DEF IInv, WireFinds
  <2>3. \A i \in DOMAIN answers'[d] : Finds(d, answers'[d][i])
    BY <1>2, <1>3, <2>1, <2>2
  <2>4. (\A i \in DOMAIN answers[d] : Finds(d, answers[d][i]))'
    BY <1>12, <2>3
  <2>. QED
    BY <1>3, <1>12, <2>1, <2>4
<1>14. \A d \in Conns : \A n : Finds(d, n) /\ n \in Message /\ n.call = m.call => n = m /\ d = c
  <2>. SUFFICES ASSUME NEW d \in Conns, NEW n \in Message, Finds(d, n), n.call = m.call
                PROVE  n = m /\ d = c
    OBVIOUS
  <2>1. Finds(c, m)
    BY <1>1, <1>2 DEF IInv, WireFinds
  <2>2. /\ hash[n.id] \in Busy /\ param[hash[n.id]].id = n.id
        /\ hash[m.id] \in Busy /\ param[hash[m.id]].id = m.id
    BY <1>2, <2>1 DEF IInv, Indexed, Finds, Message
  <2>3. n.id = m.id
    BY <2>1, <2>2 DEF IInv, Indexed, Finds
  <2>. QED
    <3>1. n = [id |-> n.id, call |-> n.call] /\ m = [id |-> m.id, call |-> m.call]
      BY <1>2 DEF Message
    <3>2. n = m
      BY <2>3, <3>1
    <3>. QED
      BY <2>1, <3>2 DEF Finds
<1>15. WireOnce'
  <2>. SUFFICES ASSUME NEW d \in Conns
                PROVE  /\ \A n \in requests'[d] : \A i \in DOMAIN answers'[d] : answers'[d][i] # n
                       /\ \A i, j \in DOMAIN answers'[d] :
                             answers'[d][i] = answers'[d][j] => i = j
                       /\ \A n \in requests'[d] : n.call # param'[applying'].call
                       /\ \A i \in DOMAIN answers'[d] :
                             answers'[d][i].call # param'[applying'].call
    BY DEF WireOnce
  <2>1. param'[applying'].call = m.call
    BY <1>3, <1>5, <1>6 DEF manager
  <2>2. \A n \in requests[d] : n.call # m.call
    <3>1. \A n \in requests[d] : n \in Message /\ Finds(d, n)
      BY DEF IInv, TypeOK, WireFinds
    <3>2. \A n \in requests[c] : n # m
      BY <1>1, <1>2 DEF IInv, WireOnce
    <3>. QED
      BY <1>14, <3>1, <3>2
  <2>3. CASE d = c
    <3>1. \A i \in 1 .. Len(q) - 1 : Tail(q)[i] # m /\ Tail(q)[i] \in Message /\ Finds(c, Tail(q)[i])
      BY <1>1, <1>2 DEF IInv, WireOnce, WireFinds
    <3>2. \A i \in 1 .. Len(q) - 1 : Tail(q)[i].call # m.call
      BY <1>14, <3>1
    <3>3. \A i, j \in 1 .. Len(q) - 1 : Tail(q)[i] = Tail(q)[j] => i = j
      BY <1>1, <1>2 DEF IInv, WireOnce
    <3>4. \A n \in requests[c] : \A i \in 1 .. Len(q) - 1 : Tail(q)[i] # n
      BY <1>1, <1>2 DEF IInv, WireOnce
    <3>5. /\ answers'[d] = Tail(q) /\ DOMAIN answers'[d] = 1 .. Len(q) - 1
          /\ requests'[d] = requests[c]
      BY <1>2, <1>3, <2>3
    <3>6. \A n \in requests'[d] : \A i \in DOMAIN answers'[d] : answers'[d][i] # n
      BY <3>4, <3>5
    <3>7. \A i, j \in DOMAIN answers'[d] : answers'[d][i] = answers'[d][j] => i = j
      BY <3>3, <3>5
    <3>8. /\ \A n \in requests'[d] : n.call # param'[applying'].call
          /\ \A i \in DOMAIN answers'[d] : answers'[d][i].call # param'[applying'].call
      BY <2>1, <2>2, <2>3, <3>2, <3>5
    <3>. QED
      BY <3>6, <3>7, <3>8
  <2>4. CASE d # c
    <3>1. \A i \in DOMAIN answers[d] : answers[d][i] \in Message /\ Finds(d, answers[d][i])
      BY LenProperties DEF IInv, TypeOK, WireFinds
    <3>. QED
      BY <1>3, <1>14, <2>1, <2>2, <2>4, <3>1 DEF IInv, WireOnce
  <2>. QED
    BY <2>3, <2>4
<1>. QED
  BY <1>8, <1>9, <1>10, <1>11, <1>13, <1>15 DEF IInv

\* What giving back the parameters of ps does: exactly they stop being busy, and
\* whatever found another parameter still does.
LEMMA FreeParamsStep ==
    ASSUME RemoteCallsAssumption, IInv, NEW ps \in SUBSET Busy, FreeParams(ps),
           UNCHANGED calls
    PROVE  /\ free' \in Seq(1 .. total)
           /\ param' \in [Params -> Param]
           /\ hash' \in [Ids -> Params \cup {0}]
           /\ Busy' = Busy \ ps
           /\ \A p \in Busy \ ps : param'[p] = param[p]
           /\ Numbered' /\ Indexed' /\ FreeUnused'
           /\ \A d \in Conns, n \in Message :
                 Finds(d, n) /\ hash[n.id] \notin ps => Finds(d, n)'
<1>1. /\ hash' = [i \in Ids |-> IF \E p \in ps : param[p].id = i THEN 0 ELSE hash[i]]
      /\ param' = [p \in Params |-> IF p \in ps THEN Unused ELSE param[p]]
      /\ UNCHANGED <<lastReqId, total>>
  BY DEF FreeParams
<1>2. PICK order \in SetToSeqs(ps) : free' = order \o free
  BY DEF FreeParams
<1>3. Unused \in Param /\ Unused.conn = None
  BY DEF Unused, Param
<1>4. Busy' = Busy \ ps
  BY <1>1, <1>3 DEF Busy
<1>5. /\ param' \in [Params -> Param]
      /\ hash' \in [Ids -> Params \cup {0}]
  BY <1>1, <1>3 DEF IInv, TypeOK
<1>6. \A p \in Busy \ ps : param'[p] = param[p]
  BY <1>1 DEF Busy
<1>7. \A i \in Ids : hash[i] # 0 /\ hash[i] \notin ps => hash'[i] = hash[i]
  BY <1>1 DEF IInv, Indexed
<1>8. \A i \in Ids : hash'[i] # 0 => hash'[i] = hash[i] /\ hash[i] \notin ps
  BY <1>1 DEF IInv, Indexed
<1>9. DEFINE n == Cardinality(ps)
<1>10. n \in Nat
  <2>1. IsFiniteSet(Params)
    BY FS_Interval DEF RemoteCallsAssumption, Params
  <2>. QED
    BY <2>1, FS_Subset, FS_CardinalityType DEF Busy
<1>. HIDE DEF n
<1>11. /\ order \in [1 .. n -> ps]
       /\ \A i, j \in 1 .. n : i # j => order[i] # order[j]
  BY DEF SetToSeqs, n
<1>12. ps \subseteq 1 .. total
  BY DEF IInv, TypeOK
<1>13. order \in Seq(1 .. total) /\ Len(order) = n /\ free \in Seq(1 .. total)
  <2>1. order \in [1 .. n -> 1 .. total]
    BY <1>11, <1>12
  <2>2. order \in Seq(1 .. total)
    BY <1>10, <2>1, SeqDef
  <2>. QED
    BY <1>10, <2>1, <2>2, LenProperties DEF IInv, TypeOK
<1>14. /\ free' \in Seq(1 .. total)
       /\ Len(free) \in Nat
       /\ DOMAIN free = 1 .. Len(free)
       /\ DOMAIN free' = 1 .. n + Len(free)
       /\ \A i \in 1 .. n : free'[i] = order[i]
       /\ \A i \in n + 1 .. n + Len(free) : free'[i] = free[i - n]
  BY <1>2, <1>10, <1>13, ConcatProperties, LenProperties
<1>15. Numbered'
  BY <1>1 DEF IInv, Numbered
<1>16. Indexed'
  <2>1. \A p \in Busy' : /\ hash'[param'[p].id] = p
                         /\ param'[p].id = param'[p].call
                         /\ param'[p].call \in 1 .. calls'
                         /\ param'[p].ctx \in Scripts
    <3>. SUFFICES ASSUME NEW p \in Busy \ ps
                  PROVE  /\ hash'[param[p].id] = p
                         /\ param[p].id = param[p].call
                         /\ param[p].call \in 1 .. calls
                         /\ param[p].ctx \in Scripts
      BY <1>4, <1>6
    <3>1. /\ hash[param[p].id] = p
          /\ param[p].id = param[p].call
          /\ param[p].call \in 1 .. calls
          /\ param[p].ctx \in Scripts
      BY DEF IInv, Indexed
    <3>2. param[p].id \in Ids
      BY <3>1 DEF Busy, IInv, TypeOK, Param
    <3>3. p # 0
      BY DEF Busy, Params
    <3>. QED
      BY <1>7, <3>1, <3>2, <3>3
  <2>2. \A i \in Ids : hash'[i] # 0 => hash'[i] \in Busy' /\ param'[hash'[i]].id = i
    BY <1>4, <1>6, <1>8 DEF IInv, Indexed
  <2>. QED
    BY <2>1, <2>2 DEF Indexed
<1>17. FreeUnused'
  <2>1. \A i \in DOMAIN free : /\ free[i] \notin Busy
                               /\ \A j \in DOMAIN free : free[i] = free[j] => i = j
    BY DEF IInv, FreeUnused
  <2>2. \A i \in 1 .. n + Len(free) :
           \/ i \in 1 .. n /\ free'[i] = order[i] /\ order[i] \in ps
           \/ /\ i \in n + 1 .. n + Len(free)
              /\ i - n \in DOMAIN free /\ free'[i] = free[i - n]
    BY <1>10, <1>11, <1>14
  <2>3. \A i \in 1 .. n : free'[i] \in Busy
    BY <1>10, <2>2
  <2>4. \A i \in 1 .. n + Len(free) : i \notin 1 .. n => free'[i] \notin Busy
    BY <2>1, <2>2
  <2>5. \A i \in DOMAIN free' : free'[i] \notin Busy'
    BY <1>4, <1>14, <2>1, <2>2
  <2>6. ASSUME NEW i \in 1 .. n + Len(free), NEW j \in 1 .. n + Len(free),
               free'[i] = free'[j]
        PROVE  i = j
    <3>1. CASE i \in 1 .. n /\ j \in 1 .. n
      BY <1>11, <1>14, <2>6, <3>1
    <3>2. CASE i \notin 1 .. n /\ j \notin 1 .. n
      <4>1. i - n = j - n
        BY <2>1, <2>2, <2>6, <3>2
      <4>. QED
        BY <1>10, <1>14, <4>1
    <3>3. CASE i \in 1 .. n /\ j \notin 1 .. n
      BY <2>3, <2>4, <2>6, <3>3
    <3>4. CASE i \notin 1 .. n /\ j \in 1 .. n
      BY <2>3, <2>4, <2>6, <3>4
    <3>. QED
      BY <3>1, <3>2, <3>3, <3>4
  <2>. QED
    BY <1>14, <2>5, <2>6 DEF FreeUnused
<1>18. \A d \in Conns, m \in Message :
          Finds(d, m) /\ hash[m.id] \notin ps => Finds(d, m)'
  <2>. SUFFICES ASSUME NEW d \in Conns, NEW m \in Message,
                       Finds(d, m), hash[m.id] \notin ps
                PROVE  Finds(d, m)'
    OBVIOUS
  <2>1. m.id \in Ids
    BY DEF Message
  <2>2. hash[m.id] # 0 /\ hash[m.id] \in Busy
    BY <2>1 DEF Finds, IInv, Indexed
  <2>. QED
    BY <1>6, <1>7, <2>1, <2>2 DEF Finds
<1>. QED
  BY <1>4, <1>5, <1>6, <1>14, <1>15, <1>16, <1>17, <1>18

\* rbtRpc_apply after the callback.
LEMMA ApplyEndStep ==
    ASSUME RemoteCallsAssumption, IInv, ApplyEnd
    PROVE  IInv'
<1>1. applying # 0 /\ applying \in Busy
  BY DEF ApplyEnd, IInv, Applied
<1>2. /\ FreeParams({applying}) /\ applying' = 0
      /\ UNCHANGED <<wires, script, running, answer, calls, breaks>>
  BY DEF ApplyEnd
<1>3. /\ free' \in Seq(1 .. total)
      /\ param' \in [Params -> Param]
      /\ hash' \in [Ids -> Params \cup {0}]
      /\ Busy' = Busy \ {applying}
      /\ Numbered' /\ Indexed' /\ FreeUnused'
      /\ \A d \in Conns, n \in Message :
            Finds(d, n) /\ hash[n.id] \notin {applying} => Finds(d, n)'
  BY <1>1, <1>2, FreeParamsStep
<1>4. TypeOK'
  BY <1>2, <1>3 DEF FreeParams, IInv, TypeOK, wires
<1>5. Applied' /\ ClosedSilent' /\ WireOnce'
  BY <1>1, <1>2 DEF IInv, Applied, ClosedSilent, WireOnce, wires
<1>6. WireFinds'
  <2>. SUFFICES ASSUME NEW d \in Conns
                PROVE  /\ (\A n \in requests[d] : Finds(d, n))'
                       /\ (\A i \in DOMAIN answers[d] : Finds(d, answers[d][i]))'
    BY DEF WireFinds
  <2>1. \A n : Finds(d, n) /\ n.call # param[applying].call => hash[n.id] # applying
    BY DEF Finds
  <2>2. \A n \in requests[d] : n \in Message /\ Finds(d, n) /\ n.call # param[applying].call
    BY <1>1 DEF IInv, TypeOK, WireFinds, WireOnce
  <2>3. \A i \in DOMAIN answers[d] : /\ answers[d][i] \in Message /\ Finds(d, answers[d][i])
                                     /\ answers[d][i].call # param[applying].call
    BY <1>1, LenProperties DEF IInv, TypeOK, WireFinds, WireOnce
  <2>. QED
    BY <1>2, <1>3, <2>1, <2>2, <2>3 DEF wires
<1>. QED
  BY <1>3, <1>4, <1>5, <1>6 DEF IInv

\* rbtRpc_conn_broken.
LEMMA BreakStep ==
    ASSUME RemoteCallsAssumption, IInv, NEW c \in Conns, Break(c)
    PROVE  IInv'
<1>1. OnList(c) \in SUBSET Busy
  BY DEF OnList, Busy, RemoteCallsAssumption
<1>2. /\ FreeParams(OnList(c)) /\ applying = 0
      /\ up' = up \ {c}
      /\ requests' = [requests EXCEPT ![c] = {}]
      /\ answers' = [answers EXCEPT ![c] = <<>>]
      /\ UNCHANGED <<running, applying, answer, calls>>
  BY DEF Break, Loop
<1>3. /\ free' \in Seq(1 .. total)
      /\ param' \in [Params -> Param]
      /\ hash' \in [Ids -> Params \cup {0}]
      /\ Busy' = Busy \ OnList(c)
      /\ Numbered' /\ Indexed' /\ FreeUnused'
      /\ \A d \in Conns, n \in Message :
            Finds(d, n) /\ hash[n.id] \notin OnList(c) => Finds(d, n)'
  BY <1>1, <1>2, FreeParamsStep
<1>4. /\ requests'[c] = {} /\ answers'[c] = <<>>
      /\ \A d \in Conns \ {c} : requests'[d] = requests[d] /\ answers'[d] = answers[d]
  BY <1>2 DEF IInv, TypeOK
<1>5. TypeOK'
  <2>1. requests' \in [Conns -> SUBSET Message] /\ answers' \in [Conns -> Seq(Message)]
    BY <1>2, EmptySeq DEF IInv, TypeOK
  <2>2. script' \in [Scripts -> {"idle", "running", "waiting", "dropped"}]
    BY DEF Break, IInv, TypeOK
  <2>3. breaks' \in 0 .. MaxBreaks
    BY DEF Break, IInv, TypeOK, RemoteCallsAssumption
  <2>4. /\ UNCHANGED <<lastReqId, total>> /\ up' \in SUBSET Conns /\ Busy' \subseteq 1 .. total
    BY <1>2, <1>3 DEF FreeParams, IInv, TypeOK
  <2>. QED
    BY <1>2, <1>3, <2>1, <2>2, <2>3, <2>4 DEF IInv, TypeOK
<1>6. Applied'
  BY <1>2 DEF Applied
<1>7. ClosedSilent'
  BY <1>2, <1>4 DEF IInv, ClosedSilent
<1>8. WireOnce'
  BY <1>2, <1>4 DEF IInv, WireOnce
<1>9. WireFinds'
  <2>. SUFFICES ASSUME NEW d \in Conns
                PROVE  /\ (\A n \in requests[d] : Finds(d, n))'
                       /\ (\A i \in DOMAIN answers[d] : Finds(d, answers[d][i]))'
    BY DEF WireFinds
  <2>1. CASE d = c
    BY <1>4, <2>1
  <2>2. CASE d # c
    <3>1. \A n : Finds(d, n) => hash[n.id] \notin OnList(c)
      BY <2>2 DEF Finds, OnList
    <3>2. \A n \in requests[d] : n \in Message /\ Finds(d, n)
      BY DEF IInv, TypeOK, WireFinds
    <3>3. \A i \in DOMAIN answers[d] : answers[d][i] \in Message /\ Finds(d, answers[d][i])
      BY LenProperties DEF IInv, TypeOK, WireFinds
    <3>. QED
      BY <1>3, <1>4, <2>2, <3>1, <3>2, <3>3
  <2>. QED
    BY <2>1, <2>2
<1>. QED
  BY <1>3, <1>5, <1>6, <1>7, <1>8, <1>9 DEF IInv

\* A structure is used for a connection again.
LEMMA ConnectStep ==
    ASSUME RemoteCallsAssumption, IInv, NEW c \in Conns, Connect(c)
    PROVE  IInv'
<1>1. /\ c \notin up /\ up' = up \cup {c} /\ applying = 0
      /\ param' = [p \in Params |-> IF param[p].conn = c
                                    THEN [param[p] EXCEPT !.conn = Lost] ELSE param[p]]
      /\ UNCHANGED <<lastReqId, free, total, hash, requests, answers, script,
                     running, applying, answer, calls, breaks>>
  BY DEF Connect, Loop
<1>2. \A p \in Params : /\ param'[p] \in Param
                        /\ param'[p].id = param[p].id
                        /\ param'[p].call = param[p].call
                        /\ param'[p].ctx = param[p].ctx
                        /\ param'[p].conn = None <=> param[p].conn = None
                        /\ param[p].conn # c => param'[p] = param[p]
  <2>. SUFFICES ASSUME NEW p \in Params
                PROVE  /\ param'[p] \in Param
                       /\ param'[p].id = param[p].id
                       /\ param'[p].call = param[p].call
                       /\ param'[p].ctx = param[p].ctx
                       /\ param'[p].conn = None <=> param[p].conn = None
                       /\ param[p].conn # c => param'[p] = param[p]
    OBVIOUS
  <2>1. param[p] \in Param
    BY DEF IInv, TypeOK
  <2>2. CASE param[p].conn # c
    BY <1>1, <2>1, <2>2
  <2>3. CASE param[p].conn = c
    <3>1. param'[p] = [param[p] EXCEPT !.conn = Lost]
      BY <1>1, <2>3
    <3>. QED
      BY <2>1, <2>3, <3>1 DEF Param, RemoteCallsAssumption
  <2>. QED
    BY <2>2, <2>3
<1>3. Busy' = Busy
  BY <1>2 DEF Busy
<1>4. TypeOK'
  <2>1. param' \in [Params -> Param]
    BY <1>1, <1>2
  <2>2. up' \in SUBSET Conns
    BY <1>1 DEF IInv, TypeOK
  <2>. QED
    BY <1>1, <1>3, <2>1, <2>2 DEF IInv, TypeOK
<1>5. Indexed'
  <2>1. Busy \subseteq Params
    BY DEF Busy
  <2>. QED
    BY <1>1, <1>2, <1>3, <2>1 DEF IInv, Indexed
<1>6. Numbered' /\ FreeUnused' /\ Applied' /\ ClosedSilent' /\ WireOnce'
  BY <1>1, <1>3 DEF IInv, Numbered, FreeUnused, Applied, ClosedSilent, WireOnce
<1>7. WireFinds'
  <2>. SUFFICES ASSUME NEW d \in Conns
                PROVE  /\ (\A n \in requests[d] : Finds(d, n))'
                       /\ (\A i \in DOMAIN answers[d] : Finds(d, answers[d][i]))'
    BY DEF WireFinds
  <2>1. CASE d = c
    <3>1. requests[c] = {} /\ answers[c] = <<>>
      BY <1>1 DEF IInv, ClosedSilent
    <3>. QED
      BY <1>1, <2>1, <3>1
  <2>2. CASE d # c
    <3>1. \A n \in Message : Finds(d, n) => Finds(d, n)'
      <4>. SUFFICES ASSUME NEW n \in Message, Finds(d, n)
                    PROVE  Finds(d, n)'
        OBVIOUS
      <4>1. hash[n.id] \in Params
        BY DEF Finds, Message, IInv, TypeOK
      <4>. QED
        BY <1>1, <1>2, <2>2, <4>1 DEF Finds
    <3>2. \A n \in requests[d] : n \in Message /\ Finds(d, n)
      BY DEF IInv, TypeOK, WireFinds
    <3>3. \A i \in DOMAIN answers[d] : answers[d][i] \in Message /\ Finds(d, answers[d][i])
      BY LenProperties DEF IInv, TypeOK, WireFinds
    <3>. QED
      BY <1>1, <3>1, <3>2, <3>3
  <2>. QED
    BY <2>1, <2>2
<1>. QED
  BY <1>4, <1>5, <1>6, <1>7 DEF IInv

\* A script makes a call.  Before the ids wrap the id is a new one, and the
\* parameter is not in use.
LEMMA CallStep ==
    ASSUME RemoteCallsAssumption, MaxCalls < ReqMax, IInv,
           NEW s \in Scripts, NEW c \in Conns, Call(s, c)
    PROVE  IInv'
<1>0. PICK k : k = calls + 1
  OBVIOUS
<1>. DEFINE m == [id |-> k, call |-> k]
<1>1. /\ calls \in Nat /\ k \in Calls /\ k \in Ids /\ k < ReqMax /\ calls < MaxCalls
      /\ k \in Nat /\ k \in 1 .. k /\ k \notin 1 .. calls /\ 1 .. calls \subseteq 1 .. k
      /\ k + 1 \in Ids /\ k \in 0 .. MaxCalls
  BY <1>0 DEF Call, IInv, TypeOK, RemoteCallsAssumption, Calls, Ids
<1>2. NewId = k /\ NextReqId = k + 1
  BY <1>0, <1>1 DEF IInv, Numbered, NewId, NextReqId, RemoteCallsAssumption
<1>3. PICK p \in Params :
         /\ NextParam(p)
         /\ param' = [param EXCEPT ![p] = [id |-> k, conn |-> c, ctx |-> s, call |-> k]]
         /\ hash' = [hash EXCEPT ![k] = p]
  BY <1>0, <1>2 DEF Call
<1>4. /\ lastReqId' = k + 1 /\ calls' = k
      /\ running' = None /\ script' = [script EXCEPT ![s] = "waiting"]
      /\ UNCHANGED <<up, answers, applying, answer, breaks>>
      /\ \A d \in Conns : \A n \in requests'[d] :
            n \in requests[d] \/ (d = c /\ n = m /\ c \in up)
      /\ \A d \in Conns : d \notin up => requests'[d] = requests[d]
      /\ requests' \in [Conns -> SUBSET Message]
  <2>1. m \in Message
    BY <1>1 DEF Message
  <2>. QED
    BY <1>0, <1>2, <2>1 DEF Call, IInv, TypeOK
<1>5. /\ p \notin Busy
      /\ p \in 1 .. total' /\ total' \in Nat /\ total <= total' /\ total' <= InitParams + k
      /\ total' \in InitParams .. InitParams + MaxCalls
  <2>1. CASE free = <<>> /\ p = total + 1 /\ total' = p /\ UNCHANGED free
    BY <1>0, <1>1, <2>1 DEF IInv, TypeOK, Numbered, RemoteCallsAssumption
  <2>2. CASE free # <<>> /\ p = Head(free) /\ free' = Tail(free) /\ UNCHANGED total
    <3>1. p = free[1] /\ 1 \in DOMAIN free /\ p \in 1 .. total
      BY <2>2, HeadTailProperties, LenProperties, EmptySeq DEF IInv, TypeOK
    <3>. QED
      BY <1>0, <1>1, <2>2, <3>1 DEF IInv, TypeOK, Numbered, FreeUnused, RemoteCallsAssumption
  <2>. QED
    BY <1>3, <2>1, <2>2 DEF NextParam
<1>6. /\ Busy' = Busy \cup {p}
      /\ \A q \in Params \ {p} : param'[q] = param[q]
      /\ param'[p] = [id |-> k, conn |-> c, ctx |-> s, call |-> k]
  <2>1. /\ \A q \in Params \ {p} : param'[q] = param[q]
        /\ param'[p] = [id |-> k, conn |-> c, ctx |-> s, call |-> k]
    BY <1>3 DEF IInv, TypeOK
  <2>. QED
    BY <2>1 DEF Busy, RemoteCallsAssumption
<1>7. \A i \in Ids : hash[i] # 0 => i \in 1 .. calls /\ i # k /\ hash[i] # p /\ hash[i] \in Busy
  <2>. SUFFICES ASSUME NEW i \in Ids, hash[i] # 0
                PROVE  i \in 1 .. calls /\ i # k /\ hash[i] # p /\ hash[i] \in Busy
    OBVIOUS
  <2>1. hash[i] \in Busy /\ param[hash[i]].id = i
    BY DEF IInv, Indexed
  <2>2. i \in 1 .. calls
    BY <2>1 DEF IInv, Indexed
  <2>. QED
    BY <1>1, <1>5, <2>1, <2>2
<1>8. hash'[k] = p /\ p # 0 /\ \A i \in Ids \ {k} : hash'[i] = hash[i]
  BY <1>1, <1>3 DEF IInv, TypeOK, Params
<1>9. free' \in Seq(1 .. total') /\ FreeUnused'
  <2>1. CASE free = <<>> /\ UNCHANGED free
    BY <2>1, EmptySeq DEF FreeUnused
  <2>2. CASE free # <<>> /\ p = Head(free) /\ free' = Tail(free) /\ UNCHANGED total
    <3>1. /\ free \in Seq(1 .. total) /\ Len(free) \in Nat \ {0}
          /\ DOMAIN free = 1 .. Len(free)
      BY <2>2, LenProperties, EmptySeq DEF IInv, TypeOK
    <3>2. /\ p = free[1]
          /\ Tail(free) \in Seq(1 .. total)
          /\ DOMAIN Tail(free) = 1 .. Len(free) - 1
          /\ \A i \in 1 .. Len(free) - 1 : Tail(free)[i] = free[i + 1]
      BY <2>2, <3>1, HeadTailProperties, LenProperties
    <3>3. \A i \in 1 .. Len(free) - 1 :
             /\ Tail(free)[i] \notin Busy /\ Tail(free)[i] # p
             /\ \A j \in 1 .. Len(free) - 1 : Tail(free)[i] = Tail(free)[j] => i = j
      BY <3>1, <3>2 DEF IInv, FreeUnused
    <3>. QED
      BY <1>6, <2>2, <3>2, <3>3 DEF FreeUnused
  <2>. QED
    BY <1>3, <2>1, <2>2 DEF NextParam
<1>10. TypeOK'
  <2>1. param' \in [Params -> Param] /\ hash' \in [Ids -> Params \cup {0}]
    BY <1>1, <1>3 DEF IInv, TypeOK, Param
  <2>2. lastReqId' \in Ids /\ calls' \in 0 .. MaxCalls
    BY <1>1, <1>4
  <2>3. script' \in [Scripts -> {"idle", "running", "waiting", "dropped"}]
    BY <1>4 DEF IInv, TypeOK
  <2>4. Busy' \subseteq 1 .. total'
    BY <1>5, <1>6 DEF IInv, TypeOK, RemoteCallsAssumption
  <2>. QED
    BY <1>4, <1>5, <1>9, <2>1, <2>2, <2>3, <2>4 DEF IInv, TypeOK
<1>11. Numbered'
  BY <1>1, <1>4, <1>5 DEF Numbered
<1>12. Indexed'
  <2>1. \A q \in Busy : /\ hash'[param'[q].id] = q
                        /\ param'[q].id = param'[q].call
                        /\ param'[q].call \in 1 .. calls'
                        /\ param'[q].ctx \in Scripts
    <3>. SUFFICES ASSUME NEW q \in Busy
                  PROVE  /\ hash'[param[q].id] = q
                         /\ param[q].id = param[q].call
                         /\ param[q].call \in 1 .. calls'
                         /\ param[q].ctx \in Scripts
      BY <1>5, <1>6 DEF Busy
    <3>1. /\ hash[param[q].id] = q
          /\ param[q].id = param[q].call
          /\ param[q].call \in 1 .. calls
          /\ param[q].ctx \in Scripts
      BY DEF IInv, Indexed
    <3>2. param[q].id \in Ids \ {k}
      BY <1>0, <1>1, <3>1 DEF Ids, RemoteCallsAssumption
    <3>. QED
      BY <1>0, <1>1, <1>4, <1>8, <3>1, <3>2
  <2>2. /\ hash'[param'[p].id] = p
        /\ param'[p].id = param'[p].call
        /\ param'[p].call \in 1 .. calls'
        /\ param'[p].ctx \in Scripts
    BY <1>1, <1>4, <1>6, <1>8
  <2>3. \A i \in Ids : hash'[i] # 0 => hash'[i] \in Busy' /\ param'[hash'[i]].id = i
    <3>. SUFFICES ASSUME NEW i \in Ids, hash'[i] # 0
                  PROVE  hash'[i] \in Busy' /\ param'[hash'[i]].id = i
      OBVIOUS
    <3>1. CASE i = k
      BY <1>6, <1>8, <3>1
    <3>2. CASE i # k
      <4>1. hash'[i] = hash[i] /\ hash[i] \in Busy /\ hash[i] # p /\ param[hash[i]].id = i
        BY <1>7, <1>8, <3>2 DEF IInv, Indexed
      <4>. QED
        BY <1>6, <4>1 DEF Busy
    <3>. QED
      BY <3>1, <3>2
  <2>. QED
    BY <1>6, <2>1, <2>2, <2>3 DEF Indexed
<1>13. Applied'
  BY <1>4, <1>5, <1>6 DEF IInv, Applied, Busy
<1>14. ClosedSilent'
  BY <1>4 DEF IInv, ClosedSilent
<1>15. \A d \in Conns, n \in Message : Finds(d, n) => Finds(d, n)' /\ n.call < k
  <2>. SUFFICES ASSUME NEW d \in Conns, NEW n \in Message, Finds(d, n)
                PROVE  Finds(d, n)' /\ n.call < k
    OBVIOUS
  <2>1. n.id \in Ids /\ hash[n.id] \in Busy /\ hash[n.id] # p /\ n.id \in 1 .. calls
    BY <1>7 DEF Finds, Message
  <2>2. hash'[n.id] = hash[n.id] /\ param'[hash[n.id]] = param[hash[n.id]]
    <3>1. n.id # k
      BY <1>1, <2>1
    <3>2. hash'[n.id] = hash[n.id]
      BY <1>8, <2>1, <3>1
    <3>3. hash[n.id] \in Params \ {p}
      BY <2>1 DEF Busy
    <3>. QED
      BY <1>6, <3>2, <3>3
  <2>3. param[hash[n.id]].call \in 1 .. calls
    BY <2>1 DEF IInv, Indexed
  <2>. QED
    BY <1>0, <1>1, <2>2, <2>3 DEF Finds
<1>16. Finds(c, m)'
  BY <1>1, <1>6, <1>8 DEF Finds
<1>17. \A d \in Conns : /\ \A n \in requests[d] : n \in Message /\ Finds(d, n)
                        /\ \A i \in DOMAIN answers[d] :
                              answers[d][i] \in Message /\ Finds(d, answers[d][i])
  BY LenProperties DEF IInv, TypeOK, WireFinds
<1>18. WireFinds'
  <2>. SUFFICES ASSUME NEW d \in Conns
                PROVE  /\ (\A n \in requests[d] : Finds(d, n))'
                       /\ (\A i \in DOMAIN answers[d] : Finds(d, answers[d][i]))'
    BY DEF WireFinds
  <2>1. \A n \in requests'[d] : (n \in Message /\ Finds(d, n)) \/ (d = c /\ n = m)
    BY <1>4, <1>17
  <2>2. (\A n \in requests[d] : Finds(d, n))'
    BY <1>15, <1>16, <2>1
  <2>. QED
    BY <1>4, <1>15, <1>17, <2>2
<1>19. WireOnce'
  <2>. SUFFICES ASSUME NEW d \in Conns
                PROVE  /\ \A n \in requests'[d] : \A i \in DOMAIN answers[d] : answers[d][i] # n
                       /\ \A i, j \in DOMAIN answers[d] :
                             answers[d][i] = answers[d][j] => i = j
                       /\ applying # 0 =>
                             /\ \A n \in requests'[d] : n.call # param'[applying].call
                             /\ \A i \in DOMAIN answers[d] :
                                   answers[d][i].call # param'[applying].call
    BY <1>4 DEF WireOnce
  <2>1. applying # 0 => /\ param'[applying].call = param[applying].call
                        /\ param[applying].call \in 1 .. calls
    BY <1>5, <1>6 DEF IInv, Applied, Indexed, Busy
  <2>2. m.call = k /\ k \notin 1 .. calls
    BY <1>0, <1>1
  <2>3. \A i \in DOMAIN answers[d] : answers[d][i].call < k
    BY <1>15, <1>17
  <2>4. \A i \in DOMAIN answers[d] : answers[d][i] # m
    BY <1>1, <2>2, <2>3 DEF Calls
  <2>5. /\ \A n \in requests[d] : \A i \in DOMAIN answers[d] : answers[d][i] # n
        /\ \A i, j \in DOMAIN answers[d] : answers[d][i] = answers[d][j] => i = j
        /\ applying # 0 => /\ \A n \in requests[d] : n.call # param[applying].call
                           /\ \A i \in DOMAIN answers[d] :
                                 answers[d][i].call # param[applying].call
    BY DEF IInv, WireOnce
  <2>. HIDE DEF m
  <2>. QED
    BY <1>4, <2>1, <2>2, <2>4, <2>5
<1>. QED
  BY <1>9, <1>10, <1>11, <1>12, <1>13, <1>14, <1>18, <1>19 DEF IInv

-----------------------------------------------------------------------------
\* Every step keeps the invariant while the ids have not wrapped.
LEMMA NextIInv ==
    ASSUME RemoteCallsAssumption, MaxCalls < ReqMax, IInv, [Next]_vars
    PROVE  IInv'
<1>1. ASSUME NEW s \in Scripts, StartScript(s) \/ Finish(s) \/ Collect(s)
      PROVE  IInv'
  <2>1. script' \in [Scripts -> {"idle", "running", "waiting", "dropped"}]
    BY <1>1 DEF StartScript, Finish, Collect, IInv, TypeOK
  <2>2. /\ running' \in Scripts \cup {None}
        /\ UNCHANGED <<manager, wires, applying, answer, calls, breaks>>
    BY <1>1 DEF StartScript, Finish, Collect, IInv, TypeOK
  <2>. QED
    BY <2>1, <2>2, ScriptStep
<1>2. ASSUME NEW s \in Scripts, NEW c \in Conns, Call(s, c)
      PROVE  IInv'
  BY <1>2, CallStep
<1>3. ASSUME NEW c \in Conns, NEW m \in requests[c], PeerAnswers(c, m)
      PROVE  IInv'
  BY <1>3, PeerAnswersStep
<1>4. ASSUME NEW c \in Conns, Apply(c) \/ Break(c) \/ Connect(c)
      PROVE  IInv'
  BY <1>4, ApplyStep, BreakStep, ConnectStep
<1>5. CASE ApplyEnd
  BY <1>5, ApplyEndStep
<1>6. CASE UNCHANGED vars
  <2>1. UNCHANGED <<manager, wires, script, running, applying, answer, calls, breaks>>
    BY <1>6 DEF vars
  <2>2. /\ script' \in [Scripts -> {"idle", "running", "waiting", "dropped"}]
        /\ running' \in Scripts \cup {None}
    BY <2>1 DEF IInv, TypeOK
  <2>. QED
    BY <2>1, <2>2, ScriptStep
<1>. QED
  BY <1>1, <1>2, <1>3, <1>4, <1>5, <1>6 DEF Next

\* The invariant of RemoteCalls before the ids wrap.
THEOREM RemoteCallsInv ==
    ASSUME MaxCalls < ReqMax PROVE Spec => []IInv
<1>1. Init => IInv
  BY InitIInv, RemoteCallsAssumption
<1>2. IInv /\ [Next]_vars => IInv'
  BY NextIInv, RemoteCallsAssumption
<1>. QED
  BY <1>1, <1>2, PTL DEF Spec

\* Every variable keeps its type, and no more parameters are allocated than
\* calls were made.
THEOREM RemoteCallsTypeOK ==
    ASSUME MaxCalls < ReqMax PROVE Spec => []TypeOK
<1>1. IInv => TypeOK
  BY DEF IInv
<1>. QED
  BY <1>1, RemoteCallsInv, PTL

\* A callback is given the parameter of the call that its answer is for,
\* although it may make calls of its own before the parameter is given back.
THEOREM RemoteCallsOwnAnswer ==
    ASSUME MaxCalls < ReqMax PROVE Spec => []OwnAnswer
<1>1. IInv => OwnAnswer
  BY DEF IInv, Applied, OwnAnswer
<1>. QED
  BY <1>1, RemoteCallsInv, PTL

\* Every request and answer on its way finds the parameter of its call, on the
\* connection that it was sent over, whatever breaks in the meantime.
THEOREM RemoteCallsAwaited ==
    ASSUME MaxCalls < ReqMax PROVE Spec => []Awaited
<1>1. IInv => Awaited
  BY RangeEquality DEF IInv, TypeOK, WireFinds, Awaited, OnWire, Range
<1>. QED
  BY <1>1, RemoteCallsInv, PTL

-----------------------------------------------------------------------------
(* Accounted, on top of the invariant IInv. *)

\* Accounted, in the parts that a step can disturb: who waits is held; two
\* parameters that are not being applied hold different scripts, which wait; no
\* parameter is lost; and a script that runs is marked as running.
Held == \A s \in Scripts : script[s] = "waiting" => \E p \in Busy : Holds(p, s)
Alone == \A p, q \in Busy \ {applying} : param[p].ctx = param[q].ctx => p = q
Holding == \A p \in Busy \ {applying} : script[param[p].ctx] = "waiting"
Sized == Len(free) + Cardinality(Busy) = total
Runs == running # None => script[running] = "running"

Accounts == Held /\ Alone /\ Holding /\ Sized /\ Runs

LEMMA BusyFinite == /\ IsFiniteSet(Busy) /\ Cardinality(Busy) \in Nat
                    /\ \A ps \in SUBSET Busy : IsFiniteSet(ps) /\ Cardinality(ps) \in Nat
<1>1. IsFiniteSet(Params)
  BY FS_Interval, RemoteCallsAssumption DEF RemoteCallsAssumption, Params
<1>2. \A ps \in SUBSET Params : IsFiniteSet(ps) /\ Cardinality(ps) \in Nat
  BY <1>1, FS_Subset, FS_CardinalityType
<1>. QED
  BY <1>2 DEF Busy

LEMMA InitAccounts == ASSUME Init PROVE Accounts
<1>1. Busy = {}
  BY DEF Init, Busy, Unused
<1>2. Len(free) = InitParams
  <2>1. free = [i \in 1 .. InitParams |-> InitParams + 1 - i] /\ InitParams \in Nat
    BY RemoteCallsAssumption DEF Init, RemoteCallsAssumption
  <2>. QED
    BY <2>1
<1>3. Sized
  BY <1>1, <1>2, FS_EmptySet, RemoteCallsAssumption DEF Init, Sized, RemoteCallsAssumption
<1>. QED
  BY <1>1, <1>3 DEF Init, Accounts, Held, Alone, Holding, Runs

\* Steps that leave the parameters alone and make nobody wait or stop waiting.
LEMMA QuietKeeps ==
    ASSUME IInv, Accounts, UNCHANGED <<free, total, param, applying>>,
           \A s \in Scripts : script'[s] = "waiting" <=> script[s] = "waiting",
           Runs'
    PROVE  Accounts'
<1>1. Busy' = Busy
  BY DEF Busy
<1>2. \A p \in Busy : param[p].ctx \in Scripts
  BY DEF IInv, Indexed
<1>. QED
  BY <1>1, <1>2 DEF Accounts, Held, Alone, Holding, Sized, Holds

\* A call takes a parameter that nobody uses, for a script that runs.
LEMMA CallAccounts ==
    ASSUME IInv, Accounts, NEW s \in Scripts, NEW c \in Conns, Call(s, c) PROVE Accounts'
<1>1. PICK p \in Params :
         /\ NextParam(p)
         /\ param' = [param EXCEPT ![p] = [id |-> NewId, conn |-> c, ctx |-> s, call |-> calls + 1]]
  BY DEF Call
<1>2. /\ running = s /\ running' = None /\ script' = [script EXCEPT ![s] = "waiting"]
      /\ applying' = applying /\ script[s] = "running"
  BY RemoteCallsAssumption DEF Call, Accounts, Runs, RemoteCallsAssumption
<1>3. p \notin Busy /\ Len(free') - total' = Len(free) - total - 1
  <2>1. CASE free = <<>> /\ p = total + 1 /\ total' = p /\ UNCHANGED free
    <3>1. total \in Nat /\ Busy \subseteq 1 .. total /\ Len(free) \in Nat
      BY <2>1, RemoteCallsAssumption DEF IInv, TypeOK, RemoteCallsAssumption
    <3>. QED
      BY <2>1, <3>1
  <2>2. CASE free # <<>> /\ p = Head(free) /\ free' = Tail(free) /\ UNCHANGED total
    <3>1. free \in Seq(1 .. total) /\ total \in Nat
      BY RemoteCallsAssumption DEF IInv, TypeOK, RemoteCallsAssumption
    <3>2. p = free[1] /\ 1 \in DOMAIN free /\ Len(Tail(free)) = Len(free) - 1 /\ Len(free) \in Nat
      BY <2>2, <3>1, HeadTailProperties, LenProperties, EmptySeq
    <3>. QED
      BY <2>2, <3>1, <3>2 DEF IInv, FreeUnused
  <2>. QED
    BY <1>1, <2>1, <2>2 DEF NextParam
<1>4. /\ Busy' = Busy \cup {p}
      /\ \A q \in Params \ {p} : param'[q] = param[q]
      /\ param'[p].ctx = s
  <2>1. /\ \A q \in Params \ {p} : param'[q] = param[q]
        /\ param'[p] = [id |-> NewId, conn |-> c, ctx |-> s, call |-> calls + 1]
    BY <1>1 DEF IInv, TypeOK
  <2>. QED
    BY <2>1, RemoteCallsAssumption DEF Busy, RemoteCallsAssumption
<1>5. /\ Busy \subseteq Params /\ applying # p
      /\ \A q \in Busy : param'[q] = param[q] /\ q # p /\ param[q].ctx \in Scripts
  BY <1>3, <1>4 DEF Busy, IInv, Indexed, Applied, Params
<1>6. \A q \in Busy \ {applying} : param[q].ctx # s
  BY <1>2 DEF Accounts, Holding
<1>7. Held'
  <2>. SUFFICES ASSUME NEW t \in Scripts, script'[t] = "waiting"
                PROVE  \E q \in Busy' : param'[q].ctx = t /\ q # applying'
    BY DEF Held, Holds
  <2>1. CASE t = s
    BY <1>2, <1>4, <1>5, <2>1
  <2>2. CASE t # s
    <3>1. script[t] = "waiting"
      BY <1>2, <2>2
    <3>2. PICK q \in Busy : param[q].ctx = t /\ q # applying
      BY <3>1 DEF Accounts, Held, Holds
    <3>. QED
      BY <1>2, <1>4, <1>5, <3>2
  <2>. QED
    BY <2>1, <2>2
<1>8. Alone'
  BY <1>2, <1>4, <1>5, <1>6 DEF Accounts, Alone
<1>9. Holding'
  BY <1>2, <1>4, <1>5 DEF Accounts, Holding, IInv, TypeOK
<1>10. Sized'
  <2>1. Cardinality(Busy') = Cardinality(Busy) + 1
    BY <1>3, <1>4, BusyFinite, FS_AddElement
  <2>2. Len(free) \in Nat /\ total \in Int /\ Len(free') \in Int /\ total' \in Int
    <3>1. free \in Seq(1 .. total) /\ total \in Nat
      BY RemoteCallsAssumption DEF IInv, TypeOK, RemoteCallsAssumption
    <3>2. Len(free) \in Nat /\ (free # <<>> => Len(Tail(free)) \in Nat)
      BY <3>1
    <3>. QED
      BY <1>1, <3>1, <3>2 DEF NextParam
  <2>3. Cardinality(Busy) \in Nat
    BY BusyFinite
  <2>. QED
    BY <1>3, <2>1, <2>2, <2>3 DEF Accounts, Sized
<1>11. Runs'
  BY <1>2 DEF Runs
<1>. QED
  BY <1>7, <1>8, <1>9, <1>10, <1>11 DEF Accounts

\* The script of an answer stops waiting, and its parameter does not count any more.
LEMMA ApplyAccounts ==
    ASSUME IInv, Accounts, NEW c \in Conns, Apply(c) PROVE Accounts'
<1>. DEFINE p == hash[Head(answers[c]).id]
<1>1. /\ applying = 0 /\ running = None /\ UNCHANGED <<free, total, param>>
      /\ Head(answers[c]).id \in Ids
  <2>1. answers[c] \in Seq(Message) /\ answers[c] # <<>>
    BY DEF Apply, IInv, TypeOK
  <2>2. Head(answers[c]) \in Message
    BY <2>1, HeadTailProperties
  <2>. QED
    BY <2>2 DEF Apply, Loop, manager, Message
<1>. HIDE DEF p
<1>2. CASE p = 0
  <2>1. UNCHANGED <<script, running, applying>>
    BY <1>2 DEF Apply, p
  <2>. QED
    BY <1>1, <2>1, QuietKeeps DEF Accounts, Runs
<1>3. CASE p # 0
  <2>1. /\ p \in Busy /\ param[p].ctx \in Scripts
        /\ applying' = p /\ running' = param[p].ctx /\ script' = [script EXCEPT ![param[p].ctx] = "running"]
    BY <1>1, <1>3 DEF Apply, p, IInv, Indexed
  <2>2. Busy' = Busy /\ \A q \in Busy : param[q].ctx \in Scripts /\ q # 0
    BY <1>1 DEF Busy, IInv, Indexed, Params
  <2>3. \A t \in Scripts : script'[t] = IF t = param[p].ctx THEN "running" ELSE script[t]
    BY <2>1 DEF IInv, TypeOK
  <2>4. Held'
    BY <1>1, <2>1, <2>2, <2>3 DEF Accounts, Held, Holds
  <2>5. Alone' /\ Sized'
    BY <1>1, <2>1, <2>2 DEF Accounts, Alone, Sized
  <2>6. Holding'
    BY <1>1, <2>1, <2>2, <2>3 DEF Accounts, Alone, Holding
  <2>7. Runs'
    BY <2>1, <2>3 DEF Runs
  <2>. QED
    BY <2>4, <2>5, <2>6, <2>7 DEF Accounts
<1>. QED
  BY <1>2, <1>3

\* What is given back goes to the free list.
LEMMA FreeSized ==
    ASSUME IInv, Sized, NEW ps \in SUBSET Busy, FreeParams(ps), Busy' = Busy \ ps
    PROVE  Sized'
<1>1. PICK order \in SetToSeqs(ps) : free' = order \o free
  BY DEF FreeParams
<1>2. free \in Seq(1 .. total) /\ total' = total /\ total \in Nat
  BY RemoteCallsAssumption DEF FreeParams, IInv, TypeOK, RemoteCallsAssumption
<1>3. Cardinality(ps) \in Nat /\ IsFiniteSet(Busy) /\ Cardinality(Busy) \in Nat
  BY BusyFinite
<1>4. order \in [1 .. Cardinality(ps) -> 1 .. total]
  <2>1. ps \subseteq 1 .. total
    BY DEF IInv, TypeOK
  <2>. QED
    BY <2>1 DEF SetToSeqs
<1>5. order \in Seq(1 .. total) /\ Len(order) = Cardinality(ps)
  <2>1. order \in Seq(1 .. total)
    BY <1>3, <1>4, SeqDef
  <2>. QED
    BY <1>3, <1>4, <2>1, LenProperties
<1>6. Len(free') = Cardinality(ps) + Len(free) /\ Len(free) \in Nat
  <2>1. order \in Seq(1 .. total) /\ free \in Seq(1 .. total)
    BY <1>2, <1>5
  <2>2. Len(order \o free) = Len(order) + Len(free)
    BY <2>1, ConcatProperties
  <2>. QED
    BY <1>1, <1>5, <2>1, <2>2, LenProperties
<1>7. Busy \cap ps = ps
  OBVIOUS
<1>8. Cardinality(Busy \ ps) = Cardinality(Busy) - Cardinality(ps)
  BY <1>3, <1>7, FS_Difference
<1>. QED
  BY <1>2, <1>3, <1>6, <1>8 DEF Sized

\* The parameter that was applied holds nobody when it is given back.
LEMMA ApplyEndAccounts == ASSUME IInv, Accounts, ApplyEnd PROVE Accounts'
<1>1. /\ applying \in Busy /\ FreeParams({applying}) /\ applying' = 0
      /\ UNCHANGED <<script, running, calls>>
  BY DEF ApplyEnd, IInv, Applied
<1>2. Busy' = Busy \ {applying} /\ \A p \in Busy \ {applying} : param'[p] = param[p]
  BY <1>1, FreeParamsStep, RemoteCallsAssumption
<1>3. \A p \in Busy : p # 0
  BY DEF Busy, Params
<1>4. Sized'
  BY <1>1, <1>2, FreeSized DEF Accounts
<1>5. Held'
  BY <1>1, <1>2, <1>3 DEF Accounts, Held, Holds
<1>6. Alone' /\ Holding' /\ Runs'
  BY <1>1, <1>2, <1>3 DEF Accounts, Alone, Holding, Runs
<1>. QED
  BY <1>4, <1>5, <1>6 DEF Accounts

\* The scripts whose parameters were on the list are left to the collector.
LEMMA BreakAccounts == ASSUME IInv, Accounts, NEW c \in Conns, Break(c) PROVE Accounts'
<1>1. /\ OnList(c) \in SUBSET Busy /\ FreeParams(OnList(c)) /\ applying = 0 /\ running = None
      /\ UNCHANGED <<running, applying, calls>>
  BY RemoteCallsAssumption DEF Break, Loop, OnList, Busy, RemoteCallsAssumption
<1>2. Busy' = Busy \ OnList(c) /\ \A p \in Busy \ OnList(c) : param'[p] = param[p]
  BY <1>1, FreeParamsStep, RemoteCallsAssumption
<1>3. \A s \in Scripts : script'[s] = IF \E p \in OnList(c) : param[p].ctx = s THEN "dropped" ELSE script[s]
  BY DEF Break
<1>4. \A p \in Busy : p # 0 /\ param[p].ctx \in Scripts
  BY DEF Busy, Params, IInv, Indexed
<1>5. Sized'
  BY <1>1, <1>2, FreeSized DEF Accounts
<1>6. Held'
  <2>. SUFFICES ASSUME NEW s \in Scripts, script'[s] = "waiting"
                PROVE  \E q \in Busy' : param'[q].ctx = s /\ q # applying'
    BY DEF Held, Holds
  <2>1. script[s] = "waiting" /\ \A p \in OnList(c) : param[p].ctx # s
    BY <1>3
  <2>2. PICK q \in Busy : param[q].ctx = s /\ q # applying
    BY <2>1 DEF Accounts, Held, Holds
  <2>. QED
    BY <1>1, <1>2, <2>1, <2>2
<1>7. Alone'
  BY <1>1, <1>2, <1>4 DEF Accounts, Alone
<1>8. Holding'
  <2>. SUFFICES ASSUME NEW p \in Busy \ OnList(c) PROVE script'[param[p].ctx] = "waiting"
    BY <1>2 DEF Holding
  <2>1. \A q \in OnList(c) : param[q].ctx # param[p].ctx
    BY <1>1, <1>4 DEF Accounts, Alone
  <2>. QED
    BY <1>1, <1>3, <1>4, <2>1 DEF Accounts, Holding
<1>9. Runs'
  BY <1>1 DEF Runs
<1>. QED
  BY <1>5, <1>6, <1>7, <1>8, <1>9 DEF Accounts

LEMMA ConnectAccounts == ASSUME IInv, Accounts, NEW c \in Conns, Connect(c) PROVE Accounts'
<1>1. /\ param' = [p \in Params |-> IF param[p].conn = c
                                    THEN [param[p] EXCEPT !.conn = Lost] ELSE param[p]]
      /\ UNCHANGED <<free, total, script, running, applying>>
  BY DEF Connect
<1>2. \A p \in Params : /\ param'[p].ctx = param[p].ctx
                        /\ param'[p].conn = None <=> param[p].conn = None
  <2>. SUFFICES ASSUME NEW p \in Params
                PROVE  param'[p].ctx = param[p].ctx /\ (param'[p].conn = None <=> param[p].conn = None)
    OBVIOUS
  <2>1. param[p] \in Param /\ Lost # None /\ c # None
    BY RemoteCallsAssumption DEF IInv, TypeOK, RemoteCallsAssumption
  <2>2. CASE param[p].conn = c
    BY <1>1, <2>1, <2>2 DEF Param
  <2>3. CASE param[p].conn # c
    BY <1>1, <2>3
  <2>. QED
    BY <2>2, <2>3
<1>3. Busy' = Busy /\ Busy \subseteq Params
  BY <1>2 DEF Busy
<1>. QED
  BY <1>1, <1>2, <1>3 DEF Accounts, Held, Alone, Holding, Sized, Runs, Holds

-----------------------------------------------------------------------------
LEMMA NextAccounts == ASSUME IInv, Accounts, [Next]_vars PROVE Accounts'
<1>1. ASSUME NEW s \in Scripts, StartScript(s) \/ Finish(s) \/ Collect(s) PROVE Accounts'
  <2>1. UNCHANGED <<free, total, param, applying>>
    BY <1>1 DEF StartScript, Finish, Collect, manager
  <2>2. \A t \in Scripts : script'[t] = "waiting" <=> script[t] = "waiting"
    BY <1>1, RemoteCallsAssumption
       DEF StartScript, Finish, Collect, IInv, TypeOK, Accounts, Runs, RemoteCallsAssumption
  <2>3. Runs'
    BY <1>1 DEF StartScript, Finish, Collect, Loop, IInv, TypeOK, Runs
  <2>. QED
    BY <2>1, <2>2, <2>3, QuietKeeps
<1>2. ASSUME NEW s \in Scripts, NEW c \in Conns, Call(s, c) PROVE Accounts'
  BY <1>2, CallAccounts
<1>3. ASSUME NEW c \in Conns, NEW m \in requests[c], PeerAnswers(c, m) PROVE Accounts'
  BY <1>3, QuietKeeps DEF PeerAnswers, manager, Accounts, Runs
<1>4. ASSUME NEW c \in Conns, Apply(c) \/ Break(c) \/ Connect(c) PROVE Accounts'
  BY <1>4, ApplyAccounts, BreakAccounts, ConnectAccounts
<1>5. CASE ApplyEnd
  BY <1>5, ApplyEndAccounts
<1>6. CASE UNCHANGED vars
  BY <1>6, QuietKeeps DEF vars, manager, Accounts, Runs
<1>. QED
  BY <1>1, <1>2, <1>3, <1>4, <1>5, <1>6 DEF Next

\* A script that waits is held by exactly one parameter, a busy parameter holds a
\* script that waits unless its answer is being handled, and get_next_param,
\* free_param and the loss of a connection neither lose a parameter nor free it twice.
THEOREM RemoteCallsAccounted ==
    ASSUME MaxCalls < ReqMax PROVE Spec => []Accounted
<1>1. Init => IInv /\ Accounts
  BY InitIInv, InitAccounts, RemoteCallsAssumption
<1>2. IInv /\ Accounts /\ [Next]_vars => (IInv /\ Accounts)'
  BY NextIInv, NextAccounts, RemoteCallsAssumption
<1>3. IInv /\ Accounts => Accounted
  <2>. SUFFICES ASSUME IInv, Accounts PROVE Accounted
    OBVIOUS
  <2>1. ASSUME NEW s \in Scripts, script[s] = "waiting"
        PROVE  \E p \in Busy : Holds(p, s) /\ \A q \in Busy : Holds(q, s) => q = p
    BY <2>1 DEF Accounts, Held, Alone, Holds
  <2>. QED
    BY <2>1 DEF Accounts, Holding, Sized, IInv, FreeUnused, Accounted
<1>. QED
  BY <1>1, <1>2, <1>3, PTL DEF Spec

=============================================================================
