-------------------------- MODULE CollectorProofs --------------------------
(***************************************************************************)
(* The collector for any objects and any number of handlers.  IInv is the     *)
(* invariant of tri-colour marking: while marking, what is ahead of it and   *)
(* has the mark of the cycle waits in the queue or has been scanned, and     *)
(* what a scanned object refers to is marked; the stores of the program keep *)
(* this because they mark what they store.  FInv says what the last cycle of *)
(* a full collection leaves: no more than what is ahead from the root, the   *)
(* contexts put away and the stable objects.                                 *)
(***************************************************************************)
EXTENDS Collector, TLAPS

Grey == queue \cup scanned              \* marked as far as the cycle is concerned
Kept == {white, "stable"}               \* the marks that a sweep leaves

\* What marking will find: what can be reached, and what can be from the objects that
\* wait in the queue, which the program may have lost meanwhile.
Ahead == ReachFrom({Root} \cup held \cup queue)

\* What waits in the queue will not be swept; between two marking phases only
\* stable objects wait there.
Waiting == \A o \in queue : mark[o] \in Kept /\ (status # "MARK" => mark[o] = "stable")

\* Nothing ahead was released, and between two marking phases all of it has been
\* marked.
Intact == \A o \in Ahead : mark[o] # "free"
Solid == status # "MARK" => \A o \in Ahead : mark[o] \in Kept

\* While marking: where it starts, what has its colour, and what follows from
\* having been scanned.
Begun == {Root} \cup held \subseteq Grey
Coloured == \A o \in Ahead \cap Parents : (mark[o] = white => o \in Grey) /\ (o \in Grey => mark[o] \in Kept)
Followed == \A o \in Ahead \cap scanned : \A p \in refs[o] :
                (p \in Parents => p \in Grey) /\ (p \in Strings => mark[p] \in Kept)
Marking == Begun /\ Coloured /\ Followed

IInv == GcTypeOK /\ Intact /\ Waiting /\ Solid /\ (status = "MARK" => Marking)
-----------------------------------------------------------------------------
(* Ahead is the least set that has the root, the contexts put away and the  *)
(* queue, and what its members refer to.                                     *)

LEMMA AheadBegins ==
    ASSUME GcTypeOK
    PROVE Ahead \subseteq Objects /\ {Root} \cup held \cup queue \subseteq Ahead
  BY DEF Ahead, ReachFrom, GcTypeOK, Objects, Parents

LEMMA AheadFollows ==
    ASSUME GcTypeOK, NEW p \in Ahead \cap Parents, NEW o \in refs[p] PROVE o \in Ahead
  <1>1. o \in Objects
    BY DEF GcTypeOK
  <1>2. ASSUME NEW closed \in SUBSET Objects, {Root} \cup held \cup queue \subseteq closed,
               \A q \in closed \cap Parents : refs[q] \subseteq closed
        PROVE o \in closed
    BY <1>2 DEF Ahead, ReachFrom
  <1> QED
    BY <1>1, <1>2 DEF Ahead, ReachFrom

LEMMA AheadWithin ==
    ASSUME NEW C \in SUBSET Objects, {Root} \cup held' \cup queue' \subseteq C,
           \A p \in C \cap Parents : refs'[p] \subseteq C
    PROVE Ahead' \subseteq C
  BY DEF Ahead, ReachFrom, Objects, Parents

LEMMA AheadInside ==
    ASSUME NEW C \in SUBSET Objects, {Root} \cup held \cup queue \subseteq C,
           \A p \in C \cap Parents : refs[p] \subseteq C
    PROVE Ahead \subseteq C
  BY DEF Ahead, ReachFrom

LEMMA AheadStays == ASSUME UNCHANGED <<refs, held, queue>> PROVE Ahead' = Ahead
  BY DEF Ahead, ReachFrom, Objects, Parents

\* A step that refers to nothing new has nothing new ahead of it.
LEMMA AheadShrinks ==
    ASSUME GcTypeOK, held' \cup queue' \subseteq Ahead,
           \A p \in Ahead \cap Parents : refs'[p] \subseteq Ahead
    PROVE Ahead' \subseteq Ahead
  <1>1. Ahead \in SUBSET Objects /\ {Root} \cup held' \cup queue' \subseteq Ahead
    BY AheadBegins
  <1> QED
    BY <1>1, AheadWithin

\* What can be reached is ahead, and so is not free.
LEMMA ReachAhead == ASSUME GcTypeOK PROVE Reach \subseteq Ahead
  BY DEF Reach, Ahead, ReachFrom

LEMMA WhiteChanges == ASSUME white \in Whites PROVE OtherWhite \in Whites \ {white}
  BY DEF OtherWhite, Whites

LEMMA UnusedIsFree == ASSUME Room PROVE Unused \in Tables /\ mark[Unused] = "free"
  BY DEF Room, Unused
-----------------------------------------------------------------------------
(* Types. *)

LEMMA MarkedType ==
    ASSUME GcTypeOK, NEW w \in Whites, NEW set \in SUBSET Objects
    PROVE /\ Marked(mark, w, set) \in [Objects -> {"free", "stable"} \cup Whites]
          /\ Queued(mark, w, set) \subseteq Parents
  BY DEF GcTypeOK, Marked, Queued

LEMMA ChildrenType == ASSUME GcTypeOK, NEW o \in Parents PROVE Children(o) \subseteq Objects
  BY DEF GcTypeOK, Children, Objects

LEMMA HandlerType ==
    ASSUME GcTypeOK, Handler PROVE handlers' \in 0..MaxHandlers
  BY CollectorAssumption DEF GcTypeOK, Handler

LEMMA TypeStep == ASSUME GcTypeOK, [CollectorNext]_gcVars PROVE GcTypeOK'
  <1> USE DEF GcTypeOK, Objects, Parents, heap
  <1>1. ASSUME NEW t \in Parents, NEW o \in Objects, StoreValue(t, o) PROVE GcTypeOK'
    BY <1>1, HandlerType, MarkedType DEF StoreValue, MarkAll
  <1>2. ASSUME NEW t \in Parents, NEW o \in Objects, EraseValue(t, o) PROVE GcTypeOK'
    BY <1>2, HandlerType DEF EraseValue
  <1>3. ASSUME NEW t \in Parents, StoreTable(t) PROVE GcTypeOK'
    BY <1>3, HandlerType, UnusedIsFree DEF StoreTable, Link
  <1>4. ASSUME NEW t \in Parents, NEW s \in Strings, StoreString(t, s) PROVE GcTypeOK'
    <2>1. CASE mark[s] = "free"
      BY <1>4, <2>1, HandlerType DEF StoreString, Link
    <2>2. CASE mark[s] # "free"
      BY <1>4, <2>2, HandlerType, MarkedType DEF StoreString, MarkAll
    <2> QED
      BY <2>1, <2>2
  <1>5. ASSUME NEW o \in Objects, MakeStable(o) PROVE GcTypeOK'
    BY <1>5, HandlerType DEF MakeStable
  <1>6. ASSUME NEW used \in SUBSET Objects, SaveContext(used) PROVE GcTypeOK'
    BY <1>6, HandlerType, UnusedIsFree, MarkedType DEF SaveContext
  <1>7. ASSUME NEW c \in Tables, EndContext(c) PROVE GcTypeOK'
    BY <1>7, HandlerType DEF EndContext
  <1>8. ASSUME NEW s \in Strings, CreateZoneAgain(s) PROVE GcTypeOK'
    BY <1>8, HandlerType DEF CreateZoneAgain, ReadName, Link
  <1>9. ASSUME NEW s \in Strings, NEW z \in Zones, CreateZone(z, s) PROVE GcTypeOK'
    BY <1>9, HandlerType DEF CreateZone, ReadName, Link
  <1>10. CASE StartFull
    BY <1>10 DEF StartFull
  <1>11. CASE GcBegin
    BY <1>11, MarkedType, WhiteChanges DEF GcBegin
  <1>12. CASE MarkStep
    BY <1>12, MarkedType, ChildrenType DEF MarkStep
  <1>13. CASE SweepStep
    BY <1>13 DEF SweepStep
  <1>14. CASE UNCHANGED gcVars
    BY <1>14 DEF gcVars
  <1> QED
    BY <1>1, <1>2, <1>3, <1>4, <1>5, <1>6, <1>7, <1>8, <1>9, <1>10, <1>11, <1>12, <1>13, <1>14
       DEF CollectorNext, Collect
-----------------------------------------------------------------------------
(* The steps of the program. *)

\* A store of what can be reached marks it, and reaches nothing new.
LEMMA StoreValueKeeps ==
    ASSUME IInv, GcTypeOK', NEW t \in Parents, NEW o \in Objects, StoreValue(t, o)
    PROVE IInv'
  <1> USE DEF IInv
  <1>1. /\ o \in Ahead /\ t \in Ahead /\ refs' = [refs EXCEPT ![t] = @ \cup {o}]
        /\ mark' = Marked(mark, white, {o}) /\ queue' = queue \cup Queued(mark, white, {o})
        /\ UNCHANGED <<white, status, held, scanned>>
    BY ReachAhead DEF StoreValue, MarkAll
  <1>2. Ahead' \subseteq Ahead
    <2>1. held' \cup queue' \subseteq Ahead
      BY <1>1, AheadBegins DEF Queued
    <2>2. \A p \in Ahead \cap Parents : refs'[p] \subseteq Ahead
      BY <1>1, AheadFollows DEF GcTypeOK
    <2> QED
      BY <2>1, <2>2, AheadShrinks
  <1>3. /\ mark'[o] \in Kept
        /\ \A x \in Objects \ {o} : mark'[x] = mark[x]
        /\ mark[o] = "stable" => mark'[o] = "stable"
    BY <1>1 DEF GcTypeOK, Marked, Kept
  <1>4. queue' = queue \cup (IF o \in Parents /\ mark[o] # white THEN {o} ELSE {})
    BY <1>1 DEF Queued
  <1>5. Kept' = Kept /\ Ahead \subseteq Objects
    BY <1>1, AheadBegins DEF Kept
  <1>6. Intact'
    BY <1>2, <1>3, <1>5 DEF Intact, Kept, Whites, GcTypeOK
  <1>7. Waiting'
    BY <1>1, <1>3, <1>4, <1>5 DEF Waiting, Solid, Kept, GcTypeOK, Objects
  <1>8. Solid'
    BY <1>1, <1>2, <1>3, <1>5 DEF Solid
  <1>9. ASSUME status = "MARK" PROVE Marking'
    <2>1. Begun'
      BY <1>1, <1>4, <1>9 DEF Marking, Begun, Grey
    <2>2. Coloured'
      BY <1>1, <1>2, <1>3, <1>4, <1>5, <1>9 DEF Marking, Coloured, Grey
    <2>3. ASSUME NEW x \in Ahead' \cap scanned', NEW p \in refs'[x]
          PROVE (p \in Parents => p \in Grey') /\ (p \in Strings => mark'[p] \in Kept')
      <3>1. x \in Ahead \cap scanned /\ (p \in refs[x] \/ p = o) /\ p \in Objects
        BY <1>1, <1>2, <2>3 DEF GcTypeOK
      <3>2. CASE p = o
        BY <1>1, <1>3, <1>4, <1>5, <1>9, <3>2 DEF Marking, Coloured, Grey
      <3>3. CASE p # o
        BY <1>1, <1>3, <1>4, <1>5, <1>9, <3>1, <3>3 DEF Marking, Followed, Grey
      <3> QED
        BY <3>1, <3>2, <3>3
    <2> QED
      BY <2>1, <2>2, <2>3 DEF Marking, Followed
  <1> QED
    BY <1>1, <1>6, <1>7, <1>8, <1>9

\* What only takes references away.
LEMMA LessKeeps ==
    ASSUME IInv, GcTypeOK', UNCHANGED <<mark, white, status, queue, scanned>>, held' \subseteq held,
           \A p \in Parents : refs'[p] \subseteq refs[p]
    PROVE IInv'
  <1> USE DEF IInv
  <1>1. Ahead' \subseteq Ahead /\ Ahead \subseteq Objects
    BY AheadBegins, AheadFollows, AheadWithin DEF GcTypeOK
  <1>2. Intact' /\ Waiting' /\ Solid'
    BY <1>1 DEF Intact, Waiting, Solid, Kept
  <1>3. ASSUME status = "MARK" PROVE Marking'
    BY <1>1, <1>3 DEF Marking, Begun, Coloured, Followed, Grey, Kept, GcTypeOK
  <1> QED
    BY <1>2, <1>3

\* A new object: it has the colour of the cycle and counts as scanned, and what it
\* refers to has been marked.
LEMMA NewKeeps ==
    ASSUME IInv, GcTypeOK', NEW u \in Objects, mark[u] = "free", mark'[u] = white,
           NEW used \in SUBSET Ahead, mark' = [Marked(mark, white, used) EXCEPT ![u] = white],
           queue' = queue \cup Queued(mark, white, used),
           scanned' = scanned \cup ({u} \cap Parents), UNCHANGED <<white, status>>,
           held \subseteq held', held' \subseteq held \cup ({u} \cap Parents),
           \A p \in Parents \ {u} : refs'[p] \subseteq refs[p] \cup {u},
           u \in Parents => refs'[u] \subseteq used
    PROVE IInv'
  <1> USE DEF IInv
  <1>1. u \notin Ahead /\ u \notin queue /\ Ahead \subseteq Objects
    BY AheadBegins DEF Intact, Waiting, Kept, Whites, GcTypeOK
  <1>2. Ahead' \subseteq Ahead \cup {u}
    <2>1. Ahead \cup {u} \in SUBSET Objects /\ {Root} \cup held' \cup queue' \subseteq Ahead \cup {u}
      BY AheadBegins DEF Queued
    <2>2. \A p \in (Ahead \cup {u}) \cap Parents : refs'[p] \subseteq Ahead \cup {u}
      BY AheadFollows
    <2> QED
      BY <2>1, <2>2, AheadWithin
  <1>3. /\ mark'[u] = white
        /\ \A x \in Objects \ {u} : mark'[x] = (IF x \in used /\ mark[x] # "stable" THEN white ELSE mark[x])
    BY DEF Marked
  <1>4. queue' = queue \cup {x \in used \cap Parents : mark[x] # white}
    BY DEF Queued
  <1>5. Kept' = Kept
    BY DEF Kept
  <1>6. Intact'
    BY <1>1, <1>2, <1>3 DEF Intact, GcTypeOK, Whites
  <1>7. Waiting'
    BY <1>1, <1>3, <1>4, <1>5 DEF Waiting, Solid, Kept, GcTypeOK, Objects
  <1>8. Solid'
    BY <1>1, <1>2, <1>3, <1>5 DEF Solid, Kept
  <1>9. ASSUME status = "MARK" PROVE Marking'
    <2>1. Begun'
      BY <1>9 DEF Marking, Begun, Grey
    <2>2. Coloured'
      BY <1>1, <1>2, <1>3, <1>4, <1>5, <1>9 DEF Marking, Coloured, Grey, Kept, GcTypeOK
    <2>3. ASSUME NEW x \in Ahead' \cap scanned', NEW p \in refs'[x]
          PROVE (p \in Parents => p \in Grey') /\ (p \in Strings => mark'[p] \in Kept')
      <3>1. p \in Objects
        BY <2>3 DEF GcTypeOK
      <3>2. CASE p = u
        BY <1>3, <1>5, <3>2 DEF Grey, Kept
      <3>3. CASE x = u /\ p # u
        BY <1>1, <1>3, <1>4, <1>5, <1>9, <2>3, <3>1, <3>3 DEF Marking, Coloured, Grey, Kept, GcTypeOK
      <3>4. CASE x # u /\ p # u
        <4>1. x \in Ahead \cap scanned /\ p \in refs[x]
          BY <1>2, <2>3, <3>4 DEF GcTypeOK
        <4> QED
          BY <1>3, <1>4, <1>5, <1>9, <3>1, <3>4, <4>1 DEF Marking, Followed, Grey, Kept
      <3> QED
        BY <3>2, <3>3, <3>4
    <2> QED
      BY <2>1, <2>2, <2>3 DEF Marking, Followed
  <1> QED
    BY <1>6, <1>7, <1>8, <1>9

\* A string that is found or made for a store, or for the name of a zone.
LEMMA StoreStringKeeps ==
    ASSUME IInv, GcTypeOK', NEW t \in Parents, NEW s \in Strings, StoreString(t, s)
    PROVE IInv'
  <1> USE DEF IInv
  <1>0. s \in Objects /\ s \notin Parents /\ refs' = [refs EXCEPT ![t] = @ \cup {s}] /\ t \in Ahead
    BY CollectorAssumption, ReachAhead DEF Objects, Parents, StoreString
  <1>1. /\ mark'[s] \in Kept
        /\ \A x \in Objects \ {s} : mark'[x] = mark[x]
        /\ UNCHANGED <<queue, scanned, white, status, held>>
    <2>1. UNCHANGED <<white, status, held>>
      BY DEF StoreString
    <2>2. CASE mark[s] = "free"
      <3>1. mark' = [mark EXCEPT ![s] = white] /\ queue' = queue /\ scanned' = scanned \cup ({s} \cap Parents)
        BY <2>2 DEF StoreString, Link
      <3>2. scanned' = scanned
        BY <1>0, <3>1
      <3>3. mark'[s] = white /\ \A x \in Objects \ {s} : mark'[x] = mark[x]
        BY <1>0, <3>1 DEF GcTypeOK
      <3> QED
        BY <2>1, <3>1, <3>2, <3>3 DEF Kept
    <2>3. CASE mark[s] # "free"
      <3>1. mark' = Marked(mark, white, {s}) /\ queue' = queue \cup Queued(mark, white, {s}) /\ scanned' = scanned
        BY <2>3 DEF StoreString, MarkAll
      <3>2. queue' = queue
        BY <1>0, <3>1 DEF Queued
      <3>3. mark'[s] \in Kept /\ \A x \in Objects \ {s} : mark'[x] = mark[x]
        BY <1>0, <3>1 DEF Marked, Kept
      <3> QED
        BY <2>1, <3>1, <3>2, <3>3
    <2> QED
      BY <2>2, <2>3
  <1>2. Ahead' \subseteq Ahead \cup {s} /\ Ahead \subseteq Objects
    <2>1. Ahead \cup {s} \in SUBSET Objects /\ {Root} \cup held' \cup queue' \subseteq Ahead \cup {s}
      BY <1>0, <1>1, AheadBegins
    <2>2. \A p \in (Ahead \cup {s}) \cap Parents : refs'[p] \subseteq Ahead \cup {s}
      BY <1>0, AheadFollows DEF GcTypeOK
    <2> QED
      BY <2>1, <2>2, AheadWithin, AheadBegins
  <1>3. Kept' = Kept /\ Grey' = Grey
    BY <1>1 DEF Kept, Grey
  <1>4. Intact'
    BY <1>1, <1>2 DEF Intact, Kept, Whites, GcTypeOK
  <1>5. Waiting' /\ Solid'
    BY <1>0, <1>1, <1>2, <1>3 DEF Waiting, Solid, GcTypeOK, Objects
  <1>6. ASSUME status = "MARK" PROVE Marking'
    <2>1. Begun' /\ Coloured'
      BY <1>0, <1>1, <1>2, <1>3, <1>6 DEF Marking, Begun, Coloured, Objects
    <2>2. ASSUME NEW x \in Ahead' \cap scanned', NEW p \in refs'[x]
          PROVE (p \in Parents => p \in Grey') /\ (p \in Strings => mark'[p] \in Kept')
      <3>1. x \in Ahead \cap scanned /\ (p \in refs[x] \/ p = s) /\ p \in Objects
        BY <1>0, <1>1, <1>2, <2>2 DEF GcTypeOK
      <3> QED
        BY <1>0, <1>1, <1>3, <1>6, <3>1 DEF Marking, Followed
    <2> QED
      BY <2>1, <2>2 DEF Marking, Followed
  <1> QED
    BY <1>1, <1>4, <1>5, <1>6

\* Reading a name changes at most a string that did not exist.
LEMMA ReadNameKeeps ==
    ASSUME IInv, GcTypeOK', NEW s \in Strings, ReadName(s), UNCHANGED <<white, status, queue, refs, held>>
    PROVE IInv'
  <1> USE DEF IInv
  <1>1. /\ s \in Objects /\ s \notin Parents /\ Ahead' = Ahead /\ Ahead \subseteq Objects
        /\ scanned' = scanned
    BY CollectorAssumption, AheadStays, AheadBegins DEF Objects, Parents, ReadName, Link
  <1>2. \A x \in Objects : mark'[x] = mark[x] \/ (x = s /\ mark[x] = "free" /\ mark'[x] = white)
    BY <1>1 DEF ReadName, Link, GcTypeOK
  <1>3. \A x \in Ahead : mark'[x] = mark[x]
    BY <1>1, <1>2 DEF Intact
  <1>4. Intact' /\ Solid'
    BY <1>1, <1>3 DEF Intact, Solid, Kept
  <1>5. Waiting'
    BY <1>1, <1>2 DEF Waiting, Kept, GcTypeOK, Objects
  <1>6. ASSUME status = "MARK" PROVE Marking'
    BY <1>1, <1>3, <1>6, AheadFollows DEF Marking, Begun, Coloured, Followed, Grey, Kept, GcTypeOK
  <1> QED
    BY <1>4, <1>5, <1>6

\* A stable object keeps its place, and whether it was marked does not matter.
LEMMA MakeStableKeeps ==
    ASSUME IInv, GcTypeOK', NEW o \in Objects, MakeStable(o) PROVE IInv'
  <1> USE DEF IInv
  <1>1. /\ Ahead' = Ahead /\ Ahead \subseteq Objects
        /\ mark' = [mark EXCEPT ![o] = "stable"]
        /\ UNCHANGED <<white, status, queue, refs, held, scanned>>
    BY AheadStays, AheadBegins DEF MakeStable
  <1>2. mark'[o] = "stable" /\ \A x \in Objects \ {o} : mark'[x] = mark[x]
    BY <1>1 DEF GcTypeOK
  <1>3. Intact' /\ Solid' /\ Waiting'
    BY <1>1, <1>2 DEF Intact, Solid, Waiting, Kept, GcTypeOK, Objects
  <1>4. ASSUME status = "MARK" PROVE Marking'
    <2>1. Begun' /\ Coloured'
      BY <1>1, <1>2, <1>4 DEF Marking, Begun, Coloured, Grey, Kept, GcTypeOK, Whites
    <2>2. Followed'
      BY <1>1, <1>2, <1>4 DEF Marking, Followed, Grey, Kept, GcTypeOK
    <2> QED
      BY <2>1, <2>2 DEF Marking
  <1> QED
    BY <1>1, <1>3, <1>4
-----------------------------------------------------------------------------
(* The steps of the collector. *)

\* What was solid under the old colour is what has to be found under the new one.
LEMMA GcBeginKeeps == ASSUME IInv, GcTypeOK', GcBegin PROVE IInv'
  <1> USE DEF IInv
  <1> DEFINE F == {Root} \cup held
  <1>1. /\ white' \in Whites /\ white' # white /\ white' # "stable" /\ white # "stable"
        /\ status = "PAUSE" /\ status' = "MARK" /\ scanned' = {}
        /\ mark' = Marked(mark, white', F) /\ queue' = queue \cup Queued(mark, white', F)
        /\ UNCHANGED <<refs, held>>
    BY WhiteChanges DEF GcBegin, GcTypeOK, Whites
  <1>2. Ahead' \subseteq Ahead /\ Ahead \subseteq Objects /\ F \subseteq Ahead /\ F \subseteq Parents
    <2>1. Ahead \subseteq Objects /\ F \subseteq Ahead /\ F \subseteq Parents /\ queue \subseteq Ahead
      BY AheadBegins DEF GcTypeOK, Parents
    <2>2. held' \cup queue' \subseteq Ahead
      BY <1>1, <2>1 DEF Queued
    <2>3. \A p \in Ahead \cap Parents : refs'[p] \subseteq Ahead
      BY <1>1, AheadFollows
    <2> QED
      BY <2>1, <2>2, <2>3, AheadShrinks
  <1>3. \A x \in Objects : mark'[x] = (IF x \in F /\ mark[x] # "stable" THEN white' ELSE mark[x])
    BY <1>1 DEF Marked
  <1>4. \A x \in Ahead : mark[x] \in {white, "stable"}
    BY <1>1 DEF Solid, Kept
  <1>5. Grey' = queue \cup F /\ queue' = queue \cup F
    BY <1>1, <1>2, <1>4 DEF Grey, Queued
  <1>6. Kept' = {white', "stable"}
    BY DEF Kept
  <1>7. Intact'
    BY <1>1, <1>2, <1>3 DEF Intact, Whites
  <1>8. Waiting'
    <2> SUFFICES ASSUME NEW x \in queue' PROVE mark'[x] \in Kept'
      BY <1>1 DEF Waiting
    <2>1. CASE x \in F
      BY <1>2, <1>3, <1>6, <2>1
    <2>2. CASE x \notin F
      BY <1>1, <1>3, <1>5, <1>6, <2>2 DEF Waiting, GcTypeOK, Objects
    <2> QED
      BY <2>1, <2>2
  <1>9. Begun' /\ Followed'
    BY <1>1, <1>5 DEF Begun, Followed
  <1>10. Coloured'
    BY <1>1, <1>2, <1>3, <1>4, <1>5, <1>6, <1>8 DEF Coloured, Waiting
  <1> QED
    BY <1>1, <1>7, <1>8, <1>9, <1>10 DEF Solid, Marking

\* At the end of marking what is scanned and marked is closed, so it is all that
\* can be reached.
LEMMA MarkStepKeeps == ASSUME IInv, GcTypeOK', MarkStep PROVE IInv'
  <1> USE DEF IInv
  <1>1. PICK o \in queue :
            /\ mark' = Marked(mark, white, Children(o))
            /\ queue' = (queue \ {o}) \cup Queued(mark, white, Children(o))
            /\ scanned' = scanned \cup {o}
            /\ status' = IF queue' = {} THEN "SWEEP" ELSE status
    BY DEF MarkStep
  <1>2. status = "MARK" /\ Marking /\ UNCHANGED <<white, refs, held>> /\ o \in Parents
    BY DEF MarkStep, GcTypeOK
  <1>3. Ahead' \subseteq Ahead /\ Ahead \subseteq Objects /\ Kept' = Kept
    <2>1. Ahead \subseteq Objects /\ held \cup queue \subseteq Ahead
      BY AheadBegins
    <2>2. Children(o) \cap Parents \subseteq refs[o]
      BY CollectorAssumption DEF Children, GcTypeOK, Parents
    <2>3. refs[o] \subseteq Ahead
      BY <1>2, <2>1, AheadFollows
    <2>4. held' \cup queue' \subseteq Ahead
      BY <1>1, <1>2, <2>1, <2>2, <2>3 DEF Queued
    <2>5. \A p \in Ahead \cap Parents : refs'[p] \subseteq Ahead
      BY <1>2, AheadFollows
    <2> QED
      BY <1>2, <2>1, <2>4, <2>5, AheadShrinks DEF Kept
  <1> DEFINE Ch == Children(o)
  <1>4. /\ \A x \in Objects : mark'[x] = (IF x \in Ch /\ mark[x] # "stable" THEN white ELSE mark[x])
        /\ Ch \subseteq Objects /\ refs[o] \subseteq Ch
    BY <1>1, <1>2, ChildrenType DEF Marked, Children
  <1>5. Grey' = Grey \cup {x \in Ch \cap Parents : mark[x] # white}
    BY <1>1 DEF Grey, Queued
  <1>6. Intact'
    BY <1>3, <1>4 DEF Intact, GcTypeOK, Whites
  <1>7. \A x \in queue' : mark'[x] \in Kept'
    <2> SUFFICES ASSUME NEW x \in queue' PROVE mark'[x] \in Kept
      BY <1>3
    <2>1. (x \in queue \/ x \in Ch) /\ x \in Objects
      BY <1>1, <1>2, <1>4 DEF GcTypeOK, Objects, Queued
    <2> QED
      BY <1>4, <2>1 DEF Waiting, Kept
  <1>8. Begun'
    BY <1>2, <1>5 DEF Marking, Begun
  <1>9. Coloured'
    <2> SUFFICES ASSUME NEW x \in Ahead \cap Parents
                 PROVE (mark'[x] = white => x \in Grey') /\ (x \in Grey' => mark'[x] \in Kept)
      BY <1>2, <1>3 DEF Coloured
    <2>1. CASE x \in Ch
      BY <1>2, <1>3, <1>4, <1>5, <2>1 DEF Marking, Coloured, Kept
    <2>2. CASE x \notin Ch
      BY <1>2, <1>3, <1>4, <1>5, <2>2 DEF Marking, Coloured
    <2> QED
      BY <2>1, <2>2
  <1>10. ASSUME NEW x \in Ahead \cap scanned', NEW p \in refs[x]
         PROVE (p \in Parents => p \in Grey') /\ (p \in Strings => mark'[p] \in Kept)
    <2>0. x \in Parents /\ p \in Objects /\ p \in Ahead
      BY <1>1, <1>2, AheadFollows, AheadBegins DEF GcTypeOK
    <2>1. CASE x = o
      BY <1>2, <1>4, <1>5, <2>0, <2>1 DEF Marking, Coloured, Kept
    <2>2. CASE x # o
      BY <1>1, <1>2, <1>4, <1>5, <2>0, <2>2 DEF Marking, Followed, Kept
    <2> QED
      BY <2>1, <2>2
  <1>11. Followed'
    BY <1>2, <1>3, <1>10 DEF Followed
  <1>12. CASE queue' = {}
    <2> DEFINE C == {x \in Ahead : (x \in Parents => x \in scanned') /\ (x \in Strings => mark'[x] \in Kept)}
    <2>1. Grey' = scanned'
      BY <1>12 DEF Grey
    <2>2. {Root} \cup held \subseteq C
      BY <1>2, <1>8, <2>1, AheadBegins, CollectorAssumption DEF Begun, GcTypeOK, Parents
    <2>3. ASSUME NEW p \in C \cap Parents, NEW x \in refs[p] PROVE x \in C
      <3>1. p \in Ahead \cap scanned' /\ x \in Ahead
        BY <1>2, <2>3, AheadFollows
      <3> QED
        BY <1>10, <2>1, <2>3, <3>1
    <2>4. C \in SUBSET Objects
      BY <1>3
    <2>5. (\A p \in C \cap Parents : refs'[p] \subseteq C) /\ {Root} \cup held' \cup queue' \subseteq C
      BY <1>2, <1>12, <2>2, <2>3
    <2> HIDE DEF C
    <2>6. Ahead' \subseteq C
      BY <2>4, <2>5, AheadWithin
    <2>7. ASSUME NEW x \in Ahead' PROVE mark'[x] \in Kept'
      <3>1. x \in C /\ (x \in Parents \/ x \in Strings)
        BY <1>3, <2>6, <2>7 DEF Objects
      <3>2. CASE x \in Parents
        <4>1. x \in Grey'
          BY <2>1, <3>1, <3>2 DEF C
        <4> QED
          BY <1>9, <2>7, <3>2, <4>1 DEF Coloured
      <3>3. CASE x \in Strings
        BY <1>3, <3>1, <3>3 DEF C
      <3> QED
        BY <3>1, <3>2, <3>3
    <2> QED
      BY <1>1, <1>6, <1>12, <2>7 DEF Solid, Waiting
  <1>13. CASE queue' # {}
    BY <1>1, <1>2, <1>6, <1>7, <1>8, <1>9, <1>13, <1>11 DEF Solid, Waiting, Marking
  <1> QED
    BY <1>12, <1>13

\* A sweep takes nothing that was marked.
LEMMA SweepStepKeeps == ASSUME IInv, GcTypeOK', SweepStep PROVE IInv'
  <1> USE DEF IInv
  <1>1. /\ status = "SWEEP" /\ status' \in {"SWEEP", "PAUSE"}
        /\ UNCHANGED <<white, queue, refs, held, scanned>>
    BY DEF SweepStep
  <1>2. Ahead' = Ahead /\ Ahead \subseteq Objects /\ Kept' = Kept
    BY <1>1, AheadStays, AheadBegins DEF Kept
  <1>3. \A x \in Objects : mark[x] \in Kept => mark'[x] = mark[x]
    BY DEF SweepStep, Released, Kept, GcTypeOK
  <1>4. Intact' /\ Solid'
    BY <1>1, <1>2, <1>3 DEF Intact, Solid
  <1>5. Waiting'
    BY <1>1, <1>2, <1>3 DEF Waiting, GcTypeOK, Objects
  <1> QED
    BY <1>1, <1>4, <1>5

-----------------------------------------------------------------------------
LEMMA BeginsSafe == CollectorInit => IInv
  <1> SUFFICES ASSUME CollectorInit PROVE IInv
    OBVIOUS
  <1>1. GcTypeOK
    <2>1. mark \in [Objects -> {"free", "stable"} \cup Whites]
      BY DEF CollectorInit, Whites
    <2>2. refs \in [Parents -> SUBSET Objects]
      BY CollectorAssumption DEF CollectorInit, Objects, Parents
    <2>3. handlers \in 0..MaxHandlers
      <3>1. handlers = 0 /\ MaxHandlers \in Nat
        BY CollectorAssumption DEF CollectorInit
      <3> QED
        BY <3>1
    <2>4. name \in [Zones -> Strings \cup {NoName}]
      BY DEF CollectorInit
    <2>5. /\ white \in Whites /\ status = "PAUSE" /\ full = "no" /\ queue = {} /\ held = {} /\ gray = {}
          /\ gclist \subseteq Objects /\ scanned \subseteq Parents
      BY CollectorAssumption DEF CollectorInit, Whites, Objects, Parents
    <2> QED
      BY <2>1, <2>2, <2>3, <2>4, <2>5 DEF GcTypeOK
  <1>2. Ahead \subseteq {Root} \cup Old
    <2> DEFINE C == {Root} \cup Old
    <2>1. C \in SUBSET Objects /\ {Root} \cup held \cup queue \subseteq C
      BY CollectorAssumption DEF CollectorInit, Objects, Parents
    <2>2. \A p \in C \cap Parents : refs[p] \subseteq C
      BY DEF CollectorInit
    <2> QED
      BY <2>1, <2>2, AheadInside
  <1>3. \A o \in Ahead : mark[o] = white
    BY <1>1, <1>2, AheadBegins DEF CollectorInit
  <1>4. status = "PAUSE" /\ queue = {} /\ white # "free"
    BY DEF CollectorInit
  <1> QED
    BY <1>1, <1>3, <1>4 DEF IInv, Intact, Waiting, Solid, Kept

LEMMA KeepsSafe == IInv /\ [CollectorNext]_gcVars => IInv'
  <1> SUFFICES ASSUME IInv, [CollectorNext]_gcVars PROVE IInv'
    OBVIOUS
  <1>0. GcTypeOK /\ GcTypeOK'
    BY TypeStep DEF IInv
  <1>1. ASSUME NEW t \in Parents, NEW o \in Objects, StoreValue(t, o) PROVE IInv'
    BY <1>0, <1>1, StoreValueKeeps
  <1>2. ASSUME NEW t \in Parents, NEW o \in Objects, EraseValue(t, o) PROVE IInv'
    BY <1>0, <1>2, LessKeeps DEF EraseValue, heap, GcTypeOK
  <1>3. ASSUME NEW t \in Parents, StoreTable(t) PROVE IInv'
    <2> DEFINE u == Unused
    <2>1. u \in Tables /\ mark[u] = "free"
      BY <1>3, UnusedIsFree DEF StoreTable
    <2>2. /\ u \in Objects /\ t # u /\ t \in Parents
          /\ mark' = [mark EXCEPT ![u] = white] /\ queue' = queue
          /\ scanned' = scanned \cup ({u} \cap Parents)
          /\ refs' = [refs EXCEPT ![t] = @ \cup {u}, ![u] = {}]
          /\ UNCHANGED <<white, status, held>>
      BY <1>0, <1>3, <2>1, ReachAhead DEF StoreTable, Link, IInv, Intact, Objects, Parents
    <2> HIDE DEF u
    <2>3. mark'[u] = white /\ mark = Marked(mark, white, {}) /\ Queued(mark, white, {}) = {}
      BY <1>0, <2>2 DEF Marked, Queued, GcTypeOK
    <2>4. refs'[u] = {} /\ \A p \in Parents \ {u} : refs'[p] \subseteq refs[p] \cup {u}
      BY <1>0, <2>1, <2>2 DEF GcTypeOK, Parents
    <2>5. /\ mark' = [Marked(mark, white, {}) EXCEPT ![u] = white]
          /\ queue' = queue \cup Queued(mark, white, {})
      BY <2>2, <2>3
    <2> QED
      BY <1>0, <2>1, <2>2, <2>3, <2>4, <2>5, NewKeeps
  <1>4. ASSUME NEW t \in Parents, NEW s \in Strings, StoreString(t, s) PROVE IInv'
    BY <1>0, <1>4, StoreStringKeeps
  <1>5. ASSUME NEW o \in Objects, MakeStable(o) PROVE IInv'
    BY <1>0, <1>5, MakeStableKeeps
  <1>6. ASSUME NEW used \in SUBSET Objects, SaveContext(used) PROVE IInv'
    <2> DEFINE u == Unused
    <2>1. u \in Tables /\ mark[u] = "free"
      BY <1>6, UnusedIsFree DEF SaveContext
    <2>2. /\ u \in Objects /\ used \subseteq Ahead /\ u \in Parents
          /\ mark' = [Marked(mark, white, used) EXCEPT ![u] = white]
          /\ queue' = queue \cup Queued(mark, white, used)
          /\ scanned' = scanned \cup {u} /\ held' = held \cup {u}
          /\ refs' = [refs EXCEPT ![u] = used]
          /\ UNCHANGED <<white, status>>
      BY <1>0, <1>6, <2>1, ReachAhead DEF SaveContext, Objects, Parents
    <2> HIDE DEF u
    <2>3. mark'[u] = white
      BY <2>2 DEF Marked
    <2>4. refs'[u] = used /\ \A p \in Parents \ {u} : refs'[p] \subseteq refs[p] \cup {u}
      BY <1>0, <2>1, <2>2 DEF GcTypeOK
    <2>5. scanned' = scanned \cup ({u} \cap Parents) /\ held \subseteq held' /\ held' \subseteq held \cup ({u} \cap Parents)
      BY <2>2
    <2> QED
      BY <1>0, <2>1, <2>2, <2>3, <2>4, <2>5, NewKeeps
  <1>7. ASSUME NEW c \in Tables, EndContext(c) PROVE IInv'
    BY <1>0, <1>7, LessKeeps DEF EndContext, heap
  <1>8. ASSUME NEW s \in Strings, CreateZoneAgain(s) PROVE IInv'
    BY <1>0, <1>8, ReadNameKeeps DEF CreateZoneAgain
  <1>9. ASSUME NEW s \in Strings, NEW z \in Zones, CreateZone(z, s) PROVE IInv'
    BY <1>0, <1>9, ReadNameKeeps DEF CreateZone
  <1>10. CASE StartFull
    BY <1>0, <1>10, LessKeeps DEF StartFull, heap
  <1>11. CASE GcBegin
    BY <1>0, <1>11, GcBeginKeeps
  <1>12. CASE MarkStep
    BY <1>0, <1>12, MarkStepKeeps
  <1>13. CASE SweepStep
    BY <1>0, <1>13, SweepStepKeeps
  <1>14. CASE UNCHANGED gcVars
    BY <1>0, <1>14, LessKeeps DEF gcVars
  <1> QED
    BY <1>1, <1>2, <1>3, <1>4, <1>5, <1>6, <1>7, <1>8, <1>9, <1>10, <1>11, <1>12, <1>13, <1>14
       DEF CollectorNext, Collect

\* The invariant of tri-colour marking holds all the time: between the steps of
\* rbtC_auto_gc, whatever the handlers of the program store.
THEOREM CollectorInv == CollectorSpec => []IInv
  BY BeginsSafe, KeepsSafe, PTL DEF CollectorSpec

\* Marks, lists and references have their types: in particular the queue only has
\* objects with a gc_traverse, which is what rbtC_loop calls.
THEOREM CollectorTypes == CollectorSpec => []GcTypeOK
  <1>1. IInv => GcTypeOK
    BY DEF IInv
  <1> QED
    BY <1>1, CollectorInv, PTL

\* rbtC_loop releases nothing that the program can still get at from its root or
\* from the context of a script that waits, for any objects, references and strings.
THEOREM CollectorSafe == CollectorSpec => []Safe
  <1>1. IInv => Safe
    BY ReachAhead DEF IInv, Intact, Safe
  <1> QED
    BY <1>1, CollectorInv, PTL
-----------------------------------------------------------------------------
(* What a full collection leaves. *)

Names == {name[z] : z \in Zones} \ {NoName}

\* What a full collection is to keep.
Wanted == ReachFrom({Root} \cup held \cup {p \in Parents : mark[p] = "stable"})

\* Every object with a colour is in one of the two lists, or is the name of a zone;
\* what has been swept has a mark that is kept, and there is nothing to sweep between
\* two cycles.
Listed == \A o \in Objects : mark[o] \in Whites => o \in gclist \cup gray \cup Names
Swept == \A o \in gclist : mark[o] \in Kept
Drained == status = "PAUSE" => gray = {}

\* The last cycle of a full collection marks nothing but what is wanted.
OnlyWanted ==
    full = "whole" /\ status # "PAUSE" =>
        /\ \A o \in Objects : mark[o] = white => o \in Wanted \cup Names
        /\ status = "MARK" => queue \subseteq Wanted

FInv == Listed /\ Swept /\ Drained /\ OnlyWanted

LEMMA WantedBegins ==
    ASSUME GcTypeOK
    PROVE /\ Wanted \subseteq Objects
          /\ {Root} \cup held \cup {p \in Parents : mark[p] = "stable"} \subseteq Wanted
  BY DEF Wanted, ReachFrom, GcTypeOK, Objects, Parents

LEMMA WantedFollows ==
    ASSUME GcTypeOK, NEW p \in Wanted \cap Parents, NEW o \in refs[p] PROVE o \in Wanted
  <1> DEFINE F == {Root} \cup held \cup {q \in Parents : mark[q] = "stable"}
  <1>1. o \in Objects
    BY DEF GcTypeOK
  <1>2. Wanted = ReachFrom(F)
    BY DEF Wanted
  <1> HIDE DEF F
  <1>3. ASSUME NEW closed \in SUBSET Objects, F \subseteq closed,
               \A q \in closed \cap Parents : refs[q] \subseteq closed
        PROVE o \in closed
    BY <1>2, <1>3 DEF ReachFrom
  <1> QED
    BY <1>1, <1>2, <1>3 DEF ReachFrom

\* Only the program changes what is wanted: no step of the collector adds or takes
\* away references, contexts or stable objects.
LEMMA WantedStays ==
    ASSUME UNCHANGED <<refs, held>>, \A p \in Parents : mark'[p] = "stable" <=> mark[p] = "stable"
    PROVE Wanted' = Wanted
  <1>1. {p \in Parents : mark'[p] = "stable"} = {p \in Parents : mark[p] = "stable"}
    OBVIOUS
  <1> QED
    BY <1>1 DEF Wanted, ReachFrom, Objects, Parents

\* The mark of an object that existed never becomes that of none, and it is only ever
\* an object that existed that is marked.
LEMMA MarkedKeeps ==
    ASSUME GcTypeOK, NEW set \in SUBSET Objects, NEW S, \A o \in set \ S : mark[o] # "free",
           mark' = Marked(mark, white, set), white' = white, gclist' = gclist, gray' = gray,
           UNCHANGED name, Listed, Swept, S \subseteq Names
    PROVE Listed' /\ Swept'
  <1>1. \A x \in Objects : mark'[x] = (IF x \in set /\ mark[x] # "stable" THEN white ELSE mark[x])
    BY DEF Marked
  <1>2. Names' = Names /\ Kept' = Kept
    BY DEF Names, Kept
  <1>3. Listed'
    BY <1>1, <1>2 DEF Listed, GcTypeOK, Whites
  <1>4. Swept'
    BY <1>1, <1>2 DEF Swept, Kept, GcTypeOK
  <1> QED
    BY <1>3, <1>4

\* A new object is put in the list, with the colour of the cycle.
LEMMA LinkedKeeps ==
    ASSUME GcTypeOK, GcTypeOK', NEW u \in Objects, mark[u] = "free", mark'[u] = white,
           \A x \in Objects \ {u} : mark'[x] = mark[x] \/ (mark[x] \in Whites /\ mark'[x] = white),
           gclist' = gclist \cup {u}, UNCHANGED <<white, gray>>, Names \subseteq Names',
           Listed, Swept
    PROVE Listed' /\ Swept'
  <1>1. Kept' = Kept
    BY DEF Kept
  <1>2. Listed'
    BY DEF Listed, GcTypeOK, Whites
  <1>3. Swept'
    BY <1>1 DEF Swept, Kept, GcTypeOK
  <1> QED
    BY <1>2, <1>3

\* The program only runs when there is no full collection, so it is asked for the
\* lists alone.
LEMMA ProgramKeeps ==
    ASSUME Handler, full' = full, UNCHANGED <<status, gray>>, Drained PROVE Drained' /\ OnlyWanted'
  BY DEF Handler, Drained, OnlyWanted

\* A name that is read is that of a string that was there, or of a new one.
LEMMA ReadNameLists ==
    ASSUME GcTypeOK, GcTypeOK', NEW s \in Strings, ReadName(s), UNCHANGED <<white, gray>>,
           Names \subseteq Names', Listed, Swept
    PROVE Listed' /\ Swept'
  <1>1. CASE mark[s] = "free"
    <2>1. mark' = [mark EXCEPT ![s] = white] /\ gclist' = gclist \cup {s} /\ s \in Objects
      BY <1>1 DEF ReadName, Link, Objects
    <2>2. mark'[s] = white /\ \A x \in Objects \ {s} : mark'[x] = mark[x]
      BY <2>1 DEF GcTypeOK
    <2> QED
      BY <1>1, <2>1, <2>2, LinkedKeeps
  <1>2. CASE mark[s] # "free"
    BY <1>2 DEF ReadName, Listed, Swept, Kept
  <1> QED
    BY <1>1, <1>2

\* The steps of the program.
LEMMA ProgramExact ==
    ASSUME IInv, GcTypeOK', FInv, CollectorNext, ~StartFull, ~Collect PROVE FInv'
  <1>0. GcTypeOK /\ (\A o \in Reach : o \in Objects /\ mark[o] # "free") /\ Listed /\ Swept /\ Drained
    BY AheadBegins, ReachAhead DEF IInv, Intact, FInv
  <1>1. ASSUME NEW t \in Parents, NEW o \in Objects, StoreValue(t, o) PROVE FInv'
    <2>1. mark[o] # "free" /\ Handler /\ full' = full /\ UNCHANGED <<white, status, gclist, gray, name>>
      BY <1>0, <1>1 DEF StoreValue
    <2>2. mark' = Marked(mark, white, {o}) /\ {o} \in SUBSET Objects
      BY <1>1 DEF StoreValue, MarkAll
    <2>3. Listed' /\ Swept'
      BY <1>0, <2>1, <2>2, MarkedKeeps
    <2> QED
      BY <1>0, <2>1, <2>3, ProgramKeeps DEF FInv
  <1>2. ASSUME NEW t \in Parents, NEW o \in Objects, EraseValue(t, o) PROVE FInv'
    BY <1>0, <1>2, ProgramKeeps DEF EraseValue, heap, FInv, Listed, Swept, Kept, Names
  <1>3. ASSUME NEW t \in Parents, StoreTable(t) PROVE FInv'
    <2>1. Unused \in Objects /\ mark[Unused] = "free"
      BY <1>3, UnusedIsFree DEF StoreTable, Objects, Parents
    <2>2. /\ mark' = [mark EXCEPT ![Unused] = white] /\ gclist' = gclist \cup {Unused}
          /\ Handler /\ full' = full /\ UNCHANGED <<white, status, gray, name>>
      BY <1>3 DEF StoreTable, Link
    <2>3. mark'[Unused] = white /\ \A x \in Objects \ {Unused} : mark'[x] = mark[x]
      BY <1>0, <2>1, <2>2 DEF GcTypeOK
    <2>4. Names \subseteq Names'
      BY <2>2 DEF Names
    <2>5. Listed' /\ Swept'
      BY <1>0, <2>1, <2>2, <2>3, <2>4, LinkedKeeps
    <2> QED
      BY <1>0, <2>2, <2>5, ProgramKeeps DEF FInv
  <1>4. ASSUME NEW t \in Parents, NEW s \in Strings, StoreString(t, s) PROVE FInv'
    <2>1. s \in Objects /\ Handler /\ full' = full /\ UNCHANGED <<white, status, gray, name>>
      BY <1>4 DEF StoreString, Objects
    <2>2. CASE mark[s] = "free"
      <3>1. ReadName(s) /\ Names' = Names
        BY <1>4, <2>1, <2>2 DEF StoreString, ReadName, Names
      <3>2. Listed' /\ Swept'
        BY <1>0, <2>1, <3>1, ReadNameLists
      <3> QED
        BY <1>0, <2>1, <3>2, ProgramKeeps DEF FInv
    <2>3. CASE mark[s] # "free"
      <3>1. mark' = Marked(mark, white, {s}) /\ gclist' = gclist /\ {s} \in SUBSET Objects
        BY <1>4, <2>1, <2>3 DEF StoreString, MarkAll
      <3>2. Listed' /\ Swept'
        BY <1>0, <2>1, <2>3, <3>1, MarkedKeeps
      <3> QED
        BY <1>0, <2>1, <3>2, ProgramKeeps DEF FInv
    <2> QED
      BY <2>2, <2>3
  <1>5. ASSUME NEW o \in Objects, MakeStable(o) PROVE FInv'
    <2>1. /\ mark' = [mark EXCEPT ![o] = "stable"] /\ Handler /\ full' = full
          /\ UNCHANGED <<white, status, gclist, gray, name>>
      BY <1>5 DEF MakeStable
    <2>2. mark'[o] = "stable" /\ \A x \in Objects \ {o} : mark'[x] = mark[x]
      BY <1>0, <2>1 DEF GcTypeOK
    <2>3. Names' = Names /\ Kept' = Kept
      BY <2>1 DEF Names, Kept
    <2>4. Listed'
      BY <1>0, <2>1, <2>2, <2>3 DEF Listed, Whites
    <2>5. Swept'
      BY <1>0, <2>1, <2>2, <2>3 DEF Swept, Kept, GcTypeOK
    <2> QED
      BY <1>0, <2>1, <2>4, <2>5, ProgramKeeps DEF FInv
  <1>6. ASSUME NEW used \in SUBSET Objects, SaveContext(used) PROVE FInv'
    <2>1. Unused \in Objects /\ mark[Unused] = "free"
      BY <1>6, UnusedIsFree DEF SaveContext, Objects, Parents
    <2>2. /\ mark' = [Marked(mark, white, used) EXCEPT ![Unused] = white] /\ gclist' = gclist \cup {Unused}
          /\ Handler /\ full' = full /\ used \subseteq Reach /\ UNCHANGED <<white, status, gray, name>>
      BY <1>6 DEF SaveContext
    <2>3. /\ mark'[Unused] = white
          /\ \A x \in Objects \ {Unused} :
                mark'[x] = mark[x] \/ (mark[x] \in Whites /\ mark'[x] = white)
      BY <1>0, <2>1, <2>2 DEF Marked, GcTypeOK
    <2>4. Names \subseteq Names'
      BY <2>2 DEF Names
    <2>5. Listed' /\ Swept'
      BY <1>0, <2>1, <2>2, <2>3, <2>4, LinkedKeeps
    <2> QED
      BY <1>0, <2>2, <2>5, ProgramKeeps DEF FInv
  <1>7. ASSUME NEW c \in Tables, EndContext(c) PROVE FInv'
    BY <1>0, <1>7, ProgramKeeps DEF EndContext, heap, FInv, Listed, Swept, Kept, Names
  <1>8. ASSUME NEW s \in Strings, CreateZoneAgain(s) PROVE FInv'
    <2>1. ReadName(s) /\ Handler /\ full' = full /\ UNCHANGED <<white, status, gray, name>> /\ Names' = Names
      BY <1>8 DEF CreateZoneAgain, Names
    <2>2. Listed' /\ Swept'
      BY <1>0, <2>1, ReadNameLists
    <2> QED
      BY <1>0, <2>1, <2>2, ProgramKeeps DEF FInv
  <1>9. ASSUME NEW s \in Strings, NEW z \in Zones, CreateZone(z, s) PROVE FInv'
    <2>1. ReadName(s) /\ Handler /\ full' = full /\ UNCHANGED <<white, status, gray>>
      BY <1>9 DEF CreateZone
    <2>2. name[z] = NoName /\ name' = [name EXCEPT ![z] = s]
      BY <1>9 DEF CreateZone
    <2>3. Names \subseteq Names'
      <3> SUFFICES ASSUME NEW y \in Zones, name[y] # NoName PROVE name'[y] = name[y]
        BY DEF Names
      <3> QED
        BY <1>0, <2>2 DEF GcTypeOK
    <2>4. Listed' /\ Swept'
      BY <1>0, <2>1, <2>3, ReadNameLists
    <2> QED
      BY <1>0, <2>1, <2>4, ProgramKeeps DEF FInv
  <1> QED
    BY <1>1, <1>2, <1>3, <1>4, <1>5, <1>6, <1>7, <1>8, <1>9 DEF CollectorNext

\* What was left by the cycle before has not yet the colour of the new one, but for
\* the names of zones, and only stable objects wait.
LEMMA GcBeginExact == ASSUME IInv, IInv', FInv, GcBegin PROVE FInv'
  <1> DEFINE F == {Root} \cup held
  <1>1. /\ white' \in Whites /\ white' # white /\ white' # "stable"
        /\ status = "PAUSE" /\ status' = "MARK" /\ gray' = gclist /\ gclist' = {} /\ gray = {}
        /\ mark' = Marked(mark, white', F) /\ queue' = queue \cup Queued(mark, white', F)
        /\ UNCHANGED <<refs, held, name>> /\ GcTypeOK
    BY WhiteChanges DEF GcBegin, IInv, GcTypeOK, Whites, FInv, Drained
  <1>2. /\ \A x \in Objects : mark'[x] = (IF x \in F /\ mark[x] # "stable" THEN white' ELSE mark[x])
        /\ F \subseteq Objects /\ queue \subseteq Objects
    BY <1>1 DEF Marked, GcTypeOK, Objects, Parents
  <1>3. \A x \in F : mark[x] # "free"
    BY AheadBegins DEF IInv, Intact
  <1>4. Names' = Names /\ Wanted' = Wanted
    <2>1. \A p \in Parents : mark'[p] = "stable" <=> mark[p] = "stable"
      BY <1>1, <1>2 DEF Objects
    <2> QED
      BY <1>1, <2>1, WantedStays DEF Names
  <1>5. Listed'
    BY <1>1, <1>2, <1>3, <1>4 DEF FInv, Listed, GcTypeOK, Whites
  <1>6. ASSUME NEW x \in Objects, mark'[x] = white' PROVE x \in Wanted \cup Names
    <2>1. CASE x \in F
      BY <1>1, <2>1, WantedBegins
    <2>2. CASE x \notin F
      BY <1>1, <1>2, <1>6, <2>2 DEF FInv, Listed, Swept, Kept
    <2> QED
      BY <2>1, <2>2
  <1>7. queue' \subseteq Wanted
    <2>1. \A x \in queue : x \in Parents /\ mark[x] = "stable"
      BY <1>1 DEF IInv, Waiting, GcTypeOK
    <2>2. queue' \subseteq queue \cup F
      BY <1>1 DEF Queued
    <2> QED
      BY <1>1, <2>1, <2>2, WantedBegins
  <1> QED
    BY <1>1, <1>4, <1>5, <1>6, <1>7 DEF FInv, Swept, Drained, OnlyWanted

\* Marking follows the references of what is wanted, and the names of zones, which
\* are strings.
LEMMA MarkStepExact == ASSUME IInv, IInv', FInv, MarkStep PROVE FInv'
  <1>1. PICK o \in queue :
            /\ mark' = Marked(mark, white, Children(o))
            /\ queue' = (queue \ {o}) \cup Queued(mark, white, Children(o))
            /\ status' = IF queue' = {} THEN "SWEEP" ELSE status
    BY DEF MarkStep
  <1>2. status = "MARK" /\ UNCHANGED <<white, gclist, gray, full, refs, held, name>> /\ o \in Parents /\ GcTypeOK
    BY DEF MarkStep, IInv, GcTypeOK
  <1>3. /\ Children(o) \subseteq Objects /\ refs[o] \subseteq Children(o)
        /\ Children(o) \subseteq refs[o] \cup Names
        /\ Children(o) \cap Parents \subseteq refs[o]
    BY <1>2, ChildrenType, CollectorAssumption DEF Children, Names, GcTypeOK, Parents
  <1>4. \A x \in Children(o) \ Names : mark[x] # "free"
    BY <1>2, <1>3, AheadBegins, AheadFollows DEF IInv, Intact
  <1>5. Listed' /\ Swept'
    BY <1>1, <1>2, <1>3, <1>4, MarkedKeeps DEF FInv
  <1>6. \A x \in Objects : mark'[x] = (IF x \in Children(o) /\ mark[x] # "stable" THEN white ELSE mark[x])
    BY <1>1 DEF Marked
  <1>7. Names' = Names /\ Wanted' = Wanted
    <2>1. \A p \in Parents : mark'[p] = "stable" <=> mark[p] = "stable"
      BY <1>2, <1>6 DEF Objects, GcTypeOK, Whites
    <2> QED
      BY <1>2, <2>1, WantedStays DEF Names
  <1>8. ASSUME full = "whole" PROVE (\A x \in Objects : mark'[x] = white => x \in Wanted \cup Names) /\ queue' \subseteq Wanted
    <2>1. (\A x \in Objects : mark[x] = white => x \in Wanted \cup Names) /\ queue \subseteq Wanted
      BY <1>2, <1>8 DEF FInv, OnlyWanted
    <2>2. refs[o] \subseteq Wanted
      BY <1>2, <2>1, WantedFollows
    <2>3. queue' \subseteq queue \cup refs[o]
      BY <1>1, <1>3 DEF Queued
    <2> QED
      BY <1>3, <1>6, <2>1, <2>2, <2>3
  <1>9. status' # "PAUSE"
    BY <1>1, <1>2
  <1> QED
    BY <1>2, <1>5, <1>7, <1>8, <1>9 DEF FInv, Drained, OnlyWanted

\* A sweep releases what has the other colour, and lists again what has that of the
\* cycle.
LEMMA SweepStepExact == ASSUME IInv, IInv', FInv, SweepStep PROVE FInv'
  <1>1. PICK o \in gray :
            /\ gray' = gray \ {o}
            /\ gclist' = IF mark[o] = white THEN gclist \cup {o} ELSE gclist
            /\ mark' = IF Released(o) THEN [mark EXCEPT ![o] = "free"] ELSE mark
    BY DEF SweepStep
  <1>2. /\ status = "SWEEP" /\ status' = IF gray' = {} THEN "PAUSE" ELSE status
        /\ full' = IF gray' # {} THEN full ELSE IF full = "finish" THEN "whole" ELSE "no"
        /\ UNCHANGED <<white, refs, held, name>> /\ GcTypeOK /\ o \in Objects
    BY DEF SweepStep, IInv, GcTypeOK
  <1>3. /\ mark'[o] = (IF Released(o) THEN "free" ELSE mark[o])
        /\ \A x \in Objects \ {o} : mark'[x] = mark[x]
    BY <1>1, <1>2 DEF GcTypeOK
  <1>4. Names' = Names /\ Kept' = Kept /\ Wanted' = Wanted
    <2>1. \A p \in Parents : mark'[p] = "stable" <=> mark[p] = "stable"
      BY <1>2, <1>3 DEF Objects, Released
    <2> QED
      BY <1>2, <2>1, WantedStays DEF Names, Kept
  <1>5. Listed'
    <2> SUFFICES ASSUME NEW x \in Objects, mark'[x] \in Whites PROVE x \in gclist' \cup gray' \cup Names
      BY <1>4 DEF Listed, Whites
    <2>1. mark'[x] = mark[x] /\ x \in gclist \cup gray \cup Names /\ (x = o => mark[o] = white)
      BY <1>3 DEF FInv, Listed, Released, Whites
    <2> QED
      BY <1>1, <2>1
  <1>6. Swept'
    BY <1>1, <1>2, <1>3, <1>4 DEF FInv, Swept, Kept, Released, GcTypeOK
  <1>7. OnlyWanted'
    BY <1>1, <1>2, <1>3, <1>4 DEF FInv, OnlyWanted, Released, GcTypeOK, Whites
  <1> QED
    BY <1>2, <1>5, <1>6, <1>7 DEF FInv, Drained

LEMMA KeepsExact == IInv /\ IInv' /\ FInv /\ [CollectorNext]_gcVars => FInv'
  <1> SUFFICES ASSUME IInv, IInv', FInv, [CollectorNext]_gcVars PROVE FInv'
    OBVIOUS
  <1>1. CASE CollectorNext /\ ~StartFull /\ ~Collect
    BY <1>1, ProgramExact DEF IInv
  <1>2. CASE StartFull
    <2>1. UNCHANGED <<mark, white, status, gclist, gray, name>> /\ full = "no"
      BY <1>2 DEF StartFull, heap
    <2>2. full' = "whole" => status' = "PAUSE"
      BY <1>2, <2>1 DEF StartFull
    <2> QED
      BY <2>1, <2>2 DEF FInv, Listed, Swept, Drained, OnlyWanted, Kept, Names
  <1>3. CASE Collect
    BY <1>3, GcBeginExact, MarkStepExact, SweepStepExact DEF Collect
  <1>4. CASE UNCHANGED gcVars
    <2>1. UNCHANGED <<mark, white, status, gclist, gray, queue, full, name>> /\ Wanted' = Wanted
      BY <1>4, WantedStays DEF gcVars
    <2> QED
      BY <2>1 DEF FInv, Listed, Swept, Drained, OnlyWanted, Kept, Names
  <1> QED
    BY <1>1, <1>2, <1>3, <1>4

\* A full collection ends with a sweep, and after the last one nothing has the other
\* colour but names of zones.
LEMMA EndsExact ==
    ASSUME IInv, FInv, CollectorNext, full = "whole", full' = "no"
    PROVE \A o \in Objects :
              \/ mark'[o] \in {"free", "stable"}
              \/ \E z \in Zones : name[z] = o
              \/ o \in ReachFrom({Root} \cup held \cup {p \in Parents : mark[p] = "stable"})
  <1>1. SweepStep
    BY DEF CollectorNext, Collect, StoreValue, EraseValue, StoreTable, StoreString, MakeStable,
           SaveContext, EndContext, CreateZone, CreateZoneAgain, Handler, StartFull, GcBegin, MarkStep
  <1>2. PICK o \in gray :
            /\ gray' = gray \ {o}
            /\ mark' = IF Released(o) THEN [mark EXCEPT ![o] = "free"] ELSE mark
    BY <1>1 DEF SweepStep
  <1>3. gray = {o} /\ status = "SWEEP" /\ GcTypeOK /\ o \in Objects
    BY <1>1, <1>2 DEF SweepStep, IInv, GcTypeOK
  <1>4. SUFFICES ASSUME NEW x \in Objects, mark'[x] \notin {"free", "stable"} PROVE x \in Wanted \cup Names
    BY Zenon DEF Wanted, Names
  <1>5. mark'[x] = mark[x] /\ mark[x] \in Whites /\ (x = o => mark[x] = white)
    BY <1>2, <1>3, <1>4 DEF GcTypeOK, Released
  <1>6. CASE mark[x] = white
    BY <1>3, <1>6 DEF FInv, OnlyWanted
  <1>7. CASE mark[x] # white
    BY <1>3, <1>5, <1>7 DEF FInv, Listed, Swept, Kept, Whites
  <1> QED
    BY <1>6, <1>7

LEMMA BeginsExact == CollectorInit => FInv
  <1> SUFFICES ASSUME CollectorInit PROVE FInv
    OBVIOUS
  <1>1. /\ \A o \in Objects : mark[o] = (IF o \in gclist THEN white ELSE "free")
        /\ gclist \subseteq Objects /\ status = "PAUSE" /\ gray = {} /\ white \in Whites
    BY CollectorAssumption DEF CollectorInit, Whites, Objects, Parents
  <1> QED
    BY <1>1 DEF FInv, Listed, Swept, Drained, OnlyWanted, Kept, Whites

\* rbtC_full_gc, for any objects: what it leaves can be reached from the root, from a
\* script that waits or from a stable object, or is stable, or is the name of a zone.
THEOREM CollectorExact == CollectorSpec => FullExact
  <1>1. CollectorInit => FInv
    BY BeginsExact
  <1>2. IInv /\ IInv' /\ FInv /\ [CollectorNext]_gcVars => FInv'
    BY KeepsExact
  <1>3. ASSUME IInv, FInv, [CollectorNext]_gcVars
        PROVE full = "whole" /\ full' = "no" =>
                 \A o \in Objects :
                     \/ mark'[o] \in {"free", "stable"}
                     \/ \E z \in Zones : name[z] = o
                     \/ o \in ReachFrom({Root} \cup held \cup {p \in Parents : mark[p] = "stable"})
    <2>1. CASE CollectorNext
      BY <1>3, <2>1, EndsExact
    <2>2. CASE UNCHANGED gcVars
      BY <2>2 DEF gcVars
    <2> QED
      BY <1>3, <2>1, <2>2
  <1> QED
    BY <1>1, <1>2, <1>3, CollectorInv, PTL DEF CollectorSpec, FullExact
=============================================================================
