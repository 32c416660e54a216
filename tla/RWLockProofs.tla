---------------------------- MODULE RWLockProofs ----------------------------
(***************************************************************************)
(* The endpoint's lock for any finite set of requests: its fields count    *)
(* what they say, a writer is alone, no wake-up is lost, and requests are  *)
(* let in as ReadersWriters allows. Accounting is what makes the rest      *)
(* inductive: the code decides on the three fields, the properties speak   *)
(* of where the requests are.                                              *)
(***************************************************************************)
EXTENDS RWLock, FiniteSetTheorems, TLAPS

\* The goroutines that f puts at l.
Places(f, l) == {q \in Proc : f[q] = l}

\* What a move from k to l adds to the count of m.
Delta(m, k, l) == IF m = l THEN 1 ELSE IF m = k THEN -1 ELSE 0

IInv == TypeOK /\ Accounting /\ MutualExclusion /\ NoLostWakeup

\* Moving one goroutine from one place to another adds one here, takes one
\* there, and leaves every other place alone.
LEMMA CountMoves ==
    ASSUME NEW f \in [Proc -> PCs], NEW g, NEW p \in Proc, NEW l \in PCs,
           f[p] # l, g = [f EXCEPT ![p] = l]
    PROVE  \A m \in PCs :
              Cardinality(Places(g, m)) = Cardinality(Places(f, m)) + Delta(m, f[p], l)
<1> SUFFICES ASSUME NEW m \in PCs
             PROVE  Cardinality(Places(g, m)) = Cardinality(Places(f, m)) + Delta(m, f[p], l)
  OBVIOUS
<1>1. IsFiniteSet(Places(f, m)) /\ Cardinality(Places(f, m)) \in Nat
  BY ProcFinite, FS_Subset, FS_CardinalityType DEF Places
<1>2. CASE m = l
  <2>1. Places(g, m) = Places(f, m) \cup {p} /\ p \notin Places(f, m)
    BY <1>2 DEF Places
  <2> QED BY <1>1, <1>2, <2>1, FS_AddElement DEF Delta
<1>3. CASE m = f[p]
  <2>1. Places(g, m) = Places(f, m) \ {p} /\ p \in Places(f, m)
    BY <1>3 DEF Places
  <2> QED BY <1>1, <1>3, <2>1, FS_RemoveElement DEF Delta
<1>4. CASE m # l /\ m # f[p]
  <2>1. Places(g, m) = Places(f, m)
    BY <1>4 DEF Places
  <2> QED BY <1>1, <1>4, <2>1 DEF Delta
<1> QED BY <1>2, <1>3, <1>4

\* A place is empty exactly when its count is zero.
LEMMA CountZero ==
    ASSUME NEW f \in [Proc -> PCs], NEW l \in PCs
    PROVE  /\ Cardinality(Places(f, l)) \in Nat
           /\ Cardinality(Places(f, l)) = 0 <=> \A q \in Proc : f[q] # l
<1>1. IsFiniteSet(Places(f, l))
  BY ProcFinite, FS_Subset DEF Places
<1> QED BY <1>1, FS_CardinalityType, FS_EmptySet DEF Places

\* What the fields say, in terms of places.
LEMMA Fields ==
    ASSUME IInv
    PROVE  /\ place \in [Proc -> PCs]
           /\ readers = Cardinality(Places(place, "reading"))
           /\ writersWaiting = Cardinality(Places(place, "wwait"))
           /\ readers = 0 <=> \A q \in Proc : place[q] # "reading"
           /\ writersWaiting = 0 <=> \A q \in Proc : place[q] # "wwait"
           /\ writer <=> \E q \in Proc : place[q] = "writing"
<1>1. /\ readers = Cardinality(Places(place, "reading"))
      /\ writersWaiting = Cardinality(Places(place, "wwait"))
  BY DEF IInv, Accounting, At, Places
<1>2. writer <=> \E q \in Proc : place[q] = "writing"
  BY DEF IInv, Accounting, At
<1> QED BY <1>1, <1>2, CountZero DEF IInv, TypeOK, PCs

LEMMA InitOK == Init => IInv
<1> SUFFICES ASSUME Init PROVE IInv
  OBVIOUS
<1>1. TypeOK
  BY DEF Init, TypeOK, PCs
<1>2. At("reading") = {} /\ At("wwait") = {} /\ At("writing") = {}
  BY DEF Init, At
<1>3. Accounting
  BY <1>2, FS_EmptySet DEF Init, Accounting
<1> QED BY <1>1, <1>3 DEF Init, IInv, MutualExclusion, NoLostWakeup


\* A step that takes p from one place to another, place by place.
LEMMA PcMoves ==
    ASSUME IInv, NEW p \in Proc, NEW l \in PCs, GoTo(p, l), place[p] # l
    PROVE  /\ place' \in [Proc -> PCs]
           /\ \A q \in Proc : place'[q] = IF q = p THEN l ELSE place[q]
           /\ \A m \in PCs : /\ Cardinality(Places(place, m)) \in Nat
                             /\ Cardinality(Places(place', m)) \in Nat
                             /\ Cardinality(Places(place', m)) = Cardinality(Places(place, m)) + Delta(m, place[p], l)
<1>1. place' = [place EXCEPT ![p] = l] /\ place \in [Proc -> PCs]
  BY Fields DEF GoTo
<1>2. place' \in [Proc -> PCs] /\ \A q \in Proc : place'[q] = IF q = p THEN l ELSE place[q]
  BY <1>1
<1>3. \A m \in PCs : Cardinality(Places(place', m)) = Cardinality(Places(place, m)) + Delta(m, place[p], l)
  BY <1>1, CountMoves
<1>4. \A m \in PCs : Cardinality(Places(place, m)) \in Nat /\ Cardinality(Places(place', m)) \in Nat
  BY <1>1, <1>2, CountZero
<1> QED BY <1>2, <1>3, <1>4

\* Accounting' and the types of the fields, from what a step does to places.
LEMMA AccountingAfter ==
    ASSUME readers' = Cardinality(Places(place', "reading")),
           writersWaiting' = Cardinality(Places(place', "wwait")),
           writer' <=> \E q \in Proc : place'[q] = "writing"
    PROVE  Accounting'
BY DEF Accounting, At, Places

LEMMA rlockOK ==
    ASSUME IInv, NEW p \in Proc, rlock(p)
    PROVE  IInv'
<1>1. CASE MayRead /\ readers' = readers + 1 /\ GoTo(p, "reading") /\ UNCHANGED woken
  <2>1. /\ place' \in [Proc -> PCs]
        /\ \A q \in Proc : place'[q] = IF q = p THEN "reading" ELSE place[q]
        /\ \A m \in PCs : /\ Cardinality(Places(place, m)) \in Nat
                          /\ Cardinality(Places(place', m)) \in Nat
                          /\ Cardinality(Places(place', m)) = Cardinality(Places(place, m)) + Delta(m, place[p], "reading")
    BY <1>1, PcMoves DEF rlock, PCs
  <2>2. /\ readers' = Cardinality(Places(place', "reading"))
        /\ writersWaiting' = Cardinality(Places(place', "wwait"))
    BY <1>1, <2>1, Fields DEF rlock, PCs, Delta
  <2>3. writer' <=> \E q \in Proc : place'[q] = "writing"
    BY <1>1, <2>1, Fields DEF rlock
  <2>4. Accounting'
    BY <2>2, <2>3, AccountingAfter
  <2>5. TypeOK'
    BY <1>1, <2>1, <2>2 DEF IInv, TypeOK, PCs, rlock
  <2>6. MutualExclusion'
    BY <1>1, <2>1, Fields DEF MayRead, MutualExclusion, IInv
  <2>7. NoLostWakeup'
    BY <1>1, <2>1 DEF IInv, NoLostWakeup, MayRead, MayWrite, rlock, TypeOK
  <2> QED BY <2>4, <2>5, <2>6, <2>7 DEF IInv
<1>2. CASE ~MayRead /\ Take(p) /\ GoTo(p, "rwait") /\ UNCHANGED readers
  <2>1. place[p] \in {"out", "rwait"} /\ place' = [place EXCEPT ![p] = "rwait"]
    BY <1>2 DEF rlock, GoTo
  <2>2. At("reading")' = At("reading") /\ At("wwait")' = At("wwait") /\ At("writing")' = At("writing")
    BY <2>1, Fields DEF At
  <2>3. Accounting'
    BY <1>2, <2>2 DEF rlock, Accounting, IInv
  <2>4. TypeOK'
    BY <1>2, <2>1 DEF IInv, TypeOK, PCs, rlock, Take
  <2>5. MutualExclusion'
    BY <2>1, Fields DEF MutualExclusion, IInv
  <2>6. NoLostWakeup'
    BY <1>2, <2>1, Fields DEF NoLostWakeup, IInv, MayRead, MayWrite, Take, rlock, TypeOK
  <2> QED BY <2>3, <2>4, <2>5, <2>6 DEF IInv
<1> QED BY <1>1, <1>2 DEF rlock

LEMMA rlockGivesUpOK ==
    ASSUME IInv, NEW p \in Proc, rlockGivesUp(p)
    PROVE  IInv'
<1>1. /\ place' \in [Proc -> PCs]
      /\ \A q \in Proc : place'[q] = IF q = p THEN "out" ELSE place[q]
      /\ \A m \in PCs : /\ Cardinality(Places(place, m)) \in Nat
                        /\ Cardinality(Places(place', m)) \in Nat
                        /\ Cardinality(Places(place', m)) = Cardinality(Places(place, m)) + Delta(m, place[p], "out")
  BY PcMoves DEF rlockGivesUp, PCs
<1>2. /\ readers' = Cardinality(Places(place', "reading"))
      /\ writersWaiting' = Cardinality(Places(place', "wwait"))
  BY <1>1, Fields DEF rlockGivesUp, PCs, Delta
<1>3. writer' <=> \E q \in Proc : place'[q] = "writing"
  BY <1>1, Fields DEF rlockGivesUp
<1>4. Accounting'
  BY <1>2, <1>3, AccountingAfter
<1>5. TypeOK'
  BY <1>1, <1>2 DEF IInv, TypeOK, PCs, rlockGivesUp
<1>6. MutualExclusion'
  BY <1>1 DEF MutualExclusion, IInv
<1>7. NoLostWakeup'
  BY <1>1 DEF IInv, NoLostWakeup, MayRead, MayWrite, rlockGivesUp
<1> QED BY <1>4, <1>5, <1>6, <1>7 DEF IInv

LEMMA runlockOK ==
    ASSUME IInv, NEW p \in Proc, runlock(p)
    PROVE  IInv'
<1>1. /\ place' \in [Proc -> PCs]
      /\ \A q \in Proc : place'[q] = IF q = p THEN "out" ELSE place[q]
      /\ \A m \in PCs : /\ Cardinality(Places(place, m)) \in Nat
                        /\ Cardinality(Places(place', m)) \in Nat
                        /\ Cardinality(Places(place', m)) = Cardinality(Places(place, m)) + Delta(m, place[p], "out")
  BY PcMoves DEF runlock, PCs
<1>2. /\ readers' = Cardinality(Places(place', "reading"))
      /\ writersWaiting' = Cardinality(Places(place', "wwait"))
  BY <1>1, Fields DEF runlock, PCs, Delta
<1>3. writer' <=> \E q \in Proc : place'[q] = "writing"
  BY <1>1, Fields DEF runlock
<1>4. Accounting'
  BY <1>2, <1>3, AccountingAfter
<1>5. TypeOK'
  BY <1>1, <1>2 DEF IInv, TypeOK, PCs, runlock, broadcast
<1>6. MutualExclusion'
  BY <1>1 DEF MutualExclusion, IInv
<1>7. NoLostWakeup'
  <2>1. CASE readers' = 0
    BY <1>1, <2>1 DEF NoLostWakeup, runlock, broadcast
  <2>2. CASE readers' # 0
    BY <1>1, <2>2, Fields DEF IInv, NoLostWakeup, MayRead, MayWrite, runlock
  <2> QED BY <2>1, <2>2
<1> QED BY <1>4, <1>5, <1>6, <1>7 DEF IInv

LEMMA lockOK ==
    ASSUME IInv, NEW p \in Proc, lock(p)
    PROVE  IInv'
<1>1. CASE MayWrite /\ writer' = TRUE /\ GoTo(p, "writing") /\ UNCHANGED <<writersWaiting, woken>>
  <2>1. /\ place' \in [Proc -> PCs]
        /\ \A q \in Proc : place'[q] = IF q = p THEN "writing" ELSE place[q]
        /\ \A m \in PCs : /\ Cardinality(Places(place, m)) \in Nat
                          /\ Cardinality(Places(place', m)) \in Nat
                          /\ Cardinality(Places(place', m)) = Cardinality(Places(place, m)) + Delta(m, place[p], "writing")
    BY <1>1, PcMoves DEF lock, PCs
  <2>2. /\ readers' = Cardinality(Places(place', "reading"))
        /\ writersWaiting' = Cardinality(Places(place', "wwait"))
    BY <1>1, <2>1, Fields DEF lock, PCs, Delta
  <2>3. writer' <=> \E q \in Proc : place'[q] = "writing"
    BY <1>1, <2>1, Fields DEF lock
  <2>4. Accounting'
    BY <2>2, <2>3, AccountingAfter
  <2>5. TypeOK'
    BY <1>1, <2>1, <2>2 DEF IInv, TypeOK, PCs, lock
  <2>6. MutualExclusion'
    BY <1>1, <2>1, Fields DEF MayWrite, MutualExclusion, IInv
  <2>7. NoLostWakeup'
    BY <1>1, <2>1 DEF IInv, NoLostWakeup, MayRead, MayWrite, lock
  <2> QED BY <2>4, <2>5, <2>6, <2>7 DEF IInv
<1>2. CASE /\ ~MayWrite /\ writersWaiting' = writersWaiting + 1 /\ Take(p)
           /\ GoTo(p, "wwait") /\ UNCHANGED writer
  <2>1. /\ place' \in [Proc -> PCs]
        /\ \A q \in Proc : place'[q] = IF q = p THEN "wwait" ELSE place[q]
        /\ \A m \in PCs : /\ Cardinality(Places(place, m)) \in Nat
                          /\ Cardinality(Places(place', m)) \in Nat
                          /\ Cardinality(Places(place', m)) = Cardinality(Places(place, m)) + Delta(m, place[p], "wwait")
    BY <1>2, PcMoves DEF lock, PCs
  <2>2. /\ readers' = Cardinality(Places(place', "reading"))
        /\ writersWaiting' = Cardinality(Places(place', "wwait"))
    BY <1>2, <2>1, Fields DEF lock, PCs, Delta
  <2>3. writer' <=> \E q \in Proc : place'[q] = "writing"
    BY <1>2, <2>1, Fields DEF lock
  <2>4. Accounting'
    BY <2>2, <2>3, AccountingAfter
  <2>5. TypeOK'
    BY <1>2, <2>1, <2>2 DEF IInv, TypeOK, PCs, lock, Take
  <2>6. MutualExclusion'
    BY <2>1 DEF MutualExclusion, IInv
  <2>7. NoLostWakeup'
    BY <1>2, <2>1 DEF IInv, NoLostWakeup, MayRead, MayWrite, lock, Take, TypeOK
  <2> QED BY <2>4, <2>5, <2>6, <2>7 DEF IInv
<1> QED BY <1>1, <1>2 DEF lock

LEMMA lockWakesOK ==
    ASSUME IInv, NEW p \in Proc, lockWakes(p)
    PROVE  IInv'
<1>1. CASE /\ MayWrite /\ writersWaiting' = writersWaiting - 1 /\ writer' = TRUE
           /\ GoTo(p, "writing") /\ UNCHANGED woken
  <2>1. /\ place' \in [Proc -> PCs]
        /\ \A q \in Proc : place'[q] = IF q = p THEN "writing" ELSE place[q]
        /\ \A m \in PCs : /\ Cardinality(Places(place, m)) \in Nat
                          /\ Cardinality(Places(place', m)) \in Nat
                          /\ Cardinality(Places(place', m)) = Cardinality(Places(place, m)) + Delta(m, place[p], "writing")
    BY <1>1, PcMoves DEF lockWakes, PCs
  <2>2. /\ readers' = Cardinality(Places(place', "reading"))
        /\ writersWaiting' = Cardinality(Places(place', "wwait"))
    BY <1>1, <2>1, Fields DEF lockWakes, PCs, Delta
  <2>3. writer' <=> \E q \in Proc : place'[q] = "writing"
    BY <1>1, <2>1, Fields DEF lockWakes
  <2>4. Accounting'
    BY <2>2, <2>3, AccountingAfter
  <2>5. TypeOK'
    BY <1>1, <2>1, <2>2 DEF IInv, TypeOK, PCs, lockWakes
  <2>6. MutualExclusion'
    BY <1>1, <2>1, Fields DEF MayWrite, MutualExclusion, IInv
  <2>7. NoLostWakeup'
    BY <1>1, <2>1 DEF IInv, NoLostWakeup, MayRead, MayWrite, lockWakes
  <2> QED BY <2>4, <2>5, <2>6, <2>7 DEF IInv
<1>2. CASE ~MayWrite /\ Take(p) /\ UNCHANGED <<writersWaiting, writer, place>>
  <2>1. Accounting' /\ MutualExclusion'
    BY <1>2 DEF IInv, lockWakes, Accounting, At, MutualExclusion
  <2>2. TypeOK'
    BY <1>2 DEF IInv, TypeOK, lockWakes, Take
  <2>3. NoLostWakeup'
    BY <1>2 DEF IInv, NoLostWakeup, MayRead, MayWrite, lockWakes, Take, TypeOK
  <2> QED BY <2>1, <2>2, <2>3 DEF IInv
<1> QED BY <1>1, <1>2 DEF lockWakes

LEMMA lockGivesUpOK ==
    ASSUME IInv, NEW p \in Proc, lockGivesUp(p)
    PROVE  IInv'
<1>1. /\ place' \in [Proc -> PCs]
      /\ \A q \in Proc : place'[q] = IF q = p THEN "out" ELSE place[q]
      /\ \A m \in PCs : /\ Cardinality(Places(place, m)) \in Nat
                        /\ Cardinality(Places(place', m)) \in Nat
                        /\ Cardinality(Places(place', m)) = Cardinality(Places(place, m)) + Delta(m, place[p], "out")
  BY PcMoves DEF lockGivesUp, PCs
<1>2. /\ readers' = Cardinality(Places(place', "reading"))
      /\ writersWaiting' = Cardinality(Places(place', "wwait"))
  BY <1>1, Fields DEF lockGivesUp, PCs, Delta
<1>3. writer' <=> \E q \in Proc : place'[q] = "writing"
  BY <1>1, Fields DEF lockGivesUp
<1>4. Accounting'
  BY <1>2, <1>3, AccountingAfter
<1>5. TypeOK'
  BY <1>1, <1>2 DEF IInv, TypeOK, PCs, lockGivesUp, broadcast
<1>6. MutualExclusion'
  BY <1>1 DEF MutualExclusion, IInv
<1>7. NoLostWakeup'
  BY <1>1 DEF NoLostWakeup, lockGivesUp, broadcast
<1> QED BY <1>4, <1>5, <1>6, <1>7 DEF IInv

LEMMA unlockOK ==
    ASSUME IInv, NEW p \in Proc, unlock(p)
    PROVE  IInv'
<1>1. /\ place' \in [Proc -> PCs]
      /\ \A q \in Proc : place'[q] = IF q = p THEN "out" ELSE place[q]
      /\ \A m \in PCs : /\ Cardinality(Places(place, m)) \in Nat
                        /\ Cardinality(Places(place', m)) \in Nat
                        /\ Cardinality(Places(place', m)) = Cardinality(Places(place, m)) + Delta(m, place[p], "out")
  BY PcMoves DEF unlock, PCs
<1>2. /\ readers' = Cardinality(Places(place', "reading"))
      /\ writersWaiting' = Cardinality(Places(place', "wwait"))
  BY <1>1, Fields DEF unlock, PCs, Delta
<1>3. writer' <=> \E q \in Proc : place'[q] = "writing"
  BY <1>1, Fields DEF unlock, IInv, MutualExclusion
<1>4. Accounting'
  BY <1>2, <1>3, AccountingAfter
<1>5. TypeOK'
  BY <1>1, <1>2 DEF IInv, TypeOK, PCs, unlock, broadcast
<1>6. MutualExclusion'
  BY <1>1 DEF MutualExclusion, IInv
<1>7. NoLostWakeup'
  BY <1>1 DEF NoLostWakeup, unlock, broadcast
<1> QED BY <1>4, <1>5, <1>6, <1>7 DEF IInv

LEMMA contextDoneOK ==
    ASSUME IInv, NEW p \in Proc, contextDone(p)
    PROVE  IInv'
<1>1. TypeOK'
  BY DEF IInv, TypeOK, contextDone
<1>2. Accounting' /\ MutualExclusion'
  BY DEF IInv, contextDone, Accounting, At, MutualExclusion
<1>3. NoLostWakeup'
  BY DEF IInv, NoLostWakeup, MayRead, MayWrite, contextDone
<1> QED BY <1>1, <1>2, <1>3 DEF IInv

LEMMA StepOK == IInv /\ [Next]_vars => IInv'
<1> SUFFICES ASSUME IInv, [Next]_vars PROVE IInv'
  OBVIOUS
<1>1. CASE UNCHANGED vars
  BY <1>1 DEF vars, IInv, TypeOK, Accounting, At, MutualExclusion, NoLostWakeup, MayRead, MayWrite
<1>2. ASSUME NEW p \in Proc,
             \/ rlock(p) \/ rlockGivesUp(p) \/ runlock(p) \/ lock(p) \/ lockWakes(p)
             \/ lockGivesUp(p) \/ unlock(p) \/ contextDone(p)
      PROVE  IInv'
  BY <1>2, rlockOK, rlockGivesUpOK, runlockOK, lockOK, lockWakesOK, lockGivesUpOK,
     unlockOK, contextDoneOK
<1> QED BY <1>1, <1>2 DEF Next
-----------------------------------------------------------------------------
\* The fields of the lock keep their types.
THEOREM TypeCorrect == Spec => []TypeOK
<1>1. IInv => TypeOK
  BY DEF IInv
<1> QED BY <1>1, InitOK, StepOK, PTL DEF Spec

(***************************************************************************)
(* readers, writersWaiting and writer always count the goroutines that     *)
(* read, wait to write and write, so runlock and unlock never panic.       *)
(***************************************************************************)
THEOREM FieldsCount == Spec => []Accounting
<1>1. IInv => Accounting
  BY DEF IInv
<1> QED BY <1>1, InitOK, StepOK, PTL DEF Spec

\* Between lock and unlock a request is alone in the dataset.
THEOREM WriterAlone == Spec => []MutualExclusion
<1>1. IInv => MutualExclusion
  BY DEF IInv
<1> QED BY <1>1, InitOK, StepOK, PTL DEF Spec

(***************************************************************************)
(* No goroutine sleeps on an open channel when it could go: each release   *)
(* and each writer that gives up closes the channel the sleepers took.     *)
(***************************************************************************)
THEOREM WakeupsReach == Spec => []NoLostWakeup
<1>1. IInv => NoLostWakeup
  BY DEF IInv
<1> QED BY <1>1, InitOK, StepOK, PTL DEF Spec
-----------------------------------------------------------------------------
\* Where a move leads in ReadersWriters.
LEMMA HoldMoves ==
    ASSUME IInv, NEW p \in Proc, NEW l \in PCs, GoTo(p, l)
    PROVE  HoldOf[p] = Held(place[p]) /\ HoldOf' = [HoldOf EXCEPT ![p] = Held(l)]
BY Fields DEF HoldOf, GoTo

\* The conditions the code tests are the ones ReadersWriters lets requests in on.
LEMMA SameGuards ==
    ASSUME IInv
    PROVE  (MayRead <=> RW!ReadersMayEnter) /\ (MayWrite <=> RW!WriterMayEnter)
<1>1. \A p \in Proc : /\ HoldOf[p] = "writing" <=> place[p] = "writing"
                      /\ HoldOf[p] = "reading" <=> place[p] = "reading"
                      /\ HoldOf[p] = "waitW" <=> place[p] = "wwait"
  BY Fields DEF HoldOf, Held, PCs
<1>2. /\ RW!Holding("writing") = {} <=> ~writer
      /\ RW!Holding("waitW") = {} <=> writersWaiting = 0
      /\ RW!Holding("reading") = {} <=> readers = 0
  BY <1>1, Fields DEF RW!Holding
<1> QED BY <1>2 DEF MayRead, MayWrite, RW!ReadersMayEnter, RW!WriterMayEnter

\* Each step of the code is a step of ReadersWriters or changes nothing there.
LEMMA StepRefines == IInv /\ [Next]_vars => [RW!RWNext]_HoldOf
<1> SUFFICES ASSUME IInv, [Next]_vars PROVE [RW!RWNext]_HoldOf
  OBVIOUS
<1>1. CASE UNCHANGED vars
  BY <1>1 DEF vars, HoldOf
<1>2. SUFFICES ASSUME NEW p \in Proc,
                      \/ rlock(p) \/ rlockGivesUp(p) \/ runlock(p) \/ lock(p) \/ lockWakes(p)
                      \/ lockGivesUp(p) \/ unlock(p) \/ contextDone(p)
               PROVE  [RW!RWNext]_HoldOf
  BY <1>1 DEF Next
<1>3. CASE rlock(p)
  <2>1. CASE MayRead /\ GoTo(p, "reading")
    <3>1. RW!EnterRead(p)
      BY <1>3, <2>1, HoldMoves, SameGuards DEF rlock, PCs, Held, RW!EnterRead, RW!BecomeAt
    <3> QED BY <3>1 DEF RW!RWNext
  <2>2. CASE GoTo(p, "rwait") /\ place[p] = "out"
    <3>1. RW!AskRead(p)
      BY <2>2, HoldMoves DEF PCs, Held, RW!AskRead, RW!BecomeAt
    <3> QED BY <3>1 DEF RW!RWNext
  <2>3. CASE GoTo(p, "rwait") /\ place[p] = "rwait"
    BY <2>3, Fields DEF GoTo, HoldOf
  <2> QED BY <1>3, <2>1, <2>2, <2>3 DEF rlock
<1>4. CASE rlockGivesUp(p) \/ lockGivesUp(p)
  <2>1. RW!GiveUp(p)
    BY <1>4, HoldMoves DEF rlockGivesUp, lockGivesUp, PCs, Held, RW!GiveUp, RW!BecomeAt
  <2> QED BY <2>1 DEF RW!RWNext
<1>5. CASE runlock(p) \/ unlock(p)
  <2>1. RW!Leave(p)
    BY <1>5, HoldMoves DEF runlock, unlock, PCs, Held, RW!Leave, RW!BecomeAt
  <2> QED BY <2>1 DEF RW!RWNext
<1>6. CASE lock(p)
  <2>1. CASE MayWrite /\ GoTo(p, "writing")
    <3>1. RW!EnterWrite(p)
      BY <1>6, <2>1, HoldMoves, SameGuards DEF lock, PCs, Held, RW!EnterWrite, RW!BecomeAt
    <3> QED BY <3>1 DEF RW!RWNext
  <2>2. CASE GoTo(p, "wwait")
    <3>1. RW!AskWrite(p)
      BY <1>6, <2>2, HoldMoves DEF lock, PCs, Held, RW!AskWrite, RW!BecomeAt
    <3> QED BY <3>1 DEF RW!RWNext
  <2> QED BY <1>6, <2>1, <2>2 DEF lock
<1>7. CASE lockWakes(p)
  <2>1. CASE MayWrite /\ GoTo(p, "writing")
    <3>1. RW!EnterWrite(p)
      BY <1>7, <2>1, HoldMoves, SameGuards DEF lockWakes, PCs, Held, RW!EnterWrite, RW!BecomeAt
    <3> QED BY <3>1 DEF RW!RWNext
  <2>2. CASE UNCHANGED place
    BY <2>2 DEF HoldOf
  <2> QED BY <1>7, <2>1, <2>2 DEF lockWakes
<1>8. CASE contextDone(p)
  BY <1>8 DEF contextDone, HoldOf
<1> QED BY <1>2, <1>3, <1>4, <1>5, <1>6, <1>7, <1>8

(***************************************************************************)
(* The lock of lock.go implements ReadersWriters: whatever its channels    *)
(* and counters do, requests get in, wait, give up and leave as that       *)
(* specification allows, a waiting writer holding new readers back.        *)
(***************************************************************************)
THEOREM LockRefines == Spec => Implements
<1>1. Init => RW!RWInit
  BY DEF Init, HoldOf, Held, RW!RWInit
<1> QED BY <1>1, InitOK, StepOK, StepRefines, PTL DEF Spec, Implements, RW!RWSpec
=============================================================================
