------------------------------- MODULE RWLock -------------------------------
(***************************************************************************)
(* endpoint/lock.go: the readers-writer lock of the SPARQL endpoint, whose *)
(* acquisition gives up when a context is done.                            *)
(*                                                                         *)
(* Code between l.mu.Lock() and l.mu.Unlock() touches nothing but the      *)
(* lock's fields and never blocks, so each such stretch is one step.       *)
(* A waiter takes the channel l.changed while it holds l.mu and then       *)
(* selects on it; broadcast closes that channel and installs a fresh one.  *)
(* The only thing a waiter can tell about its channel is whether it has    *)
(* been closed, so woken[p] stands for the channel p took.                 *)
(***************************************************************************)
EXTENDS Integers, FiniteSets

CONSTANT Proc             \* the goroutines that call the lock

ASSUME ProcFinite == IsFiniteSet(Proc)

VARIABLES readers,        \* l.readers
          writer,         \* l.writer
          writersWaiting, \* l.writersWaiting
          place,          \* where each goroutine is: outside every call, waiting
                          \* in rlock or lock, or between acquire and release
          woken,          \* woken[p]: the channel p waits on has been closed
          done            \* done[p]: the context of p's request is done

vars == <<readers, writer, writersWaiting, place, woken, done>>

PCs == {"out", "rwait", "wwait", "reading", "writing"}

TypeOK == /\ readers \in Nat
          /\ writer \in BOOLEAN
          /\ writersWaiting \in Nat
          /\ place \in [Proc -> PCs]
          /\ woken \in [Proc -> BOOLEAN]
          /\ done \in [Proc -> BOOLEAN]

\* newRWLock, with nobody inside.
Init == /\ readers = 0
        /\ writer = FALSE
        /\ writersWaiting = 0
        /\ place = [p \in Proc |-> "out"]
        /\ woken = [p \in Proc |-> FALSE]
        /\ done = [p \in Proc |-> FALSE]

\* broadcast: every channel taken so far is closed.
broadcast == woken' = [p \in Proc |-> TRUE]

GoTo(p, l) == place' = [place EXCEPT ![p] = l]

\* ch := l.changed: p waits on the channel that is open now.
Take(p) == woken' = [woken EXCEPT ![p] = FALSE]

\* Mutant: rlock forgets that writers go first.
MayReadBarging == ~writer

\* Mutant: lock forgets the readers.
MayWriteAmongReaders == ~writer

MayRead == ~writer /\ writersWaiting = 0
MayWrite == ~writer /\ readers = 0

\* One turn of rlock's loop: the first one, or one after the channel closed.
rlock(p) ==
    /\ place[p] = "out" \/ (place[p] = "rwait" /\ woken[p])
    /\ \/ /\ MayRead
          /\ readers' = readers + 1
          /\ GoTo(p, "reading")
          /\ UNCHANGED woken
       \/ /\ ~MayRead
          /\ Take(p)
          /\ GoTo(p, "rwait")
          /\ UNCHANGED readers
    /\ UNCHANGED <<writer, writersWaiting, done>>

\* Mutant: giving up releases what was never held.
rlockGivesUpReleasing(p) ==
    /\ place[p] = "rwait" /\ done[p]
    /\ readers' = readers - 1
    /\ GoTo(p, "out")
    /\ done' = [done EXCEPT ![p] = FALSE]
    /\ UNCHANGED <<writer, writersWaiting, woken>>

\* rlock's select takes ctx.Done().
rlockGivesUp(p) ==
    /\ place[p] = "rwait" /\ done[p]
    /\ GoTo(p, "out")
    /\ done' = [done EXCEPT ![p] = FALSE]
    /\ UNCHANGED <<readers, writer, writersWaiting, woken>>

\* The request ends; its context is of no more interest.
runlock(p) ==
    /\ place[p] = "reading"
    /\ readers' = readers - 1
    /\ IF readers' = 0 THEN broadcast ELSE UNCHANGED woken
    /\ GoTo(p, "out")
    /\ done' = [done EXCEPT ![p] = FALSE]
    /\ UNCHANGED <<writer, writersWaiting>>

\* Mutant: a writer that has to wait is not counted until it wakes.
lockUncounted(p) ==
    /\ place[p] = "out"
    /\ \/ MayWrite /\ writer' = TRUE /\ GoTo(p, "writing") /\ UNCHANGED woken
       \/ ~MayWrite /\ Take(p) /\ GoTo(p, "wwait") /\ UNCHANGED writer
    /\ UNCHANGED <<readers, writersWaiting, done>>

\* lock from its first line to its first select, or to its return.
lock(p) ==
    /\ place[p] = "out"
    /\ \/ /\ MayWrite
          /\ writer' = TRUE
          /\ GoTo(p, "writing")
          /\ UNCHANGED <<writersWaiting, woken>>
       \/ /\ ~MayWrite
          /\ writersWaiting' = writersWaiting + 1
          /\ Take(p)
          /\ GoTo(p, "wwait")
          /\ UNCHANGED writer
    /\ UNCHANGED <<readers, done>>

\* lock's loop after the channel closed.
lockWakes(p) ==
    /\ place[p] = "wwait" /\ woken[p]
    /\ \/ /\ MayWrite
          /\ writersWaiting' = writersWaiting - 1
          /\ writer' = TRUE
          /\ GoTo(p, "writing")
          /\ UNCHANGED woken
       \/ /\ ~MayWrite
          /\ Take(p)
          /\ UNCHANGED <<writersWaiting, writer, place>>
    /\ UNCHANGED <<readers, done>>

\* Mutant: a writer that gives up wakes nobody.
lockGivesUpSilently(p) ==
    /\ place[p] = "wwait" /\ done[p]
    /\ writersWaiting' = writersWaiting - 1
    /\ GoTo(p, "out")
    /\ done' = [done EXCEPT ![p] = FALSE]
    /\ UNCHANGED <<readers, writer, woken>>

\* Mutant: a writer that gives up stays counted.
lockGivesUpCounted(p) ==
    /\ place[p] = "wwait" /\ done[p]
    /\ broadcast
    /\ GoTo(p, "out")
    /\ done' = [done EXCEPT ![p] = FALSE]
    /\ UNCHANGED <<readers, writer, writersWaiting>>

\* lock's select takes ctx.Done(): readers held back by this writer may go.
lockGivesUp(p) ==
    /\ place[p] = "wwait" /\ done[p]
    /\ writersWaiting' = writersWaiting - 1
    /\ broadcast
    /\ GoTo(p, "out")
    /\ done' = [done EXCEPT ![p] = FALSE]
    /\ UNCHANGED <<readers, writer>>

unlock(p) ==
    /\ place[p] = "writing"
    /\ writer' = FALSE
    /\ broadcast
    /\ GoTo(p, "out")
    /\ done' = [done EXCEPT ![p] = FALSE]
    /\ UNCHANGED <<readers, writersWaiting>>

\* A timeout fires or a client disconnects while its request is in the lock.
contextDone(p) ==
    /\ place[p] # "out" /\ ~done[p]
    /\ done' = [done EXCEPT ![p] = TRUE]
    /\ UNCHANGED <<readers, writer, writersWaiting, place, woken>>

Next == \E p \in Proc : \/ rlock(p) \/ rlockGivesUp(p) \/ runlock(p)
                        \/ lock(p) \/ lockWakes(p) \/ lockGivesUp(p)
                        \/ unlock(p) \/ contextDone(p)

Spec == Init /\ [][Next]_vars
-----------------------------------------------------------------------------
(***************************************************************************)
(* Fairness. A goroutine inside the lock finishes its request and releases *)
(* (runlock and unlock are deferred; evaluation is bounded). A goroutine   *)
(* whose channel is closed is runnable and the Go scheduler runs it. When  *)
(* both the channel and ctx.Done() are ready, select picks one at random,  *)
(* so a waiter whose context stays done does not miss it for ever. Nothing *)
(* makes a goroutine start a request or a context done.                    *)
(***************************************************************************)
Fairness == \A p \in Proc : /\ WF_vars(runlock(p)) /\ WF_vars(unlock(p))
                            /\ WF_vars(place[p] = "rwait" /\ rlock(p))
                            /\ WF_vars(lockWakes(p))
                            /\ WF_vars(rlockGivesUp(p)) /\ WF_vars(lockGivesUp(p))
-----------------------------------------------------------------------------
At(l) == {p \in Proc : place[p] = l}

(***************************************************************************)
(* The three fields of the lock count what they say: readers the requests  *)
(* that read, writersWaiting the ones waiting in lock, and writer is set   *)
(* exactly while one request writes. runlock and unlock panic otherwise    *)
(* (lock.go:57-60, 94-97).                                                 *)
(***************************************************************************)
Accounting == /\ readers = Cardinality(At("reading"))
              /\ writersWaiting = Cardinality(At("wwait"))
              /\ writer <=> At("writing") # {}

(***************************************************************************)
(* A request that writes is alone: updates never interleave and no query   *)
(* runs during one (handler.go:19-22).                                     *)
(***************************************************************************)
MutualExclusion == \A p, q \in Proc :
    place[p] = "writing" /\ place[q] \in {"reading", "writing"} => p = q

(***************************************************************************)
(* No wake-up is lost: a request that sleeps on an open channel has a      *)
(* reason to. A reader sleeps only while a writer is inside or waiting, a  *)
(* writer only while someone is inside. A release or a cancelled writer    *)
(* that forgot to broadcast (lock.go:62, 81, 99) would leave a sleeper     *)
(* with nobody left to wake it.                                            *)
(***************************************************************************)
NoLostWakeup == \A p \in Proc :
    /\ place[p] = "rwait" /\ ~woken[p] => ~MayRead
    /\ place[p] = "wwait" /\ ~woken[p] => ~MayWrite

(***************************************************************************)
(* A steady stream of queries cannot starve an update (lock.go:12-14): as  *)
(* long as a writer waits, sooner or later a writer gets in, or all of     *)
(* them give up, although readers may come for ever.                       *)
(***************************************************************************)
WritersNotStarved == (At("wwait") # {}) ~> (writer \/ At("wwait") = {})

(***************************************************************************)
(* A waiting request honours its timeout and its client's disconnect       *)
(* (lock.go:8-10): once its context is done it stops waiting.              *)
(***************************************************************************)
DoneStopsWaiting == \A p \in Proc :
    (done[p] /\ place[p] \in {"rwait", "wwait"}) ~> (place[p] \notin {"rwait", "wwait"})

(***************************************************************************)
(* Whoever waits for the lock stops waiting: writers get in, however many  *)
(* readers come, and a request whose context is done gives up.             *)
(***************************************************************************)
WaitsEnd == WritersNotStarved /\ DoneStopsWaiting

(***************************************************************************)
(* Requests are let in as ReadersWriters allows: hold maps each place in   *)
(* the code to what the request has or asks for. (lock.go:8-16)            *)
(***************************************************************************)
Held(l) == IF l = "out"   THEN "none"
           ELSE IF l = "rwait" THEN "waitR"
           ELSE IF l = "wwait" THEN "waitW" ELSE l

HoldOf == [p \in Proc |-> Held(place[p])]

RW == INSTANCE ReadersWriters WITH hold <- HoldOf

Implements == RW!RWSpec
=============================================================================
