--------------------------- MODULE ReadersWriters ---------------------------
(***************************************************************************)
(* What the handler of package endpoint needs from its lock: requests that *)
(* read share the dataset, a request that writes has it alone, and a       *)
(* waiting writer holds new readers back (endpoint/lock.go:8-16).          *)
(* Nothing of how a request waits is here, only who may be let in and      *)
(* when. RWLock implements this specification, Endpoint is built on it.    *)
(***************************************************************************)
CONSTANT Proc    \* the goroutines that use the lock, one per request

VARIABLE hold    \* what each goroutine has or asks for

Holds == {"none", "waitR", "waitW", "reading", "writing"}

\* The goroutines in state h.
Holding(h) == {p \in Proc : hold[p] = h}

RWInit == hold = [p \in Proc |-> "none"]

BecomeAt(p, from, to) == /\ hold[p] = from
                         /\ hold' = [hold EXCEPT ![p] = to]

\* No writer is inside or waiting for its turn.
ReadersMayEnter == Holding("writing") = {} /\ Holding("waitW") = {}

\* Nobody is inside.
WriterMayEnter == Holding("writing") = {} /\ Holding("reading") = {}

AskRead(p)  == BecomeAt(p, "none", "waitR")
AskWrite(p) == BecomeAt(p, "none", "waitW")

\* A reader is let in, at once or after it waited.
EnterRead(p) == /\ ReadersMayEnter
                /\ BecomeAt(p, "none", "reading") \/ BecomeAt(p, "waitR", "reading")

\* A writer is let in, at once or after it waited.
EnterWrite(p) == /\ WriterMayEnter
                 /\ BecomeAt(p, "none", "writing") \/ BecomeAt(p, "waitW", "writing")

\* A request whose context is done stops waiting.
GiveUp(p) == BecomeAt(p, "waitR", "none") \/ BecomeAt(p, "waitW", "none")

Leave(p) == BecomeAt(p, "reading", "none") \/ BecomeAt(p, "writing", "none")

RWNext == \E p \in Proc : \/ AskRead(p)   \/ EnterRead(p)
                          \/ AskWrite(p)  \/ EnterWrite(p)
                          \/ GiveUp(p)    \/ Leave(p)

RWSpec == RWInit /\ [][RWNext]_hold
=============================================================================
