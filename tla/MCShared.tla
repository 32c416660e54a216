------------------------------ MODULE MCShared ------------------------------
(***************************************************************************)
(* Objects that goroutines share and that guard themselves, one per        *)
(* behaviour: the iterators of the memory store, the document loader, the  *)
(* namespace manager, the endpoint's lock and the handler that uses it.    *)
(* The others stay as they were made.                                      *)
(*                                                                         *)
(* Iterators: pages with a limit that bites, and with an offset without a  *)
(* limit. Names: the first generated prefix is also one callers bind.      *)
(* Handler: two goroutines serve four requests, readers and writers, over  *)
(* the default graph; the queues of three are the lock's.                  *)
(***************************************************************************)
EXTENDS MemoryIterators, DocumentLoader, NSManager, RWLock

CONSTANTS ex, ns1, ns2, ns3, p1, p2

MCPages == {<<1, 0>>, <<0, 1>>}
WholeGraph == {<<0, 0>>}
MCGenerated == <<ns1, ns2, ns3>>

OneTriple == {CHOOSE t \in Triple : TRUE}

MCRequests == {[kind |-> "query", graphs |-> {"default"}],
               [kind |-> "put", g |-> "default", triples |-> OneTriple]}

VARIABLES which,   \* the object of this behaviour
          hold, backend, quads, entries, step, req, todo, status, seen, ended, base, count, faults,
          stable

handlerVars == <<hold, backend, quads, entries, step, req, todo, status, seen, ended, base, count,
                 faults, stable>>

all == <<which, iterVars, loaderVars, namesVars, vars, handlerVars>>

Handler == INSTANCE Endpoint WITH
    data <- quads, pc <- step, done <- ended, Proc <- {p1, p2}, Triple <- OneTriple,
    Graph <- {}, Default <- "default", Fresh <- {}, Requests <- MCRequests,
    MaxRequests <- 4, MaxFaults <- 1, Backends <- {"store"}

AllInit == /\ which \in {"iterators", "loader", "names", "lock", "handler"}
           /\ IterInit /\ LoaderInit /\ NamesInit /\ Init /\ Handler!Init
           /\ which # "iterators" => data = {}
           /\ which # "handler" => quads = {}

\* Iterations inside each other may all stop for good; the others may not.
AllNext ==
    \/ /\ which = "iterators" /\ IterNext
       /\ UNCHANGED <<which, loaderVars, namesVars, vars, handlerVars>>
    \/ which = "iterators" /\ UNCHANGED all
    \/ /\ which = "loader" /\ LoaderNext
       /\ UNCHANGED <<which, iterVars, namesVars, vars, handlerVars>>
    \/ /\ which = "names" /\ NamesNext
       /\ UNCHANGED <<which, iterVars, loaderVars, vars, handlerVars>>
    \/ /\ which = "lock" /\ Next
       /\ UNCHANGED <<which, iterVars, loaderVars, namesVars, handlerVars>>
    \/ /\ which = "handler" /\ Handler!Next
       /\ UNCHANGED <<which, backend, iterVars, loaderVars, namesVars, vars>>

\* Each object's own fairness; nothing of an object that stays as it was made
\* is enabled by it.
SharedSpec == /\ AllInit /\ [][AllNext]_all
              /\ IterFairness /\ LoaderFairness /\ Fairness /\ Handler!Fairness
IteratorsSpec == which = "iterators" /\ AllInit /\ [][AllNext]_all /\ IterFairness
NamesOnlySpec == which = "names" /\ AllInit /\ [][AllNext]_all

\* Whoever waits is let go: iterations end and writes are done (store/memory.go:15,
\* as long as no loop body begins an iteration of its own), and every LoadDocument
\* of jsonld/loader.go returns, however often the fetches it waits for fail.
WaitersReturn == FlatCallsReturn /\ LoadsReturn

\* endpoint/handler.go, serve: every request that asks for the lock is decided,
\* whatever the others do: time out, fail, panic, or never read their response.
EveryRequestDecided == Handler!EveryRequestDecided
=============================================================================
