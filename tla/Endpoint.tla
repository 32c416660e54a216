------------------------------ MODULE Endpoint ------------------------------
(***************************************************************************)
(* The handler of package endpoint: SPARQL queries and updates, Graph      *)
(* Store requests and Handler.Read/Write, concurrently, over one dataset   *)
(* guarded by the readers-writer lock (ReadersWriters, which RWLock        *)
(* implements). A request is authorised, parsed and its payload read       *)
(* before it asks for the lock; it then looks up what it addresses, makes  *)
(* its calls on the dataset one by one, leaves, and answers.               *)
(*                                                                         *)
(* The calls of a request are stages of todo, as in Update, whose requests *)
(* appear here as any script of changes. A call may be refused for the     *)
(* request's done context, fail in the store, or panic.                    *)
(***************************************************************************)
EXTENDS ReadersWriters, Naturals, Sequences

CONSTANTS Triple, Graph,
          Default,       \* the default graph
          Fresh,         \* the graph names newGraphIRI mints, one per request
          Requests,      \* the requests clients send
          MaxRequests,   \* requests in total
          MaxFaults,     \* store failures and panics in total
          Backends       \* of "store" (storeBackend) and "map" (mapBackend)

ASSUME GraphNames == Default \notin Graph /\ Fresh \subseteq Graph
ASSUME BackendsAreKnown == Backends \subseteq {"store", "map"}

GraphRef == Graph \cup {Default}
Quad == GraphRef \X Triple

Reads == {"query", "get", "Read"}
GraphWrites == {"put", "post", "postStore", "delete"}
Writes == GraphWrites \cup {"update", "Write"}

Call(do, g, T) == [do |-> do, g |-> g, triples |-> T]

\* The calls that change the dataset. Named graphs are opened, graphs are
\* dropped as a whole.
Change(c) ==
    /\ c \in [do : {"ensure", "add", "remove", "drop"}, g : GraphRef, triples : SUBSET Triple]
    /\ c.do = "ensure" => c.g \in Graph /\ c.triples = {}
    /\ c.do = "drop" => c.triples = Triple

NoDrop(calls, g) == \A c \in calls : ~(c.do = "drop" /\ c.g = g)

\* Stage j of a script opens g for stage i (getOrCreateGraph, ensureGraph).
OpensFor(script, j, i, g) ==
    /\ j < i /\ Call("ensure", g, {}) \in script[j]
    /\ \A k \in j..i : NoDrop(script[k], g)

ScriptOK(script) ==
    /\ script \in Seq(SUBSET [do : {"ensure", "add", "remove", "drop"}, g : GraphRef,
                              triples : SUBSET Triple])
    /\ \A i \in DOMAIN script : \A c \in script[i] :
          /\ Change(c)
          /\ c.do = "add" /\ c.g \in Graph => \E j \in DOMAIN script : OpensFor(script, j, i, c.g)

\* What parsing lets through: requests that say which graphs they are about.
RequestOK(q) ==
    \/ q.kind \in {"query", "Read"} /\ q.graphs \subseteq GraphRef
    \/ q.kind \in {"get", "delete"} /\ q.g \in GraphRef
    \/ q.kind \in {"put", "post", "postStore"} /\ q.g \in GraphRef /\ q.triples \subseteq Triple
    \/ q.kind \in {"update", "Write"} /\ ScriptOK(q.script)

ASSUME RequestsParsed == \A q \in Requests : RequestOK(q)

VARIABLES backend,  \* what the handler was made with
          data,     \* the dataset, a set of quads
          entries,  \* mapBackend: the graphs with an entry in NamedGraphs
          pc,       \* per request: "idle", "ask", "look", "work" or "send"
          req,      \* the request
          todo,     \* its calls left, in stages
          status,   \* its answer
          seen,     \* the quads it has read
          done,     \* its context is done
          base,     \* the dataset when it was let in
          count,    \* requests so far
          faults,   \* failures so far
          stable    \* the dataset when the last writer left

evars == <<data, entries, pc, req, todo, status, seen, done, base, count, faults, stable>>
vars == <<hold, evars>>

In(q, g) == {t \in Triple : <<g, t>> \in q}
At(g, T) == {g} \X T
NonEmpty(q) == {g \in Graph : In(q, g) # {}}

State == [data |-> data, entries |-> entries]

\* backend.graph: a map holds a graph while it has an entry, a store while it
\* has a triple.
ExistsIn(s, g) == IF backend = "store" THEN In(s.data, g) # {} ELSE g \in s.entries

NoRequest == [kind |-> "none"]
Nothing == [data |-> {}, entries |-> {}]

Init == /\ RWInit
        /\ backend \in Backends
        /\ data \in SUBSET ((GraphRef \ Fresh) \X Triple)
        /\ entries = NonEmpty(data)
        /\ pc = [r \in Proc |-> "idle"]
        /\ req = [r \in Proc |-> NoRequest]
        /\ todo = [r \in Proc |-> <<>>]
        /\ status = [r \in Proc |-> "none"]
        /\ seen = [r \in Proc |-> {}]
        /\ done = [r \in Proc |-> FALSE]
        /\ base = [r \in Proc |-> Nothing]
        /\ count = 0 /\ faults = 0
        /\ stable = State
-----------------------------------------------------------------------------
GoTo(r, l) == pc' = [pc EXCEPT ![r] = l]

ReadCalls(gs) == {Call("read", g, {}) : g \in gs}
Adds(g, T) == {Call("add", g, {t}) : t \in T}
Clear(g) == {Call("remove", g, Triple)}
Ensure(g) == {Call("ensure", g, {})}
Drop(g) == {Call("drop", g, Triple)}

Opened(g) == IF g = Default THEN {} ELSE Ensure(g)

\* The graphs a request may change.
Written(q) ==
    {g \in GraphRef :
        \/ q.kind \in GraphWrites /\ g = q.g
        \/ /\ q.kind \in {"update", "Write"}
           /\ \E i \in DOMAIN q.script : \E c \in q.script[i] : c.g = g}

\* Nobody else knows the name a POST to the graph store mints while it runs.
Apart(q, p) ==
    q.kind = "postStore" \/ p.kind = "postStore" => Written(q) \cap Written(p) = {}

\* A request is read in full: it is refused, for its form, its payload or the
\* Authorizer, or goes on to the lock. Direct calls of Read and Write go on.
\* A POST to the graph store mints a name that nothing else has.
Arrive(r) ==
    /\ pc[r] = "idle" /\ count < MaxRequests
    /\ \E q \in Requests :
        /\ q.kind = "postStore" => q.g \in Fresh /\ ~ExistsIn(State, q.g)
        /\ \A p \in Proc : pc[p] \notin {"idle", "send"} => Apart(q, req[p])
        /\ req' = [req EXCEPT ![r] = q]
        /\ \/ GoTo(r, "ask") /\ UNCHANGED status
           \/ /\ q.kind \notin {"Read", "Write"}
              /\ GoTo(r, "send") /\ status' = [status EXCEPT ![r] = "4xx"]
    /\ count' = count + 1
    /\ UNCHANGED <<hold, data, entries, todo, seen, done, base, faults, stable>>

\* rlock and lock block.
Wait(r) ==
    /\ pc[r] = "ask"
    /\ \/ req[r].kind \in Reads /\ ~ReadersMayEnter /\ AskRead(r)
       \/ req[r].kind \in Writes /\ ~WriterMayEnter /\ AskWrite(r)
    /\ UNCHANGED evars

Enter(r) ==
    /\ pc[r] = "ask"
    /\ \/ req[r].kind \in Reads /\ EnterRead(r)
       \/ req[r].kind \in Writes /\ EnterWrite(r)
    /\ GoTo(r, "look")
    /\ base' = [base EXCEPT ![r] = State]
    /\ UNCHANGED <<data, entries, req, todo, status, seen, done, count, faults, stable>>

\* The context is done before the lock is free: 503, or nobody to answer.
StopWaiting(r) ==
    /\ pc[r] = "ask" /\ done[r] /\ GiveUp(r)
    /\ GoTo(r, "send") /\ status' = [status EXCEPT ![r] = "fail"]
    /\ UNCHANGED <<data, entries, req, todo, seen, done, base, count, faults, stable>>

\* The graphs a query sees: those its dataset names, of those there are.
View(s, gs) == {g \in gs : g = Default \/ ExistsIn(s, g)}

(***************************************************************************)
(* What a request decides once it is let in, before its first call: the    *)
(* answer it will give if no call fails, and its calls.                    *)
(***************************************************************************)
query(q) == [status |-> "200", calls |-> <<ReadCalls(View(State, q.graphs))>>]

gspGet(q) == IF q.g = Default \/ ExistsIn(State, q.g)
             THEN [status |-> "200", calls |-> <<ReadCalls({q.g})>>]
             ELSE [status |-> "404", calls |-> <<>>]

\* Mutant: PUT adds to what the graph held.
gspPutMerging(q) ==
    [status |-> IF ExistsIn(State, q.g) THEN "204" ELSE "201",
     calls |-> <<Opened(q.g), Adds(q.g, q.triples)>>]

\* A named graph is created if it did not exist, the default graph if it was empty.
gspPut(q) ==
    [status |-> IF (IF q.g = Default THEN In(data, q.g) # {} ELSE ExistsIn(State, q.g))
                THEN "204" ELSE "201",
     calls |-> <<Opened(q.g), Clear(q.g), Adds(q.g, q.triples)>>]

gspPost(q) ==
    [status |-> IF q.kind = "postStore" \/ (q.g # Default /\ ~ExistsIn(State, q.g))
                THEN "201" ELSE "200",
     calls |-> <<Opened(q.g), Adds(q.g, q.triples)>>]

gspDelete(q) == IF q.g = Default THEN [status |-> "200", calls |-> <<Clear(q.g)>>]
                ELSE IF ExistsIn(State, q.g) THEN [status |-> "200", calls |-> <<Drop(q.g)>>]
                ELSE [status |-> "404", calls |-> <<>>]

Decide(q) == CASE q.kind \in {"query", "Read"} -> query(q)
               [] q.kind = "get" -> gspGet(q)
               [] q.kind = "put" -> gspPut(q)
               [] q.kind \in {"post", "postStore"} -> gspPost(q)
               [] q.kind = "delete" -> gspDelete(q)
               [] OTHER -> [status |-> "204", calls |-> q.script]

\* The decision reads the store: the backend lists the graphs of a store or
\* looks for a triple of one; a map is at hand, but PUT counts the default graph.
LooksUp(q) == /\ q.kind \notin {"postStore", "Read", "Write"}
              /\ backend = "store" \/ (q.kind = "put" /\ q.g = Default)

Look(r) ==
    /\ pc[r] = "look" /\ GoTo(r, "work")
    /\ done[r] => ~LooksUp(req[r])
    /\ todo' = [todo EXCEPT ![r] = Decide(req[r]).calls]
    /\ status' = [status EXCEPT ![r] = Decide(req[r]).status]
    /\ UNCHANGED <<hold, data, entries, req, seen, done, base, count, faults, stable>>

\* Mutant: writing to the default graph enters it among the named ones.
DoEntersDefault(r, c) ==
    /\ data' = IF c.do \in {"remove", "drop"} THEN data \ At(c.g, c.triples)
                                              ELSE data \cup At(c.g, c.triples)
    /\ entries' = IF c.do = "drop" THEN entries \ {c.g} ELSE entries \cup {c.g}
    /\ UNCHANGED seen

\* One call on the dataset. A store forgets an emptied graph by itself.
Do(r, c) ==
    \/ /\ c.do = "read"
       /\ seen' = [seen EXCEPT ![r] = @ \cup At(c.g, In(data, c.g))]
       /\ UNCHANGED <<data, entries>>
    \/ /\ c.do \in {"ensure", "add"}
       /\ data' = data \cup At(c.g, c.triples)
       /\ entries' = IF c.do = "ensure" THEN entries \cup {c.g} ELSE entries
       /\ UNCHANGED seen
    \/ /\ c.do \in {"remove", "drop"}
       /\ data' = data \ At(c.g, c.triples)
       /\ entries' = IF c.do = "drop" THEN entries \ {c.g} ELSE entries
       /\ UNCHANGED seen

Rest(stages, c) == IF Head(stages) \subseteq {c} THEN Tail(stages)
                   ELSE <<Head(stages) \ {c}>> \o Tail(stages)

\* ensureGraph takes no context, callers of Read and Write need not, and an
\* update commits without; any other call is refused once it is done.
GoesThrough(r, c) ==
    done[r] => c.do = "ensure" \/ req[r].kind \in {"update", "Read", "Write"}

Step(r) ==
    /\ pc[r] = "work" /\ todo[r] # <<>>
    /\ \/ /\ Head(todo[r]) = {}
          /\ todo' = [todo EXCEPT ![r] = Tail(@)]
          /\ UNCHANGED <<data, entries, seen>>
       \/ \E c \in Head(todo[r]) :
          /\ GoesThrough(r, c) /\ Do(r, c)
          /\ todo' = [todo EXCEPT ![r] = Rest(@, c)]
    /\ UNCHANGED <<hold, pc, req, status, done, base, count, faults, stable>>

\* Mutant: a graph that could not be dropped loses its entry.
CallFailsForgetting(r) ==
    /\ pc[r] = "work" /\ todo[r] # <<>>
    /\ faults < MaxFaults /\ faults' = faults + 1
    /\ entries' = entries \ {c.g : c \in {d \in Head(todo[r]) : d.do = "drop"}}
    /\ status' = [status EXCEPT ![r] = "fail"]
    /\ todo' = [todo EXCEPT ![r] = <<>>]
    /\ UNCHANGED <<hold, data, pc, req, seen, done, base, count, stable>>

\* What storeBackend.commit has still to save: an update fills the graphs it
\* makes in memory.
Unsaved(r) ==
    {c \in UNION {todo[r][i] : i \in DOMAIN todo[r]} :
        /\ req[r].kind = "update" /\ backend = "store"
        /\ c.do = "add" /\ c.g \in Graph /\ ~ExistsIn(base[r], c.g)}

commit(S) == IF S = {} THEN <<>> ELSE <<{Call("ensure", c.g, {}) : c \in S}, S>>

Fault == faults < MaxFaults /\ faults' = faults + 1
Refused(r) == (done[r] /\ UNCHANGED faults) \/ Fault

\* A lookup or a call is refused for the done context, or fails in the store:
\* the request makes no further call. An update still commits what it had put
\* into the graphs it made, without its context, unless that is what failed.
CallFails(r) ==
    /\ req[r].kind \notin {"Read", "Write"}
    /\ \/ /\ pc[r] = "look" /\ LooksUp(req[r]) /\ Refused(r)
          /\ todo' = [todo EXCEPT ![r] = <<>>]
       \/ /\ pc[r] = "work" /\ todo[r] # <<>>
          /\ \E c \in Head(todo[r]) :
              \/ c \in Unsaved(r) /\ Fault /\ todo' = [todo EXCEPT ![r] = <<>>]
              \/ /\ c.do # "ensure" /\ c \notin Unsaved(r) /\ Refused(r)
                 /\ \E S \in SUBSET Unsaved(r) : todo' = [todo EXCEPT ![r] = commit(S)]
    /\ status' = [status EXCEPT ![r] = "fail"]
    /\ GoTo(r, "work")
    /\ UNCHANGED <<hold, data, entries, req, seen, done, base, count, stable>>

Unlocked(r) == /\ Leave(r)
               /\ GoTo(r, "send")
               /\ stable' = IF hold[r] = "writing" THEN State ELSE stable

\* Mutant: readers give the lock back before their last stage.
FinishReadsEarly(r) ==
    /\ pc[r] = "work"
    /\ \/ todo[r] = <<>> /\ hold[r] # "none" /\ Unlocked(r)
       \/ todo[r] = <<>> /\ hold[r] = "none" /\ GoTo(r, "send") /\ UNCHANGED <<hold, stable>>
       \/ Len(todo[r]) = 1 /\ BecomeAt(r, "reading", "none") /\ UNCHANGED <<pc, stable>>
    /\ UNCHANGED <<data, entries, req, todo, status, seen, done, base, count, faults>>

\* Mutant: writers give the lock back before their last stage.
FinishWritesEarly(r) ==
    /\ pc[r] = "work"
    /\ \/ todo[r] = <<>> /\ hold[r] # "none" /\ Unlocked(r)
       \/ todo[r] = <<>> /\ hold[r] = "none" /\ GoTo(r, "send") /\ UNCHANGED <<hold, stable>>
       \/ Len(todo[r]) = 1 /\ BecomeAt(r, "writing", "none") /\ stable' = State /\ UNCHANGED pc
    /\ UNCHANGED <<data, entries, req, todo, status, seen, done, base, count, faults>>

\* The deferred unlock. A result may still be too large or not fit the format,
\* and evalError answers a Graph Store request whose time is up with 503,
\* also when all its calls went through.
Finish(r) ==
    /\ pc[r] = "work" /\ todo[r] = <<>> /\ Unlocked(r)
    /\ \/ UNCHANGED status
       \/ /\ \/ req[r].kind \in {"query", "get"} /\ status[r] = "200"
             \/ done[r] /\ req[r].kind \in {"get", "put", "post", "postStore", "delete"}
          /\ status' = [status EXCEPT ![r] = "fail"]
    /\ UNCHANGED <<data, entries, req, todo, seen, done, base, count, faults>>

\* Mutant: a panic passes by the unlock.
PanicsKeepingLock(r) ==
    /\ pc[r] \in {"look", "work"} /\ faults < MaxFaults
    /\ faults' = faults + 1
    /\ GoTo(r, "send")
    /\ status' = [status EXCEPT ![r] = "fail"]
    /\ todo' = [todo EXCEPT ![r] = <<>>]
    /\ UNCHANGED <<hold, data, entries, req, seen, done, base, count, stable>>

\* A panic unwinds through the deferred unlock; serve answers 500.
Panics(r) ==
    /\ pc[r] \in {"look", "work"} /\ faults < MaxFaults
    /\ faults' = faults + 1
    /\ Unlocked(r)
    /\ status' = [status EXCEPT ![r] = "fail"]
    /\ todo' = [todo EXCEPT ![r] = <<>>]
    /\ UNCHANGED <<data, entries, req, seen, done, base, count>>

\* The response is sent, at the speed of the client.
Send(r) ==
    /\ pc[r] = "send" /\ GoTo(r, "idle")
    /\ status' = [status EXCEPT ![r] = "none"]
    /\ seen' = [seen EXCEPT ![r] = {}]
    /\ done' = [done EXCEPT ![r] = FALSE]
    /\ req' = [req EXCEPT ![r] = NoRequest]
    /\ base' = [base EXCEPT ![r] = Nothing]
    /\ UNCHANGED <<hold, data, entries, todo, count, faults, stable>>

\* The time limit passes, or the client goes away.
ContextDone(r) ==
    /\ pc[r] \in {"ask", "look", "work"} /\ ~done[r]
    /\ done' = [done EXCEPT ![r] = TRUE]
    /\ UNCHANGED <<hold, data, entries, pc, req, todo, status, seen, base, count, faults, stable>>

\* All requests are answered.
Quiet == count = MaxRequests /\ (\A r \in Proc : pc[r] = "idle") /\ UNCHANGED vars

Next == Quiet \/ \E r \in Proc :
            \/ Arrive(r) \/ Wait(r) \/ Enter(r) \/ StopWaiting(r) \/ Look(r) \/ Step(r)
            \/ CallFails(r) \/ Finish(r) \/ Panics(r) \/ Send(r) \/ ContextDone(r)

Spec == Init /\ [][Next /\ UNCHANGED backend]_<<vars, backend>>

(***************************************************************************)
(* A goroutine that can go on does. Nothing is assumed of clients: they    *)
(* may never send another request, never read their response, never go     *)
(* away; nor of the store: it need not fail.                               *)
(***************************************************************************)
Fairness == \A r \in Proc : /\ WF_vars(Wait(r) \/ Enter(r))
                            /\ WF_vars(StopWaiting(r))
                            /\ WF_vars(Look(r) \/ Step(r) \/ CallFails(r) \/ Finish(r))
-----------------------------------------------------------------------------
TypeOK ==
    /\ data \subseteq Quad /\ entries \subseteq Graph
    /\ pc \in [Proc -> {"idle", "ask", "look", "work", "send"}]
    /\ status \in [Proc -> {"none", "200", "201", "204", "404", "4xx", "fail"}]
    /\ hold \in [Proc -> Holds]
    /\ seen \in [Proc -> SUBSET Quad]

Worked(r) == pc[r] = "work" /\ todo[r] = <<>>

\* endpoint/doc.go:104-106: a query never observes a half-applied update. What
\* a query or graph read answers with 200 is the graphs it addresses as they
\* were at one moment between writes, also once the lock is given back.
AnswersOneState == \A r \in Proc :
    (Worked(r) \/ pc[r] = "send") /\ req[r].kind \in Reads /\ status[r] = "200"
        => LET gs == IF req[r].kind = "get" THEN {req[r].g} ELSE req[r].graphs
           IN  seen[r] = {q \in base[r].data : q[1] \in gs}

\* doc.go:104-106: two updates never interleave, and nobody is let in on a
\* dataset that a writer, also one that failed or panicked, still works on.
WritesIsolated ==
    /\ Holding("writing") = {} => State = stable
    /\ \A r \in Proc : hold[r] # "none" /\ pc[r] = "look" => base[r] = stable

Others(q, g) == {x \in q : x[1] # g}

\* A successful Graph Store write did to the addressed graph what its answer
\* says, judged by the dataset it was let in on, and nothing to any other
\* graph; 404 means the graph was not there and nothing changed.
WriteExact == \A r \in Proc : Worked(r) =>
    LET q == req[r]
        old == In(base[r].data, q.g)
        new == In(data, q.g)
        was == IF q.g = Default THEN old # {} ELSE ExistsIn(base[r], q.g)
    IN  /\ q.kind = "put" /\ status[r] # "fail" =>
              new = q.triples /\ (status[r] = "201" <=> ~was)
        /\ q.kind \in {"post", "postStore"} /\ status[r] # "fail" =>
              /\ new = old \cup q.triples
              /\ q.g # Default => (status[r] = "201" <=> ~was)
        /\ q.kind = "delete" /\ status[r] = "200" =>
              new = {} /\ ~ExistsIn(State, q.g)
        /\ q.kind = "delete" /\ status[r] = "404" => ~was /\ State = base[r]
        /\ q.kind \in {"put", "post", "postStore", "delete"} =>
              Others(data, q.g) = Others(base[r].data, q.g)

\* A graph that was written with a triple is found by the next request, and
\* in a store one without a triple is not: no triple hides in a graph that
\* does not exist. (backend.go:33-36, 64-66)
NoHiddenTriples == NonEmpty(data) \subseteq {g \in Graph : ExistsIn(State, g)}

\* Every request that asks for the lock is decided, whatever other requests
\* do: time out, fail, panic, or never read their response.
EveryRequestDecided == \A r \in Proc : pc[r] = "ask" ~> pc[r] = "send"
=============================================================================
