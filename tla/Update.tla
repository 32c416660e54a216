------------------------------- MODULE Update -------------------------------
(***************************************************************************)
(* sparql/update.go and the locked part of endpoint/update.go: one update  *)
(* request, from taking the write lock to releasing it. The dataset has    *)
(* one owner meanwhile (RWLock), so only the request's own steps, its      *)
(* context and the store's failures matter.                                *)
(*                                                                         *)
(* An operation plans its changes and applies them through the store one   *)
(* call at a time; todo holds the calls left, as stages: calls of a stage  *)
(* come in the order of the request or of an iterator, so in any order.    *)
(* Each call carries the context of the request, and every store refuses   *)
(* a call whose context is done (store/store.go:29-30).                    *)
(*                                                                         *)
(* A graph the engine does not know is created in memory and only later    *)
(* copied into the store (commit); a handler over a sparql.Dataset         *)
(* (mapBackend) has no such second copy.                                   *)
(***************************************************************************)
EXTENDS Naturals, Sequences, SequencesExt

CONSTANTS Triple,       \* triples
          Graph,        \* names of named graphs
          Default,      \* the default graph, none of Graph
          Ops,          \* the operations a request may hold
          MaxOps,       \* operations per request
          MaxFaults     \* store calls that fail by themselves

VARIABLES setup,   \* how the handler was made: its backend, and whether with a Loader
          quads,   \* the dataset as the engine sees it: store and in-memory graphs
          named,   \* the keys of ds.NamedGraphs
          mem,     \* those of them the request created, in memory
          saved,   \* quads of mem that commit has written to the store
          pc,      \* "begin", "next", "eval", "apply", "commit" or "end"
          op,      \* the operation at hand
          nops,    \* operations started
          todo,    \* its store calls left, in stages
          err,     \* why evaluation stops, "none" while it goes on
          cerr,    \* listing the graphs or saving the new ones failed
          done,    \* the request's context is done
          faults,  \* store failures so far
          old      \* the dataset when op began: what op has to be judged by

vars == <<quads, named, mem, saved, pc, op, nops, todo, err, cerr, done, faults, old>>

StoreBacked == setup.backend = "store"     \* storeBackend, else mapBackend
HasLoader == setup.loader

GraphRef == Graph \cup {Default}
Quad == GraphRef \X Triple
In(q, g) == {t \in Triple : <<g, t>> \in q}
At(g, T) == {g} \X T
Drops(q, gs) == {x \in q : x[1] \notin gs}

\* What is left of the dataset once the request is over: in a map its graphs,
\* also those made in memory, in a store what was written to it.
Store == IF StoreBacked THEN {q \in quads : q[1] \notin mem \/ q \in saved} ELSE quads

\* Graphs named by the store, or any graph an entry was made for earlier.
Entries(q) == {ns \in SUBSET Graph :
                  /\ {g \in Graph : In(q, g) # {}} \subseteq ns
                  /\ StoreBacked => ns = {g \in Graph : In(q, g) # {}}}

Init == /\ setup \in [backend : {"store", "map"}, loader : BOOLEAN]
        /\ quads \in SUBSET Quad
        /\ named \in Entries(quads)
        /\ mem = {} /\ saved = {} /\ todo = <<>> /\ nops = 0
        /\ pc = "begin" /\ op = [op |-> "none"]
        /\ err = "none" /\ cerr = FALSE /\ done = FALSE /\ faults = 0
        /\ old = [quads |-> quads, named |-> named]
-----------------------------------------------------------------------------
\* A call; "open" finds or creates a graph, the others go to the graph's store.
Call(do, g, T) == [do |-> do, g |-> g, triples |-> T]
Adds(qs) == {Call("add", q[1], {q[2]}) : q \in qs}
Removes(qs) == {Call("remove", q[1], {q[2]}) : q \in qs}
Clears(gs, do) == {Call(do, g, Triple) : g \in gs}
Open(g) == {Call("open", g, {})}

\* getOrCreateGraph on every graph of gs.
Create(gs) ==
    /\ named' = named \cup (gs \ {Default})
    /\ mem' = mem \cup (gs \ (named \cup {Default}))

Exists(g) == g = Default \/ g \in named

\* The graphs CLEAR and DROP reach; a graph that is not there is no error.
Targets(target, ns) == CASE target = "DEFAULT" -> {Default}
                         [] target = "NAMED" -> ns
                         [] target = "ALL" -> ns \cup {Default}
                         [] OTHER -> ns \cap {target}

\* The operation will make these calls; nothing has changed yet.
Plan(stages) == todo' = stages /\ UNCHANGED <<quads, named, mem, err, faults>>

Stop(e) == err' = e /\ todo' = <<>> /\ UNCHANGED <<quads, named, mem, faults>>

\* A read of the store is refused, its context being done, or fails.
ReadFails(e) ==
    /\ todo' = <<>>
    /\ \/ done /\ err' = "cancelled" /\ UNCHANGED faults
       \/ faults < MaxFaults /\ err' = e /\ faults' = faults + 1
    /\ UNCHANGED quads

\* Per group of the data block: find the graph, then one call per triple.
InGroups(groups, Calls(_)) ==
    FlattenSeq([i \in DOMAIN groups |->
                   <<Open(groups[i].g), Calls(At(groups[i].g, groups[i].triples))>>])

evalInsertData(o) == o.op = "insertData" /\ Plan(InGroups(o.groups, Adds))

evalDeleteData(o) == o.op = "deleteData" /\ Plan(InGroups(o.groups, Removes))

(***************************************************************************)
(* Evaluate a WHERE clause that has the solutions All and instantiate the  *)
(* templates, whose graphs gs are resolved once a solution needs them. An  *)
(* evaluation interrupted by the context or by a failing read unwinds with *)
(* the solutions it has; the poll before the first change drops them.      *)
(***************************************************************************)
Where(gs, All, Stages(_)) ==
    \/ /\ ~done
       /\ Create(IF All = {} THEN {} ELSE gs)
       /\ todo' = Stages(All)
       /\ UNCHANGED <<quads, err, faults>>
    \/ \E found \in SUBSET gs : Create(found) /\ ReadFails("read")

\* Mutant: the solutions found before a read failed are applied.
evalDeleteWhereUnpolled(o) ==
    /\ o.op = "deleteWhere"
    /\ \E sols \in SUBSET In(quads, o.g) :
        /\ faults < MaxFaults \/ sols = In(quads, o.g)
        /\ faults' = faults + (IF sols = In(quads, o.g) THEN 0 ELSE 1)
        /\ err' = IF sols = In(quads, o.g) THEN err ELSE "read"
        /\ todo' = <<Removes(At(o.g, sols))>>
    /\ UNCHANGED <<quads, named, mem>>

\* DELETE WHERE { GRAPH g { ?s ?p ?o } }
evalDeleteWhere(o) ==
    /\ o.op = "deleteWhere"
    /\ Where({o.g}, In(quads, o.g), LAMBDA sols : <<Removes(At(o.g, sols))>>)

\* The solutions of { ?s ?p ?o } over the WITH graph, or over the merge of the
\* USING graphs, of which those without an entry are left out.
Solutions(o, q, ns) ==
    IF o.using = {} THEN In(q, o.with) ELSE UNION {In(q, g) : g \in o.using \cap ns}

\* WITH g DELETE { ?s ?p ?o } INSERT { GRAPH h { ?s ?p ?o } }
\* USING ... WHERE { ?s ?p ?o }
evalModify(o) ==
    /\ o.op = "modify"
    /\ \/ Where({o.with, o.into}, Solutions(o, quads, named),
                LAMBDA sols : <<Removes(At(o.with, sols)), Adds(At(o.into, sols))>>)
       \/ o.using # {} /\ ReadFails("store") /\ UNCHANGED <<named, mem>>

\* CLEAR and DROP: the default graph first.
evalClear(o) ==
    /\ o.op \in {"clear", "drop"}
    /\ LET gs == Targets(o.target, named)
       IN  Plan(<<Clears(gs \cap {Default}, o.op), Clears(gs \ {Default}, o.op)>>)

\* CREATE does nothing; a graph comes to be with its first triple.
evalCreate(o) == o.op = "create" /\ Plan(<<>>)

\* LOAD: what a Loader that gives up has written stays; SILENT hides it.
evalLoad(o) ==
    /\ o.op = "load" /\ HasLoader
    /\ Create({o.into})
    /\ todo' = <<>>
    /\ \E got \in SUBSET o.triples :
        /\ quads' = quads \cup At(o.into, got)
        /\ \/ got = o.triples /\ ~done /\ UNCHANGED err
           \/ err' = IF o.silent THEN err ELSE "rejected"
    /\ UNCHANGED faults

\* Without a Loader. (The endpoint refuses a LOAD that is not SILENT before it
\* takes the lock, endpoint/update.go:48-57; other callers of the engine get here.)
evalLoadWithoutLoader(o) ==
    /\ o.op = "load" /\ ~HasLoader
    /\ IF o.silent THEN Plan(<<>>) ELSE Stop("rejected")

\* transferGraphs: the triples are read before the first change.
transferGraphs(o, replace) ==
    <<Open(o.dst)>> \o (IF replace THEN <<Clears({o.dst}, "clear")>> ELSE <<>>)
                    \o <<Adds(At(o.dst, In(quads, o.src)))>>

\* MOVE's calls: the source goes once its triples are in the target.
move(o) == transferGraphs(o, TRUE) \o <<Clears({o.src}, "drop")>>

SelfMove(o) == o.op = "move" /\ o.src = o.dst

evalTransfer(o) ==
    /\ o.op \in {"add", "copy", "move"}
    /\ \/ SelfMove(o) /\ Plan(<<>>)
       \/ ~SelfMove(o) /\ ~Exists(o.src) /\ (IF o.silent THEN Plan(<<>>) ELSE Stop("rejected"))
       \/ ~SelfMove(o) /\ Exists(o.src)
          /\ \/ Plan(IF o.op = "move" THEN move(o) ELSE transferGraphs(o, o.op = "copy"))
             \/ ReadFails("store") /\ UNCHANGED <<named, mem>>
-----------------------------------------------------------------------------
\* With the lock held, updateDataset lists the named graphs of a store.
Begin ==
    /\ pc = "begin"
    /\ \/ (StoreBacked => ~done) /\ pc' = "next" /\ UNCHANGED <<cerr, faults>>
       \/ /\ StoreBacked /\ cerr' = TRUE /\ pc' = "end"
          /\ \/ done /\ UNCHANGED faults
             \/ faults < MaxFaults /\ faults' = faults + 1
    /\ UNCHANGED <<quads, named, mem, saved, op, nops, todo, err, done, old>>

\* EvalUpdateContext polls the context before each operation.
StartOp ==
    /\ pc = "next" /\ nops < MaxOps
    /\ \/ ~done /\ op' \in Ops /\ nops' = nops + 1 /\ pc' = "eval" /\ UNCHANGED err
       \/ done /\ err' = "cancelled" /\ pc' = "commit" /\ UNCHANGED <<op, nops>>
    /\ old' = [quads |-> quads, named |-> named]
    /\ UNCHANGED <<quads, named, mem, saved, todo, cerr, done, faults>>

\* evalUpdateOp, up to the first change.
Evaluate ==
    /\ pc = "eval"
    /\ \/ evalInsertData(op) \/ evalDeleteData(op) \/ evalDeleteWhere(op)
       \/ evalModify(op) \/ evalClear(op) \/ evalCreate(op) \/ evalLoad(op)
       \/ evalLoadWithoutLoader(op) \/ evalTransfer(op)
    /\ pc' = "apply"
    /\ UNCHANGED <<saved, op, nops, cerr, done, old>>

\* What a call that goes through does to the dataset.
Do(c) ==
    \/ c.do = "open" /\ Create({c.g}) /\ UNCHANGED quads
    \/ c.do = "add" /\ quads' = quads \cup At(c.g, c.triples) /\ UNCHANGED <<named, mem>>
    \/ c.do \in {"remove", "clear"} /\ quads' = quads \ At(c.g, c.triples)
       /\ UNCHANGED <<named, mem>>
    \/ c.do = "drop" /\ quads' = quads \ At(c.g, c.triples)
       /\ named' = named \ {c.g} /\ mem' = mem \ {c.g}

\* The stages after call c of the first one.
Rest(c) == IF Head(todo) = {c} THEN Tail(todo) ELSE <<Head(todo) \ {c}>> \o Tail(todo)

\* A call goes through, is refused for the done context, or fails. A stage
\* without calls is passed over.
Apply ==
    /\ pc = "apply" /\ todo # <<>>
    /\ \/ /\ Head(todo) = {}
          /\ todo' = Tail(todo)
          /\ UNCHANGED <<quads, named, mem, err, faults>>
       \/ \E c \in Head(todo) :
          \/ /\ done => c.do = "open"
             /\ Do(c) /\ todo' = Rest(c) /\ UNCHANGED <<err, faults>>
          \/ done /\ c.do # "open" /\ Stop("cancelled")
          \/ /\ faults < MaxFaults /\ c.do # "open" /\ c.g \notin mem
             /\ err' = "store" /\ faults' = faults + 1 /\ todo' = <<>>
             /\ UNCHANGED <<quads, named, mem>>
    /\ UNCHANGED <<saved, pc, op, nops, cerr, done, old>>

\* Mutant: the error of an operation is lost.
EndOpForgets ==
    /\ pc = "apply" /\ todo = <<>>
    /\ err' = IF done THEN "cancelled" ELSE "none"
    /\ pc' = IF err' = "none" THEN "next" ELSE "commit"
    /\ UNCHANGED <<quads, named, mem, saved, op, nops, todo, cerr, done, faults, old>>

\* The operation is over. The poll after it reports a cancellation, unless a
\* failed read of a WHERE clause was the first reason to stop.
EndOp ==
    /\ pc = "apply" /\ todo = <<>>
    /\ err' = IF done /\ err # "read" THEN "cancelled" ELSE err
    /\ pc' = IF err' = "none" THEN "next" ELSE "commit"
    /\ UNCHANGED <<quads, named, mem, saved, op, nops, todo, cerr, done, faults, old>>

\* The request has no operation left.
EndRequest ==
    /\ pc = "next"
    /\ pc' = "commit"
    /\ UNCHANGED <<quads, named, mem, saved, op, nops, todo, err, cerr, done, faults, old>>

\* The quads commit still has to write.
Unsaved == IF StoreBacked THEN {q \in quads : q[1] \in mem} \ saved ELSE {}

\* commit: with a context that is never done, so only the store can fail it.
commit ==
    /\ pc = "commit"
    /\ \/ Unsaved = {} /\ pc' = "end" /\ UNCHANGED <<saved, cerr, faults>>
       \/ \E q \in Unsaved : saved' = saved \cup {q} /\ UNCHANGED <<pc, cerr, faults>>
       \/ /\ Unsaved # {} /\ faults < MaxFaults
          /\ faults' = faults + 1 /\ cerr' = TRUE /\ pc' = "end"
          /\ UNCHANGED saved
    /\ UNCHANGED <<quads, named, mem, op, nops, todo, err, done, old>>

\* A panic, in an extension function say, unwinds past commit; the lock is released and a 500 is sent.
Panic ==
    /\ pc = "eval"
    /\ err' = "panic" /\ pc' = "end"
    /\ UNCHANGED <<quads, named, mem, saved, op, nops, todo, cerr, done, faults, old>>

\* The time limit passes or the client disconnects.
ContextDone ==
    /\ ~done /\ pc # "end" /\ done' = TRUE
    /\ UNCHANGED <<quads, named, mem, saved, pc, op, nops, todo, err, cerr, faults, old>>

\* The lock is released; nothing more happens in this request.
Ended == pc = "end" /\ UNCHANGED vars

Next == Begin \/ StartOp \/ Evaluate \/ Apply \/ EndOp \/ EndRequest \/ commit
        \/ Panic \/ ContextDone \/ Ended

Spec == Init /\ [][Next /\ UNCHANGED setup]_<<vars, setup>>
-----------------------------------------------------------------------------
TypeOK ==
    /\ quads \subseteq Quad
    /\ named \subseteq Graph /\ mem \subseteq named
    /\ saved \subseteq {q \in quads : q[1] \in mem}
    /\ pc \in {"begin", "next", "eval", "apply", "commit", "end"}
    /\ err \in {"none", "cancelled", "read", "store", "rejected", "panic"}
    /\ {q[1] : q \in quads} \subseteq named \cup {Default}

(***************************************************************************)
(* What SPARQL 1.1 Update says an operation makes of a dataset q whose     *)
(* named graphs are ns. (LOAD's is up to the Loader, see OperationExact.)  *)
(***************************************************************************)
Moved(q, o) == q \cup At(o.dst, In(q, o.src))

Data(o) == UNION {At(o.groups[i].g, o.groups[i].triples) : i \in DOMAIN o.groups}

Effect(o, q, ns) ==
    CASE o.op = "insertData" -> q \cup Data(o)
      [] o.op = "deleteData" -> q \ Data(o)
      [] o.op = "deleteWhere" -> Drops(q, {o.g})
      [] o.op = "modify" -> LET sols == Solutions(o, q, ns)
                            IN  (q \ At(o.with, sols)) \cup At(o.into, sols)
      [] o.op \in {"clear", "drop"} -> Drops(q, Targets(o.target, ns))
      [] o.op \in {"create", "none"} -> q
      [] o.src \notin ns \cup {Default} \/ o.src = o.dst -> q
      [] o.op = "add" -> Moved(q, o)
      [] o.op = "copy" -> Drops(q, {o.dst}) \cup At(o.dst, In(q, o.src))
      [] o.op = "move" -> Drops(q, {o.src, o.dst}) \cup At(o.dst, In(q, o.src))

OpDone == pc = "apply" /\ todo = <<>>

\* An operation that evalUpdateOp reports as done has had exactly its effect
\* on the dataset it found, whatever graphs it created, cleared or forgot on
\* the way; one it rejects, or whose WHERE clause was interrupted, has had none.
OperationExact ==
    OpDone => \/ op.op = "load"
              \/ err = "none" /\ quads = Effect(op, old.quads, old.named)
              \/ err \in {"rejected", "read"} /\ quads = old.quads
              \/ err \in {"store", "cancelled"}

\* COPY, ADD and MOVE between two graphs never put a triple of the source at
\* risk: at each point, also after a failed call, it is in the source or (MOVE)
\* already in the target.
SourceSurvives ==
    /\ pc \in {"eval", "apply"} /\ op.op \in {"add", "copy", "move"}
    /\ op.src # op.dst
    => In(old.quads, op.src) \subseteq In(quads, op.src)
           \cup (IF op.op = "move" THEN In(quads, op.dst) ELSE {})

\* However the update ends, a cancellation included, commit has written every
\* graph the engine created to the store, unless the store itself failed.
CreatedGraphsSaved == pc = "end" /\ err # "panic" /\ ~cerr => Store = quads

\* A request answered with 204 has applied its last operation to the store.
AcknowledgedIsStored ==
    pc = "end" /\ err = "none" /\ ~cerr /\ nops > 0 /\ op.op # "load"
        => Store = Effect(op, old.quads, old.named)

\* sparql/update.go:40-45 and 52-54: a cancelled request's operation was applied either
\* completely or not at all.
CancelledAllOrNothing ==
    pc = "end" /\ err = "cancelled" /\ op.op # "load"
        => quads \in {old.quads, Effect(op, old.quads, old.named)}
=============================================================================
