---------------------------- MODULE SPARQLStore ----------------------------
(***************************************************************************)
(* store/sparqlstore: a store whose data is behind a SPARQL endpoint.      *)
(* Every write is one or more update requests over HTTP. A request may be  *)
(* lost, refused, or applied with its answer lost; the client gives up on  *)
(* one that takes too long, which the server may still apply later. The    *)
(* endpoint runs each request's operations as one update (endpoint/) and   *)
(* is external to this module.                                             *)
(*                                                                         *)
(* A term goes over the wire as its N3 form (termToSPARQL). For an IRI or  *)
(* a literal that is the term; the label of a blank node means a new node  *)
(* in INSERT DATA, any node in a query, and is an error in DELETE WHERE.   *)
(***************************************************************************)
EXTENDS Terms, Sequences, FiniteSets

CONSTANTS Callers,      \* goroutines using the store
          Calls,        \* what they may call
          MaxCalls,     \* how many calls are made in all
          BlankNodes,   \* the terms that are blank nodes
          BlankGraphs,  \* the graph names that are blank nodes
          NoUpdate      \* whether the store was made without an update URL

VARIABLES remote,       \* the quads the endpoint holds
          call,         \* call[c]: the call caller c is in
          late,         \* requests the client gave up on that may still be applied
          prefix, uri,  \* the local namespace cache, both directions
          made          \* how many calls were started

vars == <<remote, call, late, prefix, uri, made>>

\* The arguments have their Go types, and any blank node may be a subject
\* and an object.
CallsGiven ==
    /\ BlankNodes \subseteq Subject \cap Object
    /\ \A x \in Calls :
          /\ x[1] \in {"add", "set"} => x[2] \in GraphRef /\ x[3] \in Triple
          /\ x[1] = "remove" => x[2] \in GraphRef /\ x[3] \in Pattern
          /\ x[1] = "addn" => x[2] \in Seq(GraphRef \X Triple)

Idle == [state |-> "idle"]

Init ==
    /\ remote = {}
    /\ call = [c \in Callers |-> Idle]
    /\ late = {}
    /\ prefix = {} /\ uri = {}
    /\ made = 0

\* A blank node cannot name a graph on the wire: the default graph is meant.
wrapGraph(g) == IF g \in BlankGraphs THEN Default ELSE g

\* An update request: the graph it is for, what it deletes, then what it
\* inserts, and whether it is SPARQL at all.
Insert(g, ts) == [for |-> g, del |-> {}, ins |-> {<<wrapGraph(g), t>> : t \in ts}, legal |-> TRUE]

DeleteWhere(g, pat) ==
    [for |-> g, del |-> {<<wrapGraph(g), u>> : u \in {u \in Triple : Matches(u, pat)}}, ins |-> {},
     legal |-> \A i \in 1..3 : pat[i] \notin BlankNodes]

SetRequest(g, t) ==
    [for |-> g, del |-> DeleteWhere(g, SamePair(t)).del, ins |-> Insert(g, {t}).ins,
     legal |-> DeleteWhere(g, SamePair(t)).legal]

\* The endpoint names the blank nodes of what is inserted anew: f, from the
\* labels of the request to nodes it does not hold.
NodesOf(qs) == {n \in BlankNodes : \E q \in qs : n \in {q[2][1], q[2][3]}}
FreshNodes(req, qs) ==
    {f \in [NodesOf(req.ins) -> BlankNodes \ NodesOf(qs)] :
        \A m, n \in NodesOf(req.ins) : f[m] = f[n] => m = n}
Named(x, f) == IF x \in DOMAIN f THEN f[x] ELSE x
Relabelled(t, f) == <<Named(t[1], f), t[2], Named(t[3], f)>>

Applied(req, qs, f) == (qs \ req.del) \cup {<<q[1], Relabelled(q[2], f)>> : q \in req.ins}

\* AddN groups its quads by graph name; the order of a map is any order.
Groups(qs) == {Insert(g, {q[2] : q \in {q \in qs : q[1] = g}}) : g \in {q[1] : q \in qs}}

Requests(x) ==
    CASE x[1] = "add"    -> {Insert(x[2], {x[3]})}
      [] x[1] = "set"    -> {SetRequest(x[2], x[3])}
      [] x[1] = "remove" -> {DeleteWhere(x[2], x[3])}
      [] x[1] = "addn"   -> Groups({x[2][i] : i \in DOMAIN x[2]})

Writes == {"add", "set", "remove", "addn"}

Started(c) == call[c] = Idle /\ made < MaxCalls /\ made' = made + 1

\* writable refuses with a done context or without an update URL; nothing is
\* sent then, nor for an AddN without quads.
Unsent(c, x) ==
    /\ x[1] \in Writes
    /\ Started(c)
    /\ \/ call' = [call EXCEPT ![c] = [state |-> "failed", x |-> x, done |-> {}]]
       \/ /\ ~NoUpdate /\ Requests(x) = {}
          /\ call' = [call EXCEPT ![c] = [state |-> "ok", x |-> x, done |-> {}]]
    /\ UNCHANGED <<remote, late, prefix, uri>>

Write(c, x) ==
    /\ x[1] \in Writes
    /\ ~NoUpdate
    /\ Started(c)
    /\ \E req \in Requests(x) :
          call' = [call EXCEPT ![c] = [state |-> "sent", x |-> x, req |-> req,
                                       todo |-> Requests(x) \ {req}, done |-> {}]]
    /\ UNCHANGED <<remote, late, prefix, uri>>

\* The endpoint applies a request that is SPARQL.
Apply(req) ==
    /\ req.legal
    /\ \E f \in FreshNodes(req, remote) : remote' = Applied(req, remote, f)

\* The answer is on its way.
Serve(c) ==
    /\ call[c].state = "sent"
    /\ Apply(call[c].req)
    /\ call' = [call EXCEPT ![c].state = "answered"]
    /\ UNCHANGED <<late, prefix, uri, made>>

\* Mutant: the call returns after the first answer.
AnswerFirst(c) ==
    /\ call[c].state = "answered"
    /\ call' = [call EXCEPT ![c] = [state |-> "ok", x |-> @.x, done |-> @.done \cup {@.req}]]
    /\ UNCHANGED <<remote, late, prefix, uri, made>>

\* execUpdate returns nil for a 2xx answer: the next group, or the end.
Answer(c) ==
    LET rec == call[c]
        done == rec.done \cup {rec.req}
    IN  /\ rec.state = "answered"
        /\ IF rec.todo = {} THEN call' = [call EXCEPT ![c] = [state |-> "ok", x |-> rec.x, done |-> done]]
           ELSE \E req \in rec.todo :
                   call' = [call EXCEPT ![c] = [state |-> "sent", x |-> rec.x, req |-> req,
                                                todo |-> rec.todo \ {req}, done |-> done]]
        /\ UNCHANGED <<remote, late, prefix, uri, made>>

Fail(c) == call' = [call EXCEPT ![c] = [state |-> "failed", x |-> @.x, done |-> @.done]]

\* A non-2xx answer, or a request that never reached the endpoint.
Refuse(c) ==
    /\ call[c].state = "sent"
    /\ Fail(c)
    /\ UNCHANGED <<remote, late, prefix, uri, made>>

\* The answer is lost: the call fails although the request was applied.
LoseAnswer(c) ==
    /\ call[c].state = "answered"
    /\ Fail(c)
    /\ UNCHANGED <<remote, late, prefix, uri, made>>

\* The context or the client's timeout ends the call with the request on
\* its way.
GiveUp(c) ==
    /\ call[c].state = "sent"
    /\ late' = late \cup {call[c].req}
    /\ Fail(c)
    /\ UNCHANGED <<remote, prefix, uri, made>>

ServeLate ==
    /\ \E req \in late : Apply(req) /\ late' = late \ {req}
    /\ UNCHANGED <<call, prefix, uri, made>>

\* The caller takes the result.
Return(c) ==
    /\ call[c].state \in {"ok", "failed"}
    /\ call' = [call EXCEPT ![c] = Idle]
    /\ UNCHANGED <<remote, late, prefix, uri, made>>

Put(m, k, v) == {e \in m : e[1] # k} \cup {<<k, v>>}

Bind(c, x) ==
    /\ x[1] = "bind"
    /\ Started(c)
    /\ prefix' = Put(prefix, x[2], x[3])
    /\ uri' = Put(uri, x[3], x[2])
    /\ UNCHANGED <<remote, call, late>>

Next ==
    \/ \E c \in Callers, x \in Calls : Write(c, x) \/ Unsent(c, x) \/ Bind(c, x)
    \/ \E c \in Callers : Serve(c) \/ Answer(c) \/ Refuse(c) \/ LoseAnswer(c)
                             \/ GiveUp(c) \/ Return(c)
    \/ ServeLate

Spec == Init /\ [][Next]_vars
-----------------------------------------------------------------------------
\* The answers of the read methods: a row per match, with the bound
\* positions filled in from the pattern. A blank node in the query matches
\* like a variable, and the caller's label is what is filled in.
asQuery(pat) == [i \in 1..3 |-> IF pat[i] \in BlankNodes THEN Any ELSE pat[i]]
Row(t, pat) == [i \in {i \in 1..3 : pat[i] = Any} |-> t[i]]

resolveVar(row, pat, i) == IF pat[i] # Any THEN pat[i] ELSE row[i]
Rows(pat, g) == {Row(q[2], pat) : q \in {q \in remote : q[1] = wrapGraph(g) /\ Matches(q[2], asQuery(pat))}}
Triples(pat, g) == {<<resolveVar(r, pat, 1), resolveVar(r, pat, 2), resolveVar(r, pat, 3)>> :
                       r \in Rows(pat, g)}
LenOf(g) == Cardinality(Rows(<<Any, Any, Any>>, g))
Contexts == {q[1] : q \in remote} \ {Default}
ContextsWith(t) == {q[1] : q \in {q \in remote : Matches(q[2], asQuery(t))}} \ {Default}

\* The namespace cache, looked up by prefix and by namespace.
Namespace(p) == {e[2] : e \in {e \in prefix : e[1] = p}}
Prefix(n) == {e[2] : e \in {e \in uri : e[1] = n}}
-----------------------------------------------------------------------------
TypeOK ==
    /\ remote \subseteq Quad
    /\ \A c \in Callers : call[c].state \in {"idle", "sent", "answered", "ok", "failed"}

(***************************************************************************)
(* A write that returns nil was applied whole: every group of an AddN was  *)
(* answered. (sparqlstore/store.go:104-163)                                *)
(***************************************************************************)
OkIsWhole == \A c \in Callers :
    call[c].state = "ok" => call[c].done = Requests(call[c].x)

(***************************************************************************)
(* Set leaves one value: right after its request is applied the graph it   *)
(* named holds exactly the new triple under (s, p), a blank node at its    *)
(* end named anew, and no other graph changed.                             *)
(* (sparqlstore/store.go:150-163)                                          *)
(***************************************************************************)
SetStep == \A c \in Callers :
    Serve(c) /\ call[c].x[1] = "set" =>
        LET g == wrapGraph(call[c].x[2])  t == call[c].x[3]
            Pair(h) == {q \in remote' : q[1] = h /\ Matches(q[2], SamePair(t))}
        IN  /\ \E o \in BlankNodes \cup {t[3]} :
                  /\ Pair(g) = {<<g, <<t[1], t[2], o>>>>}
                  /\ o \in BlankNodes <=> t[3] \in BlankNodes
            /\ \A q \in Quad : q[1] # g => (q \in remote <=> q \in remote')

(***************************************************************************)
(* Bind makes the prefix and the namespace each other's answer, and takes  *)
(* no other prefix or namespace its own. (sparqlstore/store.go:259-290)    *)
(***************************************************************************)
BindStep == \A c \in Callers, x \in Calls :
    Bind(c, x) =>
        /\ Namespace(x[2])' = {x[3]} /\ Prefix(x[3])' = {x[2]}
        /\ \A e \in prefix : e[1] # x[2] => Namespace(e[1])' = Namespace(e[1])
        /\ \A e \in uri : e[1] # x[3] => Prefix(e[1])' = Prefix(e[1])

Contract == INSTANCE StoreContract WITH quads <- remote

Ground(pat) == \A i \in 1..3 : pat[i] \notin BlankNodes

(***************************************************************************)
(* A read that names no blank node answers from the graph that writes to   *)
(* the same name went to. (sparqlstore/store.go:165-256)                   *)
(***************************************************************************)
ReadsExact ==
    /\ \A g \in GraphRef :
          /\ \A pat \in Pattern : Ground(pat) => Triples(pat, g) = Contract!Triples(pat, wrapGraph(g))
          /\ LenOf(g) = Contract!Len(wrapGraph(g))
    /\ Contexts = Contract!Contexts
    /\ \A t \in Triple : Ground(t) => ContextsWith(t) = Contract!ContextsWith(t)
=============================================================================
