------------------------------ MODULE MCStores ------------------------------
(***************************************************************************)
(* The stores, one per behaviour: the memory store, the map of its inner   *)
(* levels, and the Badger, SQLite and SPARQL stores under concurrent       *)
(* callers, faults and crashes. Each of them that is a set of quads is     *)
(* held against the same StoreContract.                                    *)
(*                                                                         *)
(* Memory: the default graph grows and folds every kind of level (subjects *)
(* with one and several predicates, predicates with up to three objects),  *)
(* and two named graphs come and go. The others: two callers, and calls    *)
(* that meet on the same subject and predicate of one named graph.         *)
(***************************************************************************)
EXTENDS MemoryStore, SmallMap

CONSTANTS s1, s2, p1, p2, o1, o3, g1, g2, x1, x2, n1, n2,
          Callers, MaxCalls, TxnKeys

VARIABLES which,                          \* the store of this behaviour
          kv,                             \* BadgerStore
          rows, names,                    \* SQLiteStore
          remote, late, prefix, uri,      \* SPARQLStore
          call, made                      \* the calls on the last three

MCInputs ==
    ({Default} \X {<<s1, p1, o1>>, <<s1, p1, s2>>, <<s1, p1, o3>>, <<s1, p2, o1>>,
                   <<s1, p2, s2>>, <<s2, p1, o1>>})
    \cup ({g1} \X {<<s1, p1, o1>>, <<s1, p1, s2>>})
    \cup ({g2} \X {<<s2, p2, o3>>})

Calls ==
    {<<"add", Default, <<s1, p1, o1>>>>, <<"add", g1, <<s1, p1, o1>>>>, <<"add", g1, <<s2, p1, o1>>>>}
    \cup {<<"set", g1, <<s1, p1, o1>>>>, <<"set", g1, <<s1, p1, s2>>>>}
    \cup {<<"remove", g1, <<s1, Any, o1>>>>, <<"remove", g1, <<Any, p1, Any>>>>,
          <<"remove", g1, <<s1, p1, s2>>>>}
    \cup {<<"addn", << <<g1, <<s1, p1, o1>>>>, <<Default, <<s1, p1, s2>>>> >>>>}
    \cup {<<"bind", x1, n1>>, <<"bind", x1, n2>>, <<"bind", x2, n1>>}

\* To the SPARQL store the graph g2 is a blank node, and so are s2 and o3.
RemoteCalls ==
    {<<"set", g1, <<s1, p1, o1>>>>, <<"set", g1, <<s1, p1, o3>>>>,
     <<"remove", g1, <<s1, Any, o1>>>>, <<"remove", g1, <<s2, p1, Any>>>>,
     <<"bind", x1, n1>>, <<"bind", x1, n2>>, <<"addn", <<>>>>,
     <<"addn", << <<g1, <<s1, p1, o1>>>>, <<Default, <<s1, p2, o1>>>>, <<g2, <<s2, p1, o1>>>> >>>>}

Badger == INSTANCE BadgerStore WITH Predicate <- {p1}, Object <- {o1, s2}, Graph <- {g1}
SQLite == INSTANCE SQLiteStore WITH Predicate <- {p1}, Object <- {o1, s2}, Graph <- {g1},
              MaxCalls <- MaxCalls - 1
Remote == INSTANCE SPARQLStore WITH Calls <- RemoteCalls, BlankNodes <- {s2, o3}, BlankGraphs <- {g2},
              NoUpdate <- FALSE, MaxCalls <- MaxCalls - 1

ASSUME ArgumentsTyped == SQLite!CallsGiven /\ Remote!CallsGiven /\ Badger!CallsGiven
ASSUME BatchesFit == Badger!BatchesFit

badger == kv
sqlite == <<rows, names>>
sparql == <<remote, late, prefix, uri>>
calls == <<call, made>>
all == <<which, graphs, mapVars, badger, sqlite, sparql, calls>>

NoMemory == graphs = 0
NoBadger == kv = 0
NoSQLite == rows = 0 /\ names = 0
NoSPARQL == remote = 0 /\ late = 0 /\ prefix = 0 /\ uri = 0
NoCalls == call = 0 /\ made = 0

StoresInit ==
    /\ MapInit
    /\ \/ which = "memory" /\ Init /\ NoBadger /\ NoSQLite /\ NoSPARQL /\ NoCalls
       \/ which = "few" /\ NoMemory /\ NoBadger /\ NoSQLite /\ NoSPARQL /\ NoCalls
       \/ which = "badger" /\ Badger!Init /\ NoMemory /\ NoSQLite /\ NoSPARQL
       \/ which = "sqlite" /\ SQLite!Init /\ NoMemory /\ NoBadger /\ NoSPARQL
       \/ which = "sparql" /\ Remote!Init /\ NoMemory /\ NoBadger /\ NoSQLite

StoresNext ==
    \/ which = "memory" /\ Next /\ UNCHANGED <<which, mapVars, badger, sqlite, sparql, calls>>
    \/ which = "few" /\ MapNext /\ UNCHANGED <<which, graphs, badger, sqlite, sparql, calls>>
    \/ which = "badger" /\ Badger!Next /\ UNCHANGED <<which, graphs, mapVars, sqlite, sparql>>
    \/ which = "sqlite" /\ SQLite!Next /\ UNCHANGED <<which, graphs, mapVars, badger, sparql>>
    \/ which = "sparql" /\ Remote!Next /\ UNCHANGED <<which, graphs, mapVars, badger, sqlite>>

StoresSpec == StoresInit /\ [][StoresNext]_all
-----------------------------------------------------------------------------
(***************************************************************************)
(* The memory store, SQLite and the remote endpoint behind the SPARQL      *)
(* store, seen as sets of quads, change only as the Store interface says,  *)
(* one call (or, for the SPARQL store, one request) per step.              *)
(* (store/store.go:10-60)                                                  *)
(***************************************************************************)
SeenQuads ==
    CASE which = "memory" -> Quads
      [] which = "sqlite" -> rows
      [] which = "sparql" -> remote
      [] OTHER -> {}

Promise == INSTANCE StoreContract WITH quads <- SeenQuads

KeepsPromise == Promise!Spec

\* Each store's variables have their types. And in memory_index.go:60-79, 165-166
\* the index of a graph, with its counters and its
\* levels folded where a triple is alone, depends on the triples it holds and
\* never on the calls that led there.
StoresWellFormed ==
    /\ which = "memory" => TypeOK /\ Canonical
    /\ which = "badger" => Badger!TypeOK
    /\ which = "sqlite" => SQLite!TypeOK
    /\ which = "sparql" => Remote!TypeOK

\* The read methods of every store answer what the Store interface says.
\* Memory (memory_index.go:296-394): whichever index answers a pattern, iterating
\* yields the matching triples, the count read from sizes and counters is their
\* number, and a named graph is listed exactly while it has a triple. Badger:
\* scanPrefix chooses the index and the bound prefix, and what it skips does not
\* match. SQLite and SPARQL: of the graph that writes to the same name went to;
\* SQLite has one prefix per namespace and one namespace per prefix, after any
\* sequence of re-bindings (sqlitestore/store.go:433).
StoreReadsExact ==
    /\ which = "memory" => AnswersExact /\ ContextsExact
    /\ which = "badger" => Badger!ReadsExact
    /\ which = "sqlite" => SQLite!ReadsExact /\ SQLite!NamesOneToOne
    /\ which = "sparql" => Remote!ReadsExact

\* The writing methods. Memory (memory.go:105-159): from every state Set leaves
\* exactly the new value, Remove takes exactly what matches and AddN puts each
\* quad into its own graph. Badger: Set replaces, so that only a value written by
\* another call since it looked stays; Remove looks in one transaction and
\* deletes in another, and takes what it saw, from all indexes, and nothing that
\* did not match. SPARQL: when the endpoint serves Set the pair has the one new
\* value, in the graph of the call and in no other. In both, Bind makes a prefix
\* and a namespace each other's answer, whatever they were bound to before.
StoreCallsExact ==
    /\ [](which = "memory" => CallsExact)
    /\ [][/\ which = "badger" => Badger!SetStep /\ Badger!BindStep /\ Badger!RemoveStep
          /\ which = "sparql" => Remote!SetStep /\ Remote!BindStep]_all

\* badgerstore/store.go: the three indexes hold the same triples and every graph
\* with a triple is registered, with any two calls interleaved, as long as no
\* AddN was split between two commits.
BadgerIndexesAgree == which = "badger" => Badger!IndexesAgree

\* sqlitestore/store.go: AddN and Set are done or not done, also when a statement
\* fails, the context ends or the process dies between two statements.
SQLiteCallsAtomic == [][which = "sqlite" => SQLite!AtomicStep]_all

\* sparqlstore/store.go:124: a call that reports success has had all of its
\* requests served, one per graph of an AddN.
SPARQLOkIsWhole == which = "sparql" => Remote!OkIsWhole
=============================================================================
