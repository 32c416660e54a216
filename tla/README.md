# Verification of goRDFlib

TLA+ models of goRDFlib: the stores, the SPARQL engine and endpoint, the RDF
syntaxes, reasoning, SHACL, and the objects goroutines share. TLC checks them
on small instances; TLAPS proves ten components correct for every value of
their constants: the endpoint's lock and handler, the Badger, SQLite and SPARQL
stores, the memory store's iterators and small maps, the document loader, the
namespace manager and the query cache.
`PROJECT.json` lists components, runs, mutants, hazards and
theorems, and maps modelling definitions to the source lines they stand for.

## The system and its parts

| Part | State | What is hard |
|---|---|---|
| `store`, `store/memory*.go` | quads, prefix bindings; three nested indices per graph | levels that fold; iterators that hold the lock while the caller's loop runs |
| `store/badgerstore`, `sqlitestore`, `sparqlstore` | a database or a remote endpoint | transactions, split batches, crashes, lost answers |
| `sparql` (query), `paths` | solutions, snapshots, a context that may end | join order, push-down, cycles, partial results |
| `sparql/update.go` | the dataset, graphs created on the way | partial failure, cancellation between two calls |
| `endpoint` | the dataset under a cancellable lock | time-outs, panics, slow clients, isolation |
| `reasoning` | a graph, schema indexes | fixpoints cut short |
| `shacl` | shapes, cached targets, rules | recursion, failing queries, stratification, iteration limits |
| `turtle`, `trig`, `nt`, `nq`, `rdfxml`, `jsonld` | parser and serializer state | blank nodes written inline, handlers that fail, batches |
| `namespace`, `jsonld/loader.go`, `sparql/cache.go` | caches | races with Bind, shared fetches, eviction |
| `graph`, `plugin`, `provenance` | tables under a mutex | not modelled |

Handlers use the lock to own the dataset; an update runs the engine on it; the
engine and the Graph Store handlers call `graph`, which calls the store.
Endpoint is built on the abstract lock that RWLock is shown to implement;
MemoryStore is shown to implement the store contract; Update and Endpoint take
from that contract that a call is one step.

## Modules

**ReadersWriters, RWLock** - `endpoint/lock.go`. RWLock has the code's fields,
where each goroutine is, and whether the channel it took has been closed. A
stretch under `l.mu` is one step. ReadersWriters is what users see of it.

**Terms, StoreContract, MemoryStore, SmallMap** - the interface as a set of
quads, and `store/memory*.go`: index operations as operators on nested
functions, each method one step because it holds the mutex throughout.

**MemoryIterators** - iterations that hold the read lock while the loop body
runs and may begin another one. `sync.RWMutex` is external.

**BadgerStore, SQLiteStore, SPARQLStore** - the other stores under two callers.
Badger: the keys of the three indexes, transactions that remember what they read
(a conflict when another commit wrote it), that are refused when they are too
big, write batches that are split, scan-then-delete, crash; reads go through
the prefix that `scanPrefix` chooses. Each call in a transaction also records
what others committed since it began (`fresh`): the code has no such record, it
is there for SetStep and RemoveStep to speak of. SQLite: statements in
transactions, the namespaces table. SPARQL: requests that are refused, given up,
or applied with their answer lost, calls that send nothing, and blank nodes,
whose labels mean a new node in INSERT DATA, any node in a query and an error in
DELETE WHERE. The engines behind the stores are external.

**QueryAlgebra, QueryPatterns, QueryEvaluation** - query evaluation: paths
walked and pushed down, expressions with errors, patterns, join order,
modifiers, and the steps of a query over live stores and snapshots while a
writer commits. QueryEvaluation ends with the algebra's own definition, written
independently of the code. **QueryCache** - Get, parse, Put and evaluation as
steps of several goroutines.

**Update, Endpoint** - an update operation is stages of store calls, applied
one at a time; graphs the engine creates over a store live in memory until
`commit`. A request asks for the lock, looks up, makes its calls, unlocks and
answers; it may time out, fail or panic on the way. In Endpoint an update is
any script of changes that opens a named graph before it adds to it, as
`getOrCreateGraph` does; Update is where scripts come from. An update that fails
still commits what it had put into the graphs it made (`endpoint/update.go:74-76`).

**RDFTerms, TurtleParser, TurtleSerializer, Trig, LineSyntax, RDFXMLParser,
RDFXMLSerializer, JSONLD, JSONLDNodes, Syntax** -
parsers and serializers over tokens, elements and quads. Below the statement
TriG's parser is a copy of Turtle's, and so is its serializer below the graph
block: there Trig takes Turtle's definitions, with its own ends of lists and
reifiers. Graph blocks, what may stand alone, the graphs a document names
(also without triples), and labels pinned over the whole dataset are Trig's
own. Syntax brings the syntaxes under one round trip. Characters an IRI or an XML
document may not hold are constants (BadPieces, NotXMLChars); JSONLDNodes has the
lines of a node stream by what becomes of them, among them nodes that expand but
cannot be converted.

**Reasoning** - RDFS and OWL RL rules and the fixpoint engines.
**ShaclConstraints, ShaclValidation** - shapes, targets, constraints, rules and
the steps of a run; the reference reading of shapes at the end of
ShaclValidation is independent of the code but shares the tests on single
values. **RuleSets** - rule sets: well-formedness, stratification, evaluation
over keys (a triple term in a rule is one constant key, one in the data the empty
key), and the graph the keys are turned back into.

**DocumentLoader, NSManager** - `jsonld/loader.go` for one URL, and
`namespace/namespace.go` over the memory store's prefix maps.

**RWLockProofs, BadgerStoreProofs, SQLiteStoreProofs, SPARQLStoreProofs** - the
theorems about the module of that name. **MemoryProofs** - those about
MemoryIterators and SmallMap. **SharedProofs** - those about DocumentLoader,
NSManager and QueryCache. **EndpointInvariant, EndpointProofs** - those about
Endpoint, in that order.

Functions of the code that call each other in a circle do so here through one
operator that names the callee: Eval in QueryPatterns, Rule in TurtleParser,
and Ref for the algebra in QueryEvaluation. What a function does with the result
of such a call is often a definition of its own (afterObject, EachFrom).

MC modules hold inputs. MCShared, MCStores, MCSparql, MCDocuments and
MCInference put several components into one run: a variable `which`, chosen
initially, says which one moves, and the variables of the others stay as they
are. Definitions whose comment begins with "Mutant" are wrong variants of the
definition after them: replacing one by the other must make a property fail.

## Runs

| Run | Instance | Shows |
|---|---|---|
| `shared` | iterators: 2 readers, a writer, 2 triples, nesting 2, 3 calls; loader: 3 callers, 5 loads, 1 AddDocument; namespaces: 2 callers, 4 calls, 2 namespaces; lock: 3 goroutines, any number of calls; handler: 2 goroutines, 4 requests, 1 failure or panic, the store backend | iterations see one state and their page; one fetch, nothing stale; prefixes bound and never stolen; calls return; the lock's fields count right, a writer is alone, no wake-up is lost, waits end, it implements ReadersWriters; every request is decided |
| `stores` | memory: 6 triples in the default graph, 3 in two named ones, batches of 2; small map: 4 keys, 2 values, limit 3; Badger: 2 callers, 4 calls, TxnKeys 8; SQLite and SPARQL: 2 callers, 3 calls, for SPARQL 2 blank nodes and a graph named by one | every store against the contract; Badger's indexes agree through conflicts and crashes; SQLite's calls are atomic; an acknowledged SPARQL call was applied |
| `sparql` | update: 2 operations out of 29, 2 triples, 3 graphs, 1 failure; cache: 3 goroutines, 4 texts, 5 asks; queries: see MCSparql | answers and paths against the algebra; operations against their definition; commit reaches the store; the cache is exact |
| `endpoint` | 3 requests of 10 on 2 connections, 2 triples, 1 failure or panic, both backends | isolation, one-state answers, Graph Store writes, no hidden triples |
| `documents` | nesting 2, streams of up to 4 lines, batches of 2, 2 hops | what a serializer writes its parser reads back; failing handlers; node streams |
| `inference` | RuleLimit 3, 2 calls, RoundLimit 3 | expansion, SHACL reports, SHACL rules against references; rule sets give their stable model |
| `iterators_nested`, `update_cancel`, `ns_cache`, `rulesets_cycle`, `nodes_batch`, `reasoning_rules` | as above | expected violations, below |

Why these bounds. Three goroutines are a holder, a waiter, and one that
overtakes or gives up. The default graph of `stores` has every shape of an index
level, and the small map crosses its limit both ways. Two update operations let
the second work on graphs the first created or dropped. Three requests let two
be decided while a third waits; one update moves a triple into a graph it
opens. The first prefix NSManager generates is one that callers also bind.
RoundLimit stands for the 1000 rounds of `evalStratum`: most sets of `inference`
settle before it and a chain of four steps is cut off by it.

The references of the comparisons are the algebra, the rules' least or stable
model, the shapes' definition and the dataset. Where the code differs from one of
them the property says so and states what the code does instead; the list is
under "Observed while modelling".

Two runs say less than their names. `stores` covers only Badger batches that fit
one transaction (BatchesFit; the largest has 7 keys), though Set and Remove also
meet the limit; with TxnKeys 3 TLC finds BadgerIndexesAgree violated, see below. QueryPathsExact binds ends to
non-literals only.

Deadlock is checked except where a bounded number of calls ends (`stores`,
`inference`) and in `iterators_nested`, where it is the point.

**Fairness.** Weak fairness of the steps a goroutine takes by itself: Go's
scheduler runs it, `sync` mutexes do not starve, a `select` with a ready case
returns. So is giving up a wait for the endpoint's lock once its context is
done. Holders release (lock), loop bodies return (iterators), a dataset call
returns (handler), the wrapped loader returns (DocumentLoader), expansion goes
on (`Expansion!Fairness`). Nothing is assumed
of clients, contexts or failures.

## Where the code and its documentation disagree

- `sparql/update.go:40-43`: a context that ends between two store calls leaves
  an operation half applied (`update_cancel`).
- `store/memory.go:15` "safe for concurrent use": an iteration begun in the loop
  body of another waits for a writer that waits for the outer one
  (`iterators_nested`). `graph/conjunctive.go:97-99` avoids it for itself.
- `namespace_test.go:340-342`: a lookup that asked the store before a Bind
  caches its stale answer after the purge (`ns_cache`).
- `srl_stratify.go:7`: a cycle of three rules with one negation gets strata
  1, 2, 2 instead of being refused (`rulesets_cycle`).
- `jsonld/nodes.go:173` "An error that names the node leaves the batch as it was":
  Flush empties the batch before it converts it, so a node that expands but cannot
  be converted takes the good nodes held with it (`nodes_batch`).
- `reasoning/doc.go:2` lists rdfs5 and rdfs11: their conclusions are used inside
  the engine and never added to the graph (`reasoning_rules`); nor is eq-rep-p
  applied (`owlrl_equality.go:8`).

## Proofs

Each proof finds an inductive invariant, proves that it holds initially and is
preserved action by action, and derives the property. Constants are arbitrary
but for the named assumptions, which TLC evaluates on the instances.

**RWLockProofs** - any finite set of goroutines (ProcFinite). The invariant is
the conjunction of TypeOK, Accounting, MutualExclusion and NoLostWakeup.
Mutual exclusion alone is not inductive: the code decides on its counters, and
Accounting ties them to where goroutines are (lemma CountMoves: one goroutine
moving changes one count by one). That the lock implements ReadersWriters
follows from the invariant step by step.

**EndpointInvariant, EndpointProofs** - the invariant, the steps that make no call
and what the calls of a request cover; deciding on calls, reading, writing, the
whole step and the theorems. They hold for any number of connections, requests, graphs, triples,
failures and panics, either backend (GraphNames: the default graph is no named
graph; RequestsParsed: requests have the form that parsing lets through, and
scripts open named graphs before adding to them). All four safety properties of
`endpoint` follow from one invariant, EndpointInv. Its parts: where a request is
says what it holds (Placed); a writer is alone inside (WriterAlone); only a
writer past its decision has changed what the last one left (Settled); what a
reader has not read yet is what its calls left will read (Reader); how far a
PUT, POST or DELETE is and what its calls left will still do (Putting, Posting,
Deleting), needed because WriteExact speaks only of the last step; a graph with
a triple has its entry, and so will every graph that calls left will add to
(Entered, Covered), needed because NoHiddenTriples could be broken by a call that
was decided much earlier; and a name minted for POST stays unused until it is
used (Minted, Strangers), which makes its 201 right. The minted name is random
(`gsp.go:382-390`); that it is new is the guard of Arrive.

**MemoryProofs**, iterators - any readers, writers, depths and pages over a finite
graph (GraphFinite, PagesAreCounts). IterInv: the triples an iteration yielded,
skipped and has left add up to what it began with (Accounted).

**MemoryProofs**, the small map - any keys, values and limit (SmallMapMax, NoMapIsNone).
MapInv: one entry per key. Every step is then the map's step, including
promotion and the swap in deletion.

**SharedProofs**, the document loader - any callers. LoaderInv: entries are in order, the
current one is the last added if any was, a caller's result is set when it
returns, and the fetch a caller makes is its own entry's.

**SharedProofs**, the namespace manager - any callers, prefixes and namespaces. NamesInv: the table
from namespaces to prefixes names bound prefixes only, so whatever ComputeQName
found there is bound when it caches it.

**SharedProofs**, the query cache - any goroutines, texts and capacity. CacheInv: list and
map agree in size, and Put is given what was parsed from its text.

**BadgerStoreProofs** - any callers, calls and terms, any conflicts, cancellations,
refused transactions and crashes (CallsGiven: the arguments have their types;
BatchesFit: each batch of AddN fits into one transaction, without which the
indexes can disagree). That indexes agree is not inductive: commits apply what a
call decided on an earlier version. BadgerInv says of the database that every
index key holds the triple it spells, with the keys of the other indexes beside
it and the graph registered (Sound); of each call that what it is about to write
or delete is the keys of whole quads (CallsKnown), and that what matches now it
saw or another call wrote since (Tracked); of a Set that can still commit, that
the values it saw are still there and no other Set replaced one of them
(Current), and of two such Sets on one pair, that one saw all that the other saw
(Nested). Whatever is deleted is deleted from all three
indexes because both writers of deletions name whole quads (IndexKeys), and no
key of one quad is a key of another. From Sound alone the reads are exact: lemmas
Prefix1 to Prefix4 show that the prefix scanPrefix chooses selects the matching
keys, one per triple, so that counting keys counts triples. SetStep needs Current
and Nested: two Sets that both replace a value have a key in common that both
read, so the one that commits second is stale. TLC checked BadgerInv with 3 callers and 5 calls before it was
proved.

**SQLiteStoreProofs** - any callers, calls, terms and batches of any length
(CallsGiven: the arguments have their types). AtomicStep speaks of the step that
commits and of the whole call, so the invariant has to follow the transaction
from its first statement: what it sees is the committed rows after the k
statements it has run (ViewsKnown), which stays true because it alone is in a
transaction (OneWriter) and nobody writes beside it. From there the commit is
the call (CallsAtomic), a step of StoreContract (TableIsStore), and the table
stays finite, so that counting rows counts triples (ReadsRight).

**SPARQLStoreProofs** - any callers, calls, terms, blank nodes, blank graph names
and losses (CallsGiven). RemoteInv: the requests of a call are the answered ones, the one on
its way and those left (InProgress), and whatever may still be applied late is
an insertion, a deletion or a replacement that some call made (LateKnown). Success
is then all of the call (SuccessIsWhole); every application, in time or late, is a
step of StoreContract (RemoteIsStore); SetReplaces and ReadsRight follow from
what requests and rows are, the latter for patterns without a blank node;
RemoteBindPairs is about the local namespace cache. CallsGiven of the three
stores, and BatchesFit, are evaluated on the instance by MCStores.

Only model-checked: liveness and whatever needs ENABLED (WaitsEnd,
WaitersReturn, EveryRequestDecided, ExpansionTerminates), which TLAPS does not
reason about here; the modules whose algorithms are recursive (parsers and
serializers, query evaluation, SHACL, reasoning, rule sets), which would need
induction over data; and the memory store's nested indices and Update, which are
not proved.

## Observed while modelling

Not stated as violations: behaviour a reader of the models will meet, because
they follow the code.

*Queries.* The first two are what QueryAnswersExact states beside the algebra. A
variable repeated in one triple pattern gives further answers, which depend on
the join order (`sparql/bgp_order.go:12-14`). The push-downs of LIMIT/OFFSET and
of ASK ignore initial bindings, and `LIMIT 0` on a QueryableStore passes 0, which
means no limit (`eval.go:191-203`). A literal subject becomes a wildcard in a store pattern;
InvPath drops a literal object (`paths.go:40-53`); sequence paths do not go on
through literals. SELECT DISTINCT * distinguishes by parser-internal variables.
compareTermValues is not transitive on mixed numbers and strings. Aggregates
nested in functions are errors. A query on a live store may read twice. The
query cache is called LRU (`cache.go:5`) but evicts in insertion order, and the
package variable that holds it is unguarded.

*SHACL.* WithRuleIteration iterates per group of shapes only (`af_rule.go:94`).
oneOrMore on a cycle omits the focus node (pinned by `paths_test.go:462`). An
annotation on one sh:property reference changes the shared shape. An invalid
sh:pattern is dropped silently. A malformed construct ends its group's
iteration. A single pass may depend on the order of focus nodes. Rule sets:
evalStratum gives up silently after 1000 rounds; a FILTER with `<` or `>` passes
whatever the numbers are, and one with `!=` passes when they are equal
(`srl_eval.go:393`); a triple term of a rule is text that
matches no triple term of the data, and a variable that stands only in one counts
as bound; an inferred triple with a literal subject panics
(`srl_eval.go:88`). ResultStable states these. NOT inside NOT is not looked into
by Stratify; EvalRuleSet does not call CheckWellformed.

*Reasoning.* A literal scanned first silences prp-fp, maxc2 and maxqc; the report-once comparison never reports
`x p x` (`owlrl_consistency.go:59-70`); of several lists of a class the last one
wins.

*Stores.* A batch that Badger splits over transactions can leave its indexes
disagreeing when the second part fails. Badger's Set can leave a phantom; its
Remove takes two transactions; the context key is never removed. Bind leaves
stale reverse entries in memory, Badger and SPARQL stores, while SQLite drops
the row. A SPARQL request that was given up may be applied later.

*Endpoint.* A Graph Store request whose time limit passed is answered 503 even
when its write was applied (`handler.go:404`). A panic skips commit
(`endpoint/update.go:76`). A failure in commit after MOVE has cleared its source
(`backend.go:135`). The document loader's "one retry" can be several
(`jsonld/loader.go:95-97`).

*Syntaxes.* A line that is too long drops the nodes held. RDF/XML writes IRIs that
its parser refuses (against `rdfxml/parser.go:178`), and so does Turtle for a
datatype inside a triple term; SyntaxRoundTrip states both. RDF/XML loses
`x rdf:type rdf:Description` (`rdfxml/serializer.go:143-150`). N-Triples and
N-Quads write `"x"^^rdf:langString`, which their parsers refuse. Text after the
final `.` of an N-Triples line is ignored. Turtle accepts `_:b .` and `( 1 ) .`,
TriG rejects them; Turtle rejects `<< s p o ~ <iri> >> .`.

## Not modelled

- The SPARQL and rule-set parsers, byte encodings (Badger's codec), lexical forms
  beyond a class of garbled ones: text processing without state of interest.
- SPARQL: AVG, GROUP_CONCAT, most string, date and numeric functions, extension
  functions, the reachability cache, the exact count of the budget.
- SHACL: node expressions, SHACL functions, target types with parameters,
  sh:singleLine, messages, order of results, entailment, lazy publication of
  the shapes graph's index (`shacl/rdf.go:554`). Reports are sets of results.
- `graph` (Dataset, ConjunctiveGraph, views), `plugin`, `provenance`: tables under
  a mutex, or adapters.

`PROJECT.json` lists the hazards that no property covers, with the reason.
