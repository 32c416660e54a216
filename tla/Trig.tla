-------------------------------- MODULE Trig --------------------------------
(***************************************************************************)
(* TriG. The parser (trig/parser.go, trig/rdf12.go): its code below the    *)
(* statement is a copy of Turtle's and is given here as such; the ways     *)
(* into it, graph blocks, and what may stand alone, are its own. The quads *)
(* it emits carry the graph of the block they are in.                      *)
(*                                                                         *)
(* The serializer (trig/serializer.go, serializer_lists.go): a block for   *)
(* each graph of the dataset, written by a copy of the Turtle serializer   *)
(* that counts references and pins labels over the whole dataset. A        *)
(* dataset is a set of quads <<s, p, o, graph>>; Nil stands for the        *)
(* default graph.                                                          *)
(***************************************************************************)
EXTENDS RDFTerms

CONSTANTS MaxDepth, MaxNestDepth, BadPrefixes, BadLocals, BadPieces

\* A '}' ends a list of predicates, and an anonymous reifier, as well.
TrailingEnds == {"eof", ".", "]", "|}", "}"}
ReifierEnds == {"eof", "{", "{|", ".", ";", ",", "]", "~", "|}", "}"}

T == INSTANCE TurtleParser

\* Verbs, objects and names are reached from these.
Production(name, p, x) == T!Production(name, p, x)

predicateObjectList(p, s) == Production("predicateObjectList", p, <<s>>)
readSubject(p) == Production("readSubject", p, <<>>)
readBlankNodePropertyList(p) == Production("readBlankNodePropertyList", p, <<>>)
readCollection(p) == Production("readCollection", p, <<>>)
readReifiedTriple(p) == Production("readReifiedTriple", p, <<>>)
readBlankNodeLabel(p) == T!readBlankNodeLabel(p)
directive(p) == T!directive(p)
sparqlPrefix(p) == T!sparqlPrefix(p)
sparqlBase(p) == T!sparqlBase(p)
-----------------------------------------------------------------------------
\* A subject with its predicates and the '.' that ends the statement.
Finish(p, s) == Expect(predicateObjectList(p, s), ".")

\* In a block the '.' is optional; a blank node may stand alone, a list may not.
SkipDot(q) == IF Is(q, ".") THEN Skip(q) ELSE q

inBlock(s, list) ==
    LET ends == Tok(s)[1] \in {".", "}"}
    IN IF ends /\ list THEN Fail(s, "syntax")
       ELSE SkipDot(IF ends /\ IsBNode(s.val) THEN s ELSE predicateObjectList(s, s.val))

blockTripleStatement(p) == inBlock(readSubject(p), Is(p, "("))

RECURSIVE blockStatements(_)
blockStatements(p) ==
    IF Is(p, "eof") THEN Fail(p, "syntax")
    ELSE IF Is(p, "}") THEN Skip(p)
    ELSE blockStatements(blockTripleStatement(p))

\* A block names a graph of the dataset, with or without triples. The graph before
\* the block is current again after it. Nil: the default graph.
openGraph(p, graph) == [p EXCEPT !.graph = graph, !.opened = @ \cup ({graph} \ {Nil})]

wrappedGraphBlock(p, graph) ==
    [blockStatements(openGraph(Expect(p, "{"), graph)) EXCEPT !.graph = p.graph]

readGraphLabel(p) ==
    CASE Is(p, "label") -> readBlankNodeLabel(p)
      [] Is(p, "[") -> NewBNode(Expect(Skip(p), "]"))
      [] OTHER -> T!IRIOrName(p)

graphBlock(p) == LET l == readGraphLabel(Skip(p)) IN wrappedGraphBlock(l, l.val)

\* What may follow a node: nothing in bad, and one of alone ends the statement.
\* A name may be that of a graph.
afterNode(s, bad, alone) ==
    CASE Tok(s)[1] \in bad -> Fail(s, "syntax")
      [] Tok(s)[1] \in alone -> Skip(s)
      [] OTHER -> Finish(s, s.val)

afterName(s, alone) ==
    IF Is(s, "{") THEN wrappedGraphBlock(s, s.val) ELSE afterNode(s, {}, alone)

\* [] may name a graph or stand alone; [ ... ] may only stand alone.
bracketSubjectOrGraph(p) ==
    IF Is(Skip(p), "]") THEN afterName(NewBNode(Skip(Skip(p))), {"."})
    ELSE afterNode(readBlankNodePropertyList(p), {"{"}, {"."})

collectionTripleStatement(p) == afterNode(readCollection(p), {"{", "."}, {})

reifiedTripleStatement(p) == afterNode(readReifiedTriple(p), {}, {"."})

subjectOrGraph(p) ==
    CASE Is(p, "[") -> bracketSubjectOrGraph(p)
      [] Is(p, "(") -> collectionTripleStatement(p)
      [] Tok(p)[1] \in {"<<", "<<("} -> reifiedTripleStatement(p)
      [] OTHER -> afterName(readSubject(p), {})

statement(p) ==
    CASE Tok(p)[1] \in T!Directives -> directive(p)
      [] Is(p, "PREFIX") -> sparqlPrefix(p)
      [] Is(p, "BASE") -> sparqlBase(p)
      [] Is(p, "VERSION") -> T!sparqlVersion(p)
      [] Is(p, "GRAPH") -> graphBlock(p)
      [] Is(p, "{") -> wrappedGraphBlock(p, Nil)
      [] OTHER -> subjectOrGraph(p)

RECURSIVE parse(_)
afterStatement(q) == IF q.stop THEN [q EXCEPT !.err = "handler"]
                     ELSE IF q.err # "" THEN q
                     ELSE parse(q)

parse(p) == IF Is(p, "eof") THEN p ELSE afterStatement(statement(p))
-----------------------------------------------------------------------------
S == INSTANCE TurtleSerializer WITH DefersAll <- FALSE

TriplesIn(ds, graph) == {<<q[1], q[2], q[3]>> : q \in {r \in ds : r[4] = graph}}
GraphsOf(ds) == {q[4] : q \in ds}

\* A blank node keeps its label when it occurs in more than one graph, names a
\* graph or occurs inside a triple term.
bnodeUsage(ds, names) ==
    LET in(b) == {q[4] : q \in {r \in ds : b \in {r[1], r[3]}}}
    IN {b \in BNodesOf(ds) : Cardinality(in(b)) > 1 \/ b \in names}
         \cup S!pinTripleTermBNodes(ds)

trackNSForTerm(ds, ns) == S!trackNS(ds, ns)

\* The datatypes inside triple terms are looked at.
RECURSIVE QuotedDatatypes(_)
QuotedDatatypes(t) == CASE IsLiteral(t) /\ IsIRI(t[3]) -> {t[3][2]}
                        [] IsTripleTerm(t) -> QuotedDatatypes(t[4])
                        [] OTHER -> {}

checkTermIRIs(ds, names, ns, base) ==
    /\ S!Writable(ds, ns, base)
    /\ \A q \in ds : \A u \in QuotedDatatypes(q[3]) : S!checkIRI(u)
    /\ \A g \in names : IsIRI(g) => S!checkIRI(g[2])

detectLists(c) == S!detectLists(c)

\* What is written of one graph: references and pins are the dataset's.
newTrigState(ds, names, graph, ns, base) ==
    LET c == [g |-> TriplesIn(ds, graph), all |-> ds, pinned |-> bnodeUsage(ds, names),
              cells |-> {}, ns |-> trackNSForTerm(ds, ns), base |-> base]
    IN [c EXCEPT !.cells = detectLists(c)]

\* The deferred nodes are written after each subject; then what is reachable
\* only from inside itself. The cells of a list are marked one by one between
\* its items, which is the same as all at once: only the cell before it refers
\* to a cell.
orderSubjects(c) == S!orderSubjects(c)
writeIndented(c, w) == S!writeLeft(c, S!WriteRest(c, w, orderSubjects(c)))

qnameOrFull(c, u) == S!computeQName(c, u)
trigLabel(c, graph) == IF IsIRI(graph) THEN qnameOrFull(c, graph[2]) ELSE <<"label", graph[2]>>

Block(c, graph) ==
    LET head == IF graph = Nil THEN <<>> ELSE <<trigLabel(c, graph)>>
    IN writeIndented(c, S!NewWriter(head \o <<<<"{">>>>)).out \o <<<<"}">>>>

\* The default graph comes first; a graph without triples is not written.
SerializeDataset(ds, names, ns, base) ==
    LET graphs == GraphsOf(ds)
        order == (IF Nil \in graphs THEN <<Nil>> ELSE <<>>) \o Listing(graphs \ {Nil})
    IN IF ~checkTermIRIs(ds, names, ns, base) THEN [err |-> TRUE, out |-> <<>>]
       ELSE [err |-> FALSE,
             out |-> S!Header(trackNSForTerm(ds, ns), base)
                       \o FlattenSeq([i \in DOMAIN order |->
                              Block(newTrigState(ds, names, order[i], ns, base), order[i])])]

\* One graph is written as the default graph of a new dataset.
Serialize(g, ns, base) == SerializeDataset({<<t[1], t[2], t[3], Nil>> : t \in g}, {}, ns, base)
=============================================================================
