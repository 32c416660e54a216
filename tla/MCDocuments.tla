---------------------------- MODULE MCDocuments -----------------------------
(***************************************************************************)
(* Reading and writing documents, one way per behaviour: a dataset through *)
(* a chain of syntaxes (Syntax), or newline-delimited JSON-LD as a stream  *)
(* of nodes (JSONLDNodes). The variables of the other one are 0.           *)
(*                                                                         *)
(* First, documents as a person writes them, with the shorthands no        *)
(* serializer uses, and the triples the W3C grammars give them: a          *)
(* reference for the parsers, written without a parser state. A node of a  *)
(* document is                                                             *)
(*                                                                         *)
(*   <<"leaf", term>>                a term; BNode(l) is the label _:l     *)
(*   <<"props", pairs>>              [ p o ; p o ]                         *)
(*   <<"list", nodes>>               ( n n )                               *)
(*   <<"term", s, p, o>>             <<( s p o )>>                         *)
(*   <<"reified", s, p, o, id>>      << s p o ~ id >>                      *)
(*                                                                         *)
(* and a pair is <<predicate, node, notes>>, each note <<id, pairs>>       *)
(* standing for "~ id {| pairs |}". An id is <<>>, none, or <<"leaf", ..>>.*)
(* The node that the place adr of a document stands for is BNode(adr).     *)
(***************************************************************************)
EXTENDS Syntax

Named(t) == IF IsBNode(t) THEN BNode(<<0, t[2]>>) ELSE t

RECURSIVE Value(_, _)
Value(n, adr) ==
    CASE n[1] = "leaf" -> Named(n[2])
      [] n[1] = "list" /\ n[2] = <<>> -> Nil
      [] n[1] = "term" -> TripleTerm(Value(n[2], adr \o <<1>>), n[3], Value(n[4], adr \o <<2>>))
      [] n[1] = "reified" /\ n[5] # <<>> -> Named(n[5][2])
      [] OTHER -> BNode(adr)

\* Cell i of the list at adr.
Cell(adr, i) == BNode(IF i = 1 THEN adr ELSE adr \o <<0, i>>)

\* What a node says besides what it is, and what its pairs say of the subject s.
RECURSIVE Says(_, _)
RECURSIVE PairsSay(_, _, _)
Says(n, adr) ==
    CASE n[1] = "props" -> PairsSay(BNode(adr), n[2], adr)
      [] n[1] = "list" ->
            UNION {Says(n[2][i], adr \o <<i>>)
                     \cup {<<Cell(adr, i), First, Value(n[2][i], adr \o <<i>>)>>,
                           <<Cell(adr, i), Rest,
                             IF i = Len(n[2]) THEN Nil ELSE Cell(adr, i + 1)>>}
                   : i \in DOMAIN n[2]}
      [] n[1] = "term" -> Says(n[2], adr \o <<1>>) \cup Says(n[4], adr \o <<2>>)
      [] n[1] = "reified" ->
            Says(n[2], adr \o <<1>>) \cup Says(n[4], adr \o <<2>>)
              \cup {<<Value(n, adr), Reifies,
                      TripleTerm(Value(n[2], adr \o <<1>>), n[3], Value(n[4], adr \o <<2>>))>>}
      [] OTHER -> {}

PairsSay(s, pairs, adr) ==
    UNION {LET p == pairs[i]
               a == adr \o <<3, i>>
               o == Value(p[2], a)
               note(j) == LET k == a \o <<4, j>>
                              r == IF p[3][j][1] = <<>> THEN BNode(k) ELSE Named(p[3][j][1][2])
                          IN {<<r, Reifies, TripleTerm(s, p[1], o)>>} \cup PairsSay(r, p[3][j][2], k)
           IN {<<s, p[1], o>>} \cup Says(p[2], a) \cup UNION {note(j) : j \in DOMAIN p[3]}
           : i \in DOMAIN pairs}

\* A document is a sequence of statements <<graph, subject, pairs>>; the graph is
\* <<>>, the default graph, or a leaf.
AllSay(document) ==
    UNION {LET adr == <<5, i>>
               s == document[i][2]
               g == IF document[i][1] = <<>> THEN Nil ELSE Named(document[i][1][2])
           IN {<<t[1], t[2], t[3], g>> :
               t \in Says(s, adr) \cup PairsSay(Value(s, adr), document[i][3], <<6, i>>)}
           : i \in DOMAIN document}

\* The graphs it names, those in empty, which have no statement, among them.
AllNamed(document, empty) ==
    {Named(g[2]) : g \in ({document[i][1] : i \in DOMAIN document} \cup empty) \ {<<>>}}

\* Both with numbers for the blank nodes: a case of Syntax.
CaseOf(document, empty, syntax, text) ==
    LET said == Marked(AllSay(document), AllNamed(document, empty))
        nodes == Listing(BNodesOf(said))
        all == Rename(said, [b \in Range(nodes) |-> BNode(CHOOSE i \in DOMAIN nodes : nodes[i] = b)])
    IN <<{t \in all : Len(t) = 4}, <<>>, <<>>, syntax, text, {t[1] : t \in {u \in all : Len(u) = 2}}>>
-----------------------------------------------------------------------------
\* The tokens of a document, in Turtle and, with its graphs, in TriG.
LiteralTokens(l) ==
    IF IsIRI(l[3]) THEN <<<<"string", l[2]>>, <<"^^">>, <<"iriref", l[3][2]>>>>
    ELSE <<<<"string", l[2]>>, <<"@lang", l[3][2], l[3][3]>>>>

LeafTokens(t) == CASE IsIRI(t) -> <<<<"iriref", t[2]>>>>
                         [] IsBNode(t) -> <<<<"label", t[2]>>>>
                         [] IsLiteral(t) -> LiteralTokens(t)

VerbTokens(p) == IF p = Type THEN <<<<"a">>>> ELSE LeafTokens(p)

RECURSIVE Tokens(_)
RECURSIVE PairTokens(_)
Tokens(n) ==
    CASE n[1] = "leaf" -> LeafTokens(n[2])
      [] n[1] = "props" -> <<<<"[">>>> \o PairTokens(n[2]) \o <<<<"]">>>>
      [] n[1] = "list" -> <<<<"(">>>> \o FlattenSeq([i \in DOMAIN n[2] |-> Tokens(n[2][i])])
                            \o <<<<")">>>>
      [] n[1] = "term" -> <<<<"<<(">>>> \o Tokens(n[2]) \o LeafTokens(n[3]) \o Tokens(n[4])
                            \o <<<<")>>">>>>
      [] n[1] = "reified" ->
            <<<<"<<">>>> \o Tokens(n[2]) \o LeafTokens(n[3]) \o Tokens(n[4])
              \o (IF n[5] = <<>> THEN <<>> ELSE <<<<"~">>>> \o Tokens(n[5])) \o <<<<">>">>>>

NoteTokens(note) ==
    (IF note[1] = <<>> THEN (IF note[2] = <<>> THEN <<<<"~">>>> ELSE <<>>)
     ELSE <<<<"~">>>> \o Tokens(note[1]))
      \o (IF note[2] = <<>> THEN <<>> ELSE <<<<"{|">>>> \o PairTokens(note[2]) \o <<<<"|}">>>>)

\* Two pairs with one predicate share it.
PairTokens(pairs) ==
    FlattenSeq([i \in DOMAIN pairs |->
        (IF i = 1 THEN VerbTokens(pairs[1][1])
         ELSE IF pairs[i][1] = pairs[i - 1][1] THEN <<<<",">>>>
         ELSE <<<<";">>, <<";">>>> \o VerbTokens(pairs[i][1]))
          \o Tokens(pairs[i][2])
          \o FlattenSeq([j \in DOMAIN pairs[i][3] |-> NoteTokens(pairs[i][3][j])])])

StatementTokens(st) == Tokens(st[2]) \o PairTokens(st[3])

TurtleTokens(document) ==
    FlattenSeq([i \in DOMAIN document |-> StatementTokens(document[i]) \o <<<<".">>>>])

TrigTokens(document) ==
    FlattenSeq([i \in DOMAIN document |->
        IF document[i][1] = <<>> THEN StatementTokens(document[i]) \o <<<<".">>>>
        ELSE Tokens(document[i][1]) \o <<<<"{">>>> \o StatementTokens(document[i]) \o <<<<"}">>>>])
-----------------------------------------------------------------------------
\* The element tree of a document in RDF/XML 1.2; Expressible is what it can say.
El(tag, at, text, kids) ==
    [tag |-> tag, at |-> at, props |-> <<>>, text |-> text, kids |-> kids]

RECURSIVE InXML(_)
InXML(pairs) ==
    \A i \in DOMAIN pairs :
        LET n == pairs[i][2]
        IN /\ Len(pairs[i][3]) <= 1
           /\ \A j \in DOMAIN pairs[i][3] : pairs[i][3][j][1] # <<>> /\ pairs[i][3][j][2] = <<>>
           /\ CASE n[1] = "leaf" -> TRUE
                [] n[1] = "props" -> InXML(n[2])
                [] n[1] = "list" -> \A k \in DOMAIN n[2] :
                        \/ n[2][k][1] = "props" /\ InXML(n[2][k][2])
                        \/ n[2][k][1] = "leaf" /\ ~IsLiteral(n[2][k][2])
                [] n[1] = "term" -> n[2][1] = "leaf" /\ n[4][1] = "leaf"
                [] OTHER -> FALSE

NodeAt(t) == IF IsIRI(t) THEN [about |-> t[2]] ELSE [nodeID |-> t[2]]

NoteAt(notes) ==
    IF notes = <<>> THEN <<>>
    ELSE LET r == notes[1][1][2]
         IN IF IsIRI(r) THEN [annotation |-> r[2]] ELSE [annotationNodeID |-> r[2]]

RECURSIVE PropertyElements(_)
NodeElement(n) ==
    IF n[1] = "leaf" THEN El(<<"rdf", "Description">>, NodeAt(n[2]), "", <<>>)
    ELSE El(<<"rdf", "Description">>, <<>>, "", PropertyElements(n[2]))

PropertyElement(p) ==
    LET n == p[2]
        t == n[2]
    IN CASE n[1] = "leaf" /\ IsIRI(t) -> El(p[1][2], [resource |-> t[2]], "", <<>>)
         [] n[1] = "leaf" /\ IsBNode(t) -> El(p[1][2], [nodeID |-> t[2]], "", <<>>)
         [] n[1] = "leaf" /\ IsLiteral(t) ->
                El(p[1][2], IF IsIRI(t[3]) THEN [datatype |-> t[3][2]]
                            ELSE IF t[3][3] = "" THEN [lang |-> t[3][2]]
                            ELSE [lang |-> t[3][2], dir |-> t[3][3]], t[2], <<>>)
         [] n[1] = "props" -> El(p[1][2], [parseType |-> "Resource"], "", PropertyElements(n[2]))
         [] n[1] = "list" -> El(p[1][2], [parseType |-> "Collection"], "",
                                [k \in DOMAIN n[2] |-> NodeElement(n[2][k])])
         [] n[1] = "term" ->
                El(p[1][2], [parseType |-> "Triple"], "",
                   <<El(<<"rdf", "Description">>, NodeAt(n[2][2]), "",
                        PropertyElements(<<<<n[3], n[4], <<>>>>>>))>>)

PropertyElements(pairs) ==
    [i \in DOMAIN pairs |->
        LET e == PropertyElement(pairs[i])
            note == NoteAt(pairs[i][3])
        IN IF pairs[i][3] = <<>> THEN e
           ELSE [e EXCEPT !.at = [a \in DOMAIN e.at \cup DOMAIN note |->
                                     IF a \in DOMAIN note THEN note[a] ELSE e.at[a]]]]

XMLExpressible(document) ==
    \A i \in DOMAIN document : document[i][2][1] \in {"leaf", "props"} /\ InXML(document[i][3])
                            /\ (document[i][2][1] = "props" => InXML(document[i][2][2]))

\* A subject with type X that is a pair of its own is a typed node element.
XMLTree(document) ==
    El(<<"rdf", "RDF">>, [version |-> "1.2"], "",
       [i \in DOMAIN document |->
            LET e == NodeElement(document[i][2])
                k == document[i][3]
                typed == k[1][1] = Type /\ k[1][2][1] = "leaf" /\ IsIRI(k[1][2][2]) /\ k[1][3] = <<>>
            IN IF typed THEN [e EXCEPT !.tag = k[1][2][2][2], !.kids = @ \o PropertyElements(Tail(k))]
               ELSE [e EXCEPT !.kids = @ \o PropertyElements(k)]])
-----------------------------------------------------------------------------
(***************************************************************************)
(* Small datasets for Syntax: graphs within a few triples of the shapes    *)
(* that the serializers treat specially.                                   *)
(***************************************************************************)
a == IRI(<<"urn:", "a">>)
p == IRI(<<"urn:", "p">>)
q == IRI(<<"urn:", "d/", "q">>)
b1 == BNode(1)
b2 == BNode(2)
b3 == BNode(3)

InDefault(g) == {<<t[1], t[2], t[3], Nil>> : t \in g}
UpTo2(S) == {{}} \cup {{x, y} : x \in S, y \in S}
UpTo3(S) == {{}} \cup {{x, y, z} : x \in S, y \in S, z \in S}
Toggle(g, t) == IF t \in g THEN g \ {t} ELSE g \cup {t}
Near1(g, pool) == {g} \cup {Toggle(g, t) : t \in pool}
Near2(g, pool) == UNION {Near1(h, pool) : h \in Near1(g, pool)}

\* Lists: one of two items and all that two triples more or less make of it.
TwoItems == {<<a, p, b1>>, <<b1, First, b2>>, <<b1, Rest, b3>>, <<b3, First, a>>, <<b3, Rest, Nil>>}
ListTriples == {<<s, v, o>> : s \in {a, b1, b2, b3}, v \in {p, First, Rest},
                              o \in {a, b1, b2, b3, Nil}}
Lists == Near2(TwoItems, ListTriples)

\* Every graph of references between three blank nodes.
Webs == SUBSET {<<s, p, o>> : s \in {b1, b2, b3}, o \in {b1, b2, b3}}

\* Up to three triples, each with a term that is written in its own way.
Special == {<<a, p, Literal("x", XSD("string"))>>, <<a, p, Literal("x", <<"lang", "en", "">>)>>,
            <<a, p, Literal("x", <<"lang", "en", "rtl">>)>>, <<a, p, Literal("1", XSD("integer"))>>,
            <<b1, p, Literal("x", q)>>, <<a, Type, RDFS("Class")>>, <<b1, Type, q>>,
            <<b1, Type, IRI(<<"urn:", "+">>)>>, <<a, RDF("li"), a>>, <<a, p, RDF("RDF")>>,
            <<a, Type, RDF("li")>>, <<BNode(101), p, b3>>, <<a, q, IRI(<<"urn:", "d/", "x">>)>>,
            <<a, p, IRI(<<"urn:", "|">>)>>, <<a, p, IRI(<<"urn:", "^A">>)>>, <<a, IRI(<<"urn:", "+">>), a>>,
            <<a, p, IRI(<<"urn:", "d/">>)>>,
            <<b2, p, TripleTerm(b1, q, b2)>>, <<a, Reifies, TripleTerm(a, p, TripleTerm(b3, p, a))>>,
            <<a, p, TripleTerm(a, p, Literal("x", <<"lang", "en", "ltr">>))>>,
            <<b1, p, TripleTerm(a, Type, a)>>, <<b2, p, TripleTerm(a, p, Literal("x", IRI(<<"urn:", "|">>)))>>}
Names == {<<>>, [x |-> <<"urn:">>], [x |-> <<"urn:">>, y |-> <<"urn:", "d/">>],
          [ns1 |-> <<"urn:", "d/">>], ("" :> <<"urn:">>) @@ ("-" :> <<"urn:", "d/">>),
          [rdf |-> <<"urn:">>]}
DocBases == {<<>>, <<"urn:", "d/", "x">>}

\* Blank nodes shared by graphs, in triple terms, and as the name of a graph.
DatasetQuads == {<<s, p, o, g>> : s \in {b1, b2}, o \in {b1, b2, TripleTerm(b2, p, a), Nil},
                                 g \in {Nil, a, b1}}

\* Documents with every shorthand inside every other, to the depth of two.
L(t) == <<"leaf", t>>
pair(o) == <<p, o, <<>>>>
Nodes0 == {L(a), L(b1)}
Objects0 == Nodes0 \cup {<<"list", <<>>>>, <<"props", <<>>>>}
Nodes1 == {<<"props", <<pair(o)>>>> : o \in Objects0}
            \cup {<<"props", <<pair(L(b1)), pair(<<"props", <<>>>>), <<Type, L(a), <<>>>>>>>>}
            \cup {<<"list", <<x, y>>>> : x \in Objects0, y \in Objects0}
            \cup {<<"reified", s, p, o, i>> : s \in Nodes0, o \in {L(b1), <<"props", <<>>>>},
                                              i \in {<<>>, L(b1)}}
Objects1 == Objects0 \cup Nodes1
              \cup {L(Literal("x", XSD("string"))), L(Literal("x", <<"lang", "en", "ltr">>)),
                    <<"term", L(b1), p, L(Literal("1", XSD("integer")))>>,
                    <<"term", <<"props", <<>>>>, p, <<"term", L(a), p, L(b1)>>>>}
Nodes2 == {<<"list", <<x, L(b1), x>>>> : x \in Nodes1} \cup {<<"props", <<pair(x), pair(x)>>>> : x \in Nodes1}
            \cup {<<"reified", x, p, x, <<>>>> : x \in {n \in Nodes1 : n[1] = "reified"}}
Notes == {<<>>, <<<<<<>>, <<>>>>>>, <<<<L(b1), <<>>>>>>, <<<<<<>>, <<pair(L(b1))>>>>, <<L(a), <<>>>>>>,
          <<<<L(b1), <<pair(<<"list", <<L(b1)>>>>)>>>>, <<L(b1), <<<<p, L(a), <<<<<<>>, <<>>>>>>>>>>>>>>}
SomeSubjects == {L(b1), <<"props", <<>>>>, <<"props", <<pair(L(b1))>>>>, <<"list", <<L(b1)>>>>,
                 <<"reified", L(b1), p, L(a), <<>>>>}
Graphs0 == {<<>>, L(a), L(b1)}

Doc == {<<<<g, s, <<<<p, o, n>>>>>>>> : g \in Graphs0, s \in Nodes0, o \in Objects1, n \in Notes}
         \cup {<<<<g, s, <<pair(L(b1)), pair(o), <<Type, L(a), <<>>>>>>>>>> :
               g \in Graphs0, s \in SomeSubjects, o \in Nodes2}
         \cup {<<<<g, s, <<<<Type, L(q), <<>>>>, pair(o)>>>>, <<h, L(b1), <<pair(o)>>>>>> :
               g \in Graphs0, h \in Graphs0, s \in Nodes0 \cup {<<"props", <<>>>>}, o \in Objects1}

\* Documents with a block without triples before them.
DocBesideEmpty == {<<<<g, s, <<pair(o)>>>>>> : g \in Graphs0, s \in SomeSubjects, o \in Objects0}
EmptyBlock(g) == <<<<"GRAPH">>>> \o Tokens(g) \o <<<<"{">>, <<"}">>>>

InOneGraph(d) == \A i \in DOMAIN d : d[i][1] = <<>>
DocCases ==
    {CaseOf(d, {}, "trig", TrigTokens(d)) : d \in Doc}
      \cup {CaseOf(d, {g}, "trig", EmptyBlock(g) \o TrigTokens(d)) : d \in DocBesideEmpty, g \in {L(a), L(b1)}}
      \cup {CaseOf(d, {}, "turtle", TurtleTokens(d)) : d \in {x \in Doc : InOneGraph(x)}}
      \cup {CaseOf(d, {}, "tree", XMLTree(d)) : d \in {x \in Doc : InOneGraph(x) /\ XMLExpressible(x)}}

\* Quads as json-gold may make them: with ill-formed IRIs, labels of its own and
\* nodes left out. The document stands for those that are statements.
GoldQuads == {<<a, p, b1, Nil>>, <<b1, p, BNode(9), Nil>>, <<b1, p, Literal("x", <<"lang", "en", "">>), Nil>>,
              <<a, p, Literal("x", q), Nil>>}
OddQuads == {<<IRI(<<"urn:", "|">>), p, b1, Nil>>, <<a, IRI(<<"x">>), b1, Nil>>, <<b1, p, <<"none">>, Nil>>,
             <<b1, p, Literal("x", IRI(<<"|">>)), Nil>>}
GoldCases == {<<d \cap GoldQuads, <<>>, <<>>, "jsonld",
                [context |-> <<>>, quads |-> LET order == Listing(d)
                    IN [i \in DOMAIN order |-> [j \in 1..4 |-> LD!CompactTerm(<<>>, order[i][j])]]], {}>> :
              d \in SUBSET (GoldQuads \cup OddQuads)}

\* N-Quads with malformed lines among the good ones.
BadLines == {<<<<"iriref", <<"x">>>>>>, <<<<"label", 1>>, <<"iriref", p[2]>>, <<"label", 2>>>>}
LineCases == {<<d, <<>>, <<>>, "lines", LET good == NQ!Serialize(d).out IN <<x>> \o good \o <<y>>, Listed(d)>> :
              d \in UpTo2(DatasetQuads), x \in BadLines, y \in BadLines}

DataCases == {<<InDefault(g), [x |-> <<"urn:">>], <<>>, "", <<>>, {}>> : g \in Lists \cup Webs}
               \cup {<<InDefault(g), n, u, "", <<>>, {}>> : g \in UpTo2(Special), n \in Names, u \in DocBases}
               \cup {<<d, [x |-> <<"urn:">>], <<>>, "", <<>>, Listed(d)>> : d \in UpTo3(DatasetQuads)}
MCCases == DataCases \cup DocCases \cup GoldCases \cup LineCases
-----------------------------------------------------------------------------
(* Both together.                                                         *)

CONSTANTS Kinds, MaxLines, nodeBatchSize, MaxRoom

VARIABLES which, input, line, batch, stored, room, onError, reported, done, running, errs

stream == <<input, line, batch, stored, room, onError, reported, done, running, errs>>
everything == <<which, vars, stream>>

Stream == INSTANCE JSONLDNodes

NoDataset == /\ data = 0 /\ names = 0 /\ first = 0 /\ ns = 0 /\ base = 0 /\ format = 0 /\ doc = 0 /\ hops = 0
             /\ refused = 0
NoStream == /\ input = 0 /\ line = 0 /\ batch = 0 /\ stored = 0 /\ room = 0 /\ onError = 0
            /\ reported = 0 /\ done = 0 /\ running = 0 /\ errs = 0

DocumentsInit == \/ which = "dataset" /\ Init /\ NoStream
                 \/ which = "stream" /\ Stream!Init /\ NoDataset

\* A stream that has not returned always has a step; a chain ends where it may.
DocumentsNext == \/ which = "dataset" /\ Next /\ UNCHANGED <<which, stream>>
                 \/ which = "dataset" /\ UNCHANGED everything
                 \/ which = "stream" /\ Stream!Next /\ UNCHANGED <<which, vars>>
                 \/ which = "stream" /\ ~running /\ UNCHANGED everything

DocumentsSpec == DocumentsInit /\ [][DocumentsNext]_everything

\* Streams of nodes alone.
StreamSpec == which = "stream" /\ DocumentsInit /\ [][DocumentsNext]_everything
-----------------------------------------------------------------------------
\* Parse of turtle, trig, nt, nq, rdfxml and jsonld refuses nothing that Serialize
\* wrote of data with well-formed IRIs, and no document of the grammar; an ill-formed
\* IRI is refused when it is written, by RDF/XML, and by Turtle for a datatype inside
\* a triple term, only when it is read; and whatever chain of syntaxes the data
\* went through, it is the same dataset up to the names of its blank nodes, also
\* by the JSON-LD parser's shortcut from json-gold's quads (addDatasetWith); and
\* the dataset lists the graphs the TriG document opened.
SyntaxRoundTrip == which = "dataset" => ReadsItsOwn /\ RoundTrip /\ PathsAgree

\* A handler that fails at its n-th statement has seen the first n-1 and no more,
\* and the parse reports its error (stream.Stopper).
ParseStopsAtFailure == which = "dataset" => StopsAtFailure

\* jsonld/nodes.go, ParseNodes: the nodes stored and held are those read, each once
\* and in order, without the batches that hold a node which could not be converted
\* and of which nothing is stored.
NodesKept == which = "stream" => Stream!NodesKept

\* "A bad line without a WithNodeErrorHandler stops ParseNodes after the good lines
\* before it have been added" (nodes_ndjson.go): when it returns for a line or at the
\* end, the store has all of them whose batch converted; and "errors from the store or
\* the context are never passed" to the error handler.
StopDelivers == which = "stream" => Stream!StopDelivers /\ Stream!OnlyBadReported

\* jsonld/nodes.go:173-174, "An error that names the node leaves the batch as it was",
\* and nodes_ndjson.go:111-112, "the good nodes before it are delivered": no good line
\* that was read is lost while the store and the context are well.
GoodLinesKept == which = "stream" => Stream!GoodLinesKept
=============================================================================
