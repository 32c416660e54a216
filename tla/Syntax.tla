------------------------------- MODULE Syntax -------------------------------
(***************************************************************************)
(* Data written in one RDF syntax, read back, and written again in         *)
(* another. data is a set of quads, Nil the default graph; names are the   *)
(* graphs the dataset lists, empty ones included; first is what data was   *)
(* at the start. The syntaxes for one graph are used while there is only   *)
(* the default graph.                                                      *)
(***************************************************************************)
EXTENDS RDFTerms, Integers

CONSTANTS Cases,         \* what to start from, <<data, ns, base, format, doc, names>>: a set
                         \* of quads, namespace bindings prefix -> IRI, a base IRI or
                         \* <<>>, no format or a document that stands for the data,
                         \* and the graphs
          MaxHops,       \* how often data is written and read
          MaxNestDepth, MaxDepth, BadPrefixes, BadLocals, BadPieces, NotXMLChars, BadLabels,
          OddLabels

VARIABLES data, names, first, ns, base, format, doc, hops, refused
vars == <<data, names, first, ns, base, format, doc, hops, refused>>

TurtleIn == INSTANCE TurtleParser
                WITH TrailingEnds <- {"eof", ".", "]", "|}"},
                     ReifierEnds <- {"eof", "{", "{|", ".", ";", ",", "]", "~", "|}"}
TurtleOut == INSTANCE TurtleSerializer WITH DefersAll <- TRUE
TriG == INSTANCE Trig
NT == INSTANCE LineSyntax WITH Quads <- FALSE
NQ == INSTANCE LineSyntax WITH Quads <- TRUE
XMLIn == INSTANCE RDFXMLParser
XMLOut == INSTANCE RDFXMLSerializer WITH BadPrefixes <- BadPrefixes \cup {""}
LD == INSTANCE JSONLD

GraphSyntaxes == {"turtle", "triggraph", "nt", "rdfxml", "jsonld"}
Syntaxes == GraphSyntaxes \cup {"trig", "nq", "stream"}

Triples(quads) == {<<q[1], q[2], q[3]>> : q \in quads}
Flat(quads) == \A q \in quads : q[4] = Nil

\* nq.Writer, quad after quad, on a writer that takes them all; the caller
\* discards the output when a quad is refused.
Lines(w) == [err |-> Len(w.lines) < Cardinality(data), out |-> w.lines]
Streamed == Lines(FoldLeft(NQ!Write, [lines |-> <<>>, err |-> FALSE, room |-> Unlimited],
                           Listing(data)))

Written(f) ==
    CASE f = "turtle" -> TurtleOut!Serialize(Triples(data), ns, base)
      [] f = "trig" -> TriG!SerializeDataset(data, names, ns, base)
      [] f = "triggraph" -> TriG!Serialize(Triples(data), ns, base)
      [] f = "nt" -> NT!Serialize(data)
      [] f = "nq" -> NQ!Serialize(data)
      [] f = "stream" -> Streamed
      [] f = "rdfxml" -> XMLOut!Serialize(Triples(data), ns, base)
      [] f = "jsonld" -> LD!Serialize(data, ns, {""})

\* The document is read with no prefixes and no base but its own. A "tree" is
\* RDF/XML as the XML decoder gives it, and "lines" are N-Quads read with an error
\* handler that skips malformed lines.
Read(f, room) ==
    LET p == newParser(<<>>, <<>>, <<>>, room)
        x == XMLIn!newXMLParser(<<>>, room)
    IN CASE f = "turtle" -> TurtleIn!parse([p EXCEPT !.in = doc])
         [] f \in {"trig", "triggraph"} -> TriG!parse([p EXCEPT !.in = doc])
         [] f = "nt" -> NT!parseLines(p, doc, <<"none">>)
         [] f \in {"nq", "stream", "lines"} ->
                NQ!parseLines(p, doc, <<IF f = "lines" THEN "skip" ELSE "none">>)
         [] f \in {"rdfxml", "tree"} ->
                XMLIn!parse(x, IF f = "tree" THEN doc ELSE XMLOut!Expand(doc.decl, doc.root))
         [] f = "jsonld" -> LD!parse(p, doc, FALSE)

Init == /\ \E c \in Cases : /\ data = c[1] /\ ns = c[2] /\ base = c[3]
                         /\ format = c[4] /\ doc = c[5] /\ names = c[6]
        /\ first = data /\ hops = 0 /\ refused = FALSE

\* The document w written in f, if there is one.
Keep(w, f) == IF w.err THEN refused' = TRUE /\ UNCHANGED <<format, doc>>
              ELSE format' = f /\ doc' = w.out /\ UNCHANGED refused

\* A graph is listed once a quad is added to it or a block of TriG opens it.
Listed(quads) == {q[4] : q \in quads} \ {Nil}

\* The statements of the parser p, if it has no error.
Take(p) == IF p.err = "" THEN /\ data' = Range(p.out)
                              /\ names' = Listed(Range(p.out)) \cup p.opened
                              /\ UNCHANGED refused
           ELSE refused' = TRUE /\ UNCHANGED <<data, names>>

Write(f) == /\ format = "" /\ ~refused /\ hops < MaxHops
            /\ f \in GraphSyntaxes => Flat(data)
            /\ Keep(Written(f), f)
            /\ UNCHANGED <<data, names, first, ns, base, hops>>

Parse == /\ format # ""
         /\ Take(Read(format, Unlimited))
         /\ format' = "" /\ doc' = <<>> /\ hops' = hops + 1
         /\ UNCHANGED <<first, ns, base>>

Next == Parse \/ \E f \in Syntaxes : Write(f)
Spec == Init /\ [][Next]_vars
-----------------------------------------------------------------------------
\* Whatever chain of syntaxes the data went through, it is the same dataset up to
\* the names of its blank nodes: what Serialize inlines, nests, abbreviates or
\* writes as a list, Parse gives back; and a document written by hand has the
\* triples its grammar says.
RoundTrip == Isomorphic(data, first)

\* A parser refuses nothing its serializer wrote of well-formed data (the Serialize
\* and Parse functions of turtle, trig, nt, nq, rdfxml and jsonld), and no document
\* of the grammar.
\* trig.ParseDataset: every block of a document names a graph, also an empty one
\* ("An empty GRAPH block still names a graph of the dataset"); SerializeDataset
\* writes those with triples.
Marked(quads, graphs) == quads \cup {<<g, Nil>> : g \in graphs}
ReadWell(p) ==
    /\ p.err = ""
    /\ format = "trig" => Isomorphic(Marked(Range(p.out), p.opened),
                                     Marked(data, IF hops = 0 THEN names ELSE Listed(data)))

\* Data with an ill-formed IRI: no serializer writes it but those of RDF/XML, which
\* only looks at what XML can carry (serializer_chars.go:22), and of Turtle, which
\* does not look at the datatypes inside triple terms (serializer.go:188); what they
\* write their own parsers refuse, although rdfxml/parser.go:178 says that "the
\* serializers refuse to write it".
IllFormed(quads) == \E q \in quads : \E u \in TurtleOut!IRIsOf({q}) \cup TriG!QuotedDatatypes(q[3]) :
                        Range(u) \cap BadPieces # {}
ReadAsWritten(p) == IF IllFormed(data) THEN format \in {"rdfxml", "turtle"} /\ p.err # ""
                    ELSE ReadWell(p)
ReadsItsOwn == format # "" => ReadAsWritten(Read(format, Unlimited))

\* The parser p, whose handler failed, has given the statements seen and no other.
Stopped(p, seen) == p.err = "handler" /\ p.out = seen
StopsWithin(reads, all) == \A n \in 0..(Len(all) - 1) : Stopped(reads[n], SubSeq(all, 1, n))
StopsEverywhere(reads) == StopsWithin(reads, reads[Unlimited].out)

\* A TripleHandler that fails at its n-th statement has seen the first n-1 of them
\* and no more, and the parse reports its error (stream.Stopper).
StopsAtFailure ==
    format # "" => StopsEverywhere([n \in Int |-> Read(format, n)])

\* Two parsers gave the same statements, or both an error.
SameOutcome(p, q) ==
    (p.err = "") = (q.err = "") /\ Isomorphic(Range(p.out), Range(q.out))

\* The JSON-LD parser's shortcut from json-gold's quads to statements gives the
\* statements the N-Quads text of the quads gives, or the same error
\* (addDatasetWith), strict or not.
PathsAgree ==
    format = "jsonld" =>
        \A strict \in BOOLEAN :
            LET by(text) == LD!addDataset(newParser(<<>>, <<>>, <<>>, Unlimited),
                                          LD!ToRDF(doc), strict, text)
            IN SameOutcome(by(FALSE), by(TRUE))
=============================================================================
