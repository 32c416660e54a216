------------------------------ MODULE RDFTerms ------------------------------
(***************************************************************************)
(* RDF terms, as the syntaxes, the query engine and the reasoners tell     *)
(* them apart (term/). An IRI is the sequence of the pieces it is made of, *)
(* so that resolving against a base and joining a prefix to a local name   *)
(* are concatenations; the text of a piece is never looked into. A blank   *)
(* node is a number. A triple is <<s, p, o>>.                              *)
(***************************************************************************)
EXTENDS Naturals, Sequences, FiniteSets, SequencesExt, Integers

IRI(pieces) == <<"iri", pieces>>
BNode(n) == <<"bnode", n>>
\* A literal: its lexical form and its datatype, <<"iri", ..>>, or its language
\* tag and base direction, <<"lang", tag, dir>>.
Literal(lex, suffix) == <<"lit", lex, suffix>>
TripleTerm(s, p, o) == <<"triple", s, p, o>>

IsIRI(t) == t[1] = "iri"
IsBNode(t) == t[1] = "bnode"
IsLiteral(t) == t[1] = "lit"
IsTripleTerm(t) == t[1] = "triple"

RDF(l) == IRI(<<"rdf", l>>)
RDFS(l) == IRI(<<"rdfs", l>>)
XSD(l) == IRI(<<"xsd", l>>)
\* An absolute IRI starts with one of these; what does not is relative.
Schemes == {"rdf", "rdfs", "xsd", "owl", "sh", "urn:"}
Absolute(pieces) == pieces # <<>> /\ Head(pieces) \in Schemes

First == RDF("first")
Rest == RDF("rest")
Nil == RDF("nil")
Type == RDF("type")
Reifies == RDF("reifies")

RECURSIVE TermBNodes(_)
TermBNodes(t) == CASE IsBNode(t) -> {t}
                   [] IsTripleTerm(t) -> TermBNodes(t[2]) \cup TermBNodes(t[4])
                   [] OTHER -> {}

RECURSIVE RenameTerm(_, _)
RenameTerm(t, f) == CASE IsBNode(t) -> f[t]
                      [] IsTripleTerm(t) -> TripleTerm(RenameTerm(t[2], f), t[3],
                                                       RenameTerm(t[4], f))
                      [] OTHER -> t

\* The blank nodes of a set of statements, and a renaming of them; a statement
\* is a triple or a quad <<s, p, o, graph>>.
BNodesOf(g) == UNION {UNION {TermBNodes(t[i]) : i \in {1} \cup 3..Len(t)} : t \in g}
Rename(g, f) == {[i \in DOMAIN t |-> RenameTerm(t[i], f)] : t \in g}

\* A blank node by the statements it is in, to the distance of some steps: what
\* no renaming changes.
LOCAL Refine(g, colour) ==
    [b \in DOMAIN colour |->
        Rename({t \in g : b \in BNodesOf({t})}, [c \in DOMAIN colour |-> <<"bnode", c = b, colour[c]>>])]
LOCAL Colours(g) == LET c0 == [b \in BNodesOf(g) |-> 0] IN Refine(g, Refine(g, Refine(g, c0)))

RECURSIVE Matches(_, _, _, _, _)
Matches(g, h, cg, ch, f) ==
    LET todo == DOMAIN cg \ DOMAIN f
        b == CHOOSE x \in todo : TRUE
    IN IF todo = {} THEN Rename(g, f) = h
       ELSE \E c \in DOMAIN ch \ Range(f) :
                cg[b] = ch[c] /\ Matches(g, h, cg, ch, [x \in DOMAIN f \cup {b} |->
                                                           IF x = b THEN c ELSE f[x]])

\* Two graphs are the same graph when a renaming of blank nodes makes them so.
Isomorphic(g, h) ==
    /\ Cardinality(g) = Cardinality(h)
    /\ LET cg == Colours(g)
           ch == Colours(h)
       IN /\ Cardinality(DOMAIN cg) = Cardinality(DOMAIN ch)
          /\ Range(cg) = Range(ch)
          /\ Matches(g, h, cg, ch, <<>>)

Subjects(g) == {t[1] : t \in g}
Predicates(g, s) == {t[2] : t \in {u \in g : u[1] = s}}
Objects(g, s, p) == {t[3] : t \in {u \in g : u[1] = s /\ u[2] = p}}
The(S) == CHOOSE x \in S : TRUE

\* The elements of S in some order: that of a store or of a Go map.
Listing(S) == FoldSet(LAMBDA x, s : Append(s, x), <<>>, S)
-----------------------------------------------------------------------------
(***************************************************************************)
(* What the parsers of all RDF syntaxes share: the statements handed to    *)
(* the handler, the blank node labels of the document (internal/bnodes),   *)
(* the reason to stop (internal/stream), and the base IRI. A token is      *)
(* <<kind, ...>>.                                                          *)
(*                                                                         *)
(* Once p.err is set Tok answers "eof", so that every operator falls       *)
(* through to its error: the early returns of the code.                    *)
(***************************************************************************)
Unlimited == -1

\* A parser before its first token. room is the number of statements the
\* handler takes before it returns an error.
newParser(in, prefixes, base, room) ==
    [in |-> in, pos |-> 1, out |-> <<>>, labels |-> <<>>, fresh |-> 0,
     prefixes |-> prefixes, base |-> base, depth |-> 0, err |-> "",
     val |-> Nil, graph |-> Nil, opened |-> {}, room |-> room, stop |-> FALSE]

Tok(p) == IF p.err # "" \/ p.pos > Len(p.in) THEN <<"eof">> ELSE p.in[p.pos]
Is(p, kind) == Tok(p)[1] = kind
Skip(p) == [p EXCEPT !.pos = @ + 1]
Give(p, v) == [p EXCEPT !.val = v]
Fail(p, why) == IF p.err = "" THEN [p EXCEPT !.err = why] ELSE p
Expect(p, kind) == IF Is(p, kind) THEN Skip(p) ELSE Fail(p, "syntax")

\* What R reads next, after the values read so far.
Also(p, R(_)) == [R(p) EXCEPT !.val = Append(p.val, @)]

\* Three values, each where the one before it ends.
ReadThree(p, R(_), S(_), U(_)) == Also(Also(Also(Give(p, <<>>), R), S), U)

\* A new blank node, different from all before it.
NewBNode(p) == [p EXCEPT !.fresh = @ + 1, !.val = BNode(p.fresh + 1)]

\* Scope.Label: one node for each label of the document.
Label(p, l) ==
    IF l \in DOMAIN p.labels THEN Give(p, p.labels[l])
    ELSE LET q == NewBNode(p)
         IN [q EXCEPT !.labels = [x \in DOMAIN @ \cup {l} |->
                                     IF x = l THEN q.val ELSE @[x]]]

\* Mutant: the handler is called again after it failed.
emitAfterFailure(p, s, pred, o) ==
    IF p.err # "" THEN p
    ELSE [p EXCEPT !.out = Append(@, <<s, pred, o, p.graph>>),
                   !.stop = @ \/ Len(p.out) = p.room]

\* Nothing is emitted once the handler has failed or the parse has.
emit(p, s, pred, o) ==
    IF p.err # "" \/ p.stop THEN p
    ELSE IF Len(p.out) = p.room THEN [p EXCEPT !.stop = TRUE]
    ELSE [p EXCEPT !.out = Append(@, <<s, pred, o, p.graph>>)]

\* The three values read last, as a triple.
emitRead(p) == emit(p, p.val[1], p.val[2], p.val[3])
TripleRead(p) == TripleTerm(p.val[1], p.val[2], p.val[3])

\* A relative reference replaces the last piece of the base; an empty one is it.
resolveIRI(p, u) ==
    IF p.base = <<>> \/ Absolute(u) THEN u
    ELSE IF u = <<>> THEN p.base
    ELSE Front(p.base) \o u
-----------------------------------------------------------------------------
(***************************************************************************)
(* The names RDF/XML gives a meaning of its own, and where they may not    *)
(* stand (rdfxml/parser.go); the parser refuses them, the serializer does  *)
(* not write them.                                                         *)
(***************************************************************************)
SyntaxNames == {"RDF", "ID", "about", "parseType", "resource", "nodeID", "datatype",
                "aboutEach", "aboutEachPrefix", "bagID"}
RDFNames(names) == {<<"rdf", l>> : l \in names}

forbiddenNodeElementNames == RDFNames(SyntaxNames \cup {"li"})
forbiddenPropertyElementNames == RDFNames(SyntaxNames \cup {"Description"})
forbiddenPropertyAttributeNames ==
    RDFNames({"RDF", "Description", "li", "aboutEach", "aboutEachPrefix", "bagID"})
=============================================================================
