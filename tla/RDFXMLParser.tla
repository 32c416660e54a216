---------------------------- MODULE RDFXMLParser ----------------------------
(***************************************************************************)
(* The RDF/XML parser (rdfxml/parser.go), on the element tree the XML      *)
(* decoder reads. An element is [tag, at, props, text, kids]: its name as  *)
(* the pieces of an IRI, the attributes with a meaning of their own (at, a *)
(* record of those present), the other attributes <<name, text>>, its      *)
(* character data and its children. ctx is the language and the base       *)
(* direction in scope; the base in scope is p.base.                        *)
(***************************************************************************)
EXTENDS RDFTerms, TLC

CONSTANT BadPieces       \* pieces no IRI can hold

newXMLParser(base, room) == newParser(<<>>, <<>>, base, room) @@ [version |-> "", ids |-> {}]

Has(el, a) == a \in DOMAIN el.at

\* An IRI that is none ends the triples; the parse goes on to the end.
iri(p, u) == IF Range(u) \cap BadPieces = {} THEN Give(p, IRI(u)) ELSE Fail(Give(p, IRI(u)), "iri")
resolve(p, u) == iri(p, resolveIRI(p, u))
Fragment(p, id) == p.base \o <<"#", id>>
getBNode(p, id) == Label(p, id)

langOpts(p, ctx, lex) ==
    IF ctx.lang = "" THEN Literal(lex, XSD("string"))
    ELSE Literal(lex, <<"lang", ctx.lang, IF p.version = "1.2" THEN ctx.dir ELSE "">>)

\* xml:lang, its:dir and xml:base in scope inside el.
InScope(ctx, el) == [lang |-> IF Has(el, "lang") THEN el.at.lang ELSE ctx.lang,
                     dir |-> IF Has(el, "dir") THEN el.at.dir ELSE ctx.dir]
WithBase(p, el) == IF Has(el, "base") THEN [p EXCEPT !.base = el.at.base] ELSE p

checkID(p, id) ==
    IF Fragment(p, id) \in p.ids THEN Fail(p, "duplicate")
    ELSE [p EXCEPT !.ids = @ \cup {Fragment(p, id)}]

emitReification(p, el, s, pred, o) ==
    IF ~Has(el, "ID") THEN p
    ELSE LET st == IRI(Fragment(p, el.at.ID))
         IN emit(emit(emit(emit(p, st, Type, RDF("Statement")), st, RDF("subject"), s),
                      st, RDF("predicate"), pred), st, RDF("object"), o)

emitAnnotation(p, el, s, pred, o) ==
    LET r == IF Has(el, "annotation") THEN resolve(p, el.at.annotation)
             ELSE getBNode(p, el.at.annotationNodeID)
    IN IF {"annotation", "annotationNodeID"} \cap DOMAIN el.at = {} THEN p
       ELSE emit(r, r.val, Reifies, TripleTerm(s, pred, o))

\* What a property element says of its triple once the triple is there.
About(p, el, s, pred, o) == emitAnnotation(emitReification(p, el, s, pred, o), el, s, pred, o)

\* rdf:type as an attribute names a class; every other attribute is a literal.
emitPropertyAttrs(p, s, props, ctx) ==
    LET one(q, a) == IF a[1] = Type[2]
                     THEN LET t == resolve(q, a[2]) IN emit(t, s, Type, t.val)
                     ELSE emit(q, s, IRI(a[1]), langOpts(q, ctx, a[2]))
    IN FoldLeft(one, p, props)

ForbiddenAttr(props) == \E a \in Range(props) : a[1] \in forbiddenPropertyAttributeNames
-----------------------------------------------------------------------------
RECURSIVE parseNodeElement(_, _, _)
RECURSIVE parseProperties(_, _, _, _, _)
RECURSIVE Nodes(_, _, _, _)

\* rdf:about, rdf:ID or rdf:nodeID, no two of them; a new node when none is there.
Subject(p, el) ==
    LET named == {"about", "ID", "nodeID"} \cap DOMAIN el.at
    IN CASE named = {} -> NewBNode(p)
         [] named = {"about"} -> resolve(p, el.at.about)
         [] named = {"ID"} -> Give(checkID(p, el.at.ID), IRI(Fragment(p, el.at.ID)))
         [] named = {"nodeID"} -> getBNode(p, el.at.nodeID)
         [] OTHER -> Fail(p, "syntax")

\* its:dir is both in scope and, on a node element, one more attribute.
NodeAttrs(el) ==
    el.props \o (IF Has(el, "dir") THEN <<<<<<"its", "dir">>, el.at.dir>>>> ELSE <<>>)

\* What the element el says of the subject s.val.
describe(s, el, ctx) ==
    LET t == IF el.tag = <<"rdf", "Description">> THEN s ELSE emit(s, s.val, Type, IRI(el.tag))
    IN Give(parseProperties(emitPropertyAttrs(t, s.val, NodeAttrs(el), ctx),
                            el.kids, s.val, ctx, 1), s.val)

parseNodeElement(p, el, outer) ==
    IF el.tag \in forbiddenNodeElementNames \/ ForbiddenAttr(el.props) THEN Fail(p, "syntax")
    ELSE [describe(Subject(WithBase(p, el), el), el, InScope(outer, el)) EXCEPT !.base = p.base]

\* The node elements els, one after the other; p.val is their subjects.
afterNode(n, els, ctx, read) == Nodes(n, els, ctx, Append(read, n.val))
Nodes(p, els, ctx, read) ==
    IF p.err # "" \/ els = <<>> THEN Give(p, read)
    ELSE afterNode(parseNodeElement(p, Head(els), ctx), Tail(els), ctx, read)

\* The triple s pred o.val, and what the element says of it.
say(o, el, s, pred) == About(emit(o, s, pred, o.val), el, s, pred, o.val)

\* The list comes after everything its items say.
emitList(h, items, el, s, pred) ==
    LET cell(q, i) == LET f == emit(q, q.val, First, items[i])
                          n == NewBNode(f)
                      IN IF i = Len(items) THEN emit(f, q.val, Rest, Nil)
                         ELSE emit(n, q.val, Rest, n.val)
    IN FoldLeft(cell, Give(say(h, el, s, pred), h.val), [i \in DOMAIN items |-> i])

afterItems(r, el, s, pred) ==
    emitList(IF r.val = <<>> THEN Give(r, Nil) ELSE NewBNode(r), r.val, el, s, pred)

parseCollection(p, el, s, pred, ctx) == afterItems(Nodes(p, el.kids, ctx, <<>>), el, s, pred)

\* The one triple inside is captured, not emitted. Before version 1.2 the
\* element is skipped.
captured(inner, p, el, s, pred) ==
    LET q == [inner EXCEPT !.out = p.out, !.room = p.room]
        t == inner.out[1]
    IN IF inner.err # "" THEN q
       ELSE IF Cardinality(Range(inner.out)) # 1 THEN Fail(q, "syntax")
       ELSE say(Give(q, TripleTerm(t[1], t[2], t[3])), el, s, pred)

parseTripleParseType(p, el, s, pred, ctx) ==
    IF p.version # "1.2" THEN p
    ELSE IF Len(el.kids) # 1 THEN Fail(p, "syntax")
    ELSE captured(parseNodeElement([p EXCEPT !.out = <<>>, !.room = Unlimited],
                                   Head(el.kids), ctx), p, el, s, pred)

\* rdf:resource, rdf:nodeID or attributes; children are not read. An empty
\* rdf:resource with attributes is taken for none.
resourceProperty(p, el, s, pred, ctx) ==
    LET fresh == ~Has(el, "nodeID") /\ (Has(el, "resource") => el.at.resource = <<>>)
                    /\ el.props # <<>>
        o == CASE fresh -> NewBNode(p)
               [] ~fresh /\ Has(el, "resource") -> resolve(p, el.at.resource)
               [] OTHER -> getBNode(p, el.at.nodeID)
    IN About(emitPropertyAttrs(emit(o, s, pred, o.val), o.val, el.props, ctx), el, s, pred, o.val)

\* Text, or a node element: the first one counts, the others are skipped.
defaultProperty(p, el, s, pred, ctx) ==
    LET dt == resolve(p, el.at.datatype)
    IN say(CASE el.kids # <<>> -> parseNodeElement(p, Head(el.kids), ctx)
             [] el.kids = <<>> /\ Has(el, "datatype") -> Give(dt, Literal(el.text, dt.val))
             [] OTHER -> Give(p, langOpts(p, ctx, el.text)),
           el, s, pred)

resourceParseType(p, el, s, pred, ctx) ==
    LET b == NewBNode(p) IN parseProperties(say(b, el, s, pred), el.kids, b.val, ctx, 1)

literalParseType(p, el, s, pred) == say(Give(p, Literal(el.text, RDF("XMLLiteral"))), el, s, pred)

parseType(el) == IF Has(el, "parseType") THEN el.at.parseType ELSE ""

propertyForm(p, el, s, pred, ctx) ==
    IF {"resource", "nodeID"} \cap DOMAIN el.at # {} \/ el.props # <<>>
    THEN resourceProperty(p, el, s, pred, ctx)
    ELSE CASE parseType(el) = "Resource" -> resourceParseType(p, el, s, pred, ctx)
           [] parseType(el) = "Collection" -> parseCollection(p, el, s, pred, ctx)
           [] parseType(el) = "Triple" -> parseTripleParseType(p, el, s, pred, ctx)
           [] parseType(el) = "Literal" -> literalParseType(p, el, s, pred)
           [] OTHER -> defaultProperty(p, el, s, pred, ctx)

\* rdf:version on a property switches the rest of the document to 1.2.
parsePropertyElement(p, el, s, pred, outer) ==
    LET ctx == InScope(outer, el)
        v == WithBase([p EXCEPT !.version = IF Has(el, "version") /\ el.at.version = "1.2"
                                            THEN "1.2" ELSE @], el)
        q == IF Has(el, "ID") THEN checkID(v, el.at.ID) ELSE v
        kind == parseType(el)
    IN IF \/ pred[2] \in forbiddenPropertyElementNames \/ ForbiddenAttr(el.props)
          \/ {"resource", "nodeID"} \subseteq DOMAIN el.at
          \/ kind = "Literal" /\ {"resource", "nodeID"} \cap DOMAIN el.at # {}
       THEN Fail(p, "syntax")
       ELSE [propertyForm(q, el, s, pred, ctx) EXCEPT !.base = p.base]

\* rdf:li is numbered by its place among the rdf:li of its parent. After an error
\* no element says anything more.
parseProperties(p, els, s, ctx, li) ==
    IF p.err # "" \/ els = <<>> THEN p
    ELSE LET isLi == Head(els).tag = <<"rdf", "li">>
             pred == IF isLi THEN <<"rdf", "_" \o ToString(li)>> ELSE Head(els).tag
         IN parseProperties(parsePropertyElement(p, Head(els), s, IRI(pred), ctx),
                            Tail(els), s, ctx, IF isLi THEN li + 1 ELSE li)

parseRDFRoot(p, doc) ==
    Nodes([WithBase(p, doc) EXCEPT !.version = IF Has(doc, "version") THEN doc.at.version ELSE @],
          doc.kids, InScope([lang |-> "", dir |-> ""], doc), <<>>)

\* A failing handler and a bad IRI are reported before any other error.
report(q) == IF q.stop THEN [q EXCEPT !.err = "handler"] ELSE q
parse(p, doc) == report(IF doc.tag = <<"rdf", "RDF">> THEN parseRDFRoot(p, doc)
                        ELSE parseNodeElement(p, doc, [lang |-> "", dir |-> ""]))
=============================================================================
