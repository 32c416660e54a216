------------------------------- MODULE JSONLD -------------------------------
(***************************************************************************)
(* The JSON-LD front end (jsonld/). The JSON-LD algorithms are those of    *)
(* the json-gold library: ToRDF turns a document into a sequence of quads, *)
(* FromRDF and Compact a graph into a document. A quad may hold nodes no   *)
(* RDF statement can: an ill-formed IRI, or none at all, <<"none">>.       *)
(*                                                                         *)
(* The quads become statements on one of two paths. The fast path takes    *)
(* them as they are when each node is one the N-Quads parser would accept; *)
(* otherwise they are written as N-Quads and parsed.                       *)
(***************************************************************************)
EXTENDS RDFTerms

CONSTANTS BadPieces,    \* pieces no IRI can hold
          OddLabels     \* blank node labels json-gold does not make itself

N == INSTANCE LineSyntax WITH Quads <- TRUE

\* A statement with a missing node is dropped, or fails a strict parse.
dropEmptyNodes(ds) == SelectSeq(ds, LAMBDA q : \A i \in 1..3 : q[i] # <<"none">>)

\* json-gold reports a JSON literal it cannot convert as the literal's value.
JSONFailure == "JSON Marshal error"
checkJSONLiterals(ds) == \A q \in Range(ds) : q[3] # Literal(JSONFailure, RDF("JSON"))

\* converter.iri, and its caller for a blank node and for a literal.
fastIRI(p, u) == IF N!WellFormed(u) THEN Give(p, IRI(u)) ELSE Fail(p, "slow")
fastNode(p, t) ==
    CASE IsIRI(t) -> fastIRI(p, t[2])
      [] IsBNode(t) -> IF t[2] \in OddLabels THEN Fail(p, "slow") ELSE Label(p, t[2])
      [] OTHER -> Fail(p, "slow")
fastPredicate(p, t) == IF IsIRI(t) THEN fastIRI(p, t[2]) ELSE Fail(p, "slow")
fastObject(p, t) ==
    IF ~IsLiteral(t) THEN fastNode(p, t)
    ELSE CASE ~IsIRI(t[3]) -> IF t[3][2] = "" THEN Fail(p, "slow") ELSE Give(p, t)
           [] t[3] = RDF("langString") -> Fail(p, "slow")
           [] OTHER -> Give(fastIRI(p, t[3][2]), t)

\* converter.statements. The labels read before it gives up stay known.
fastStep(p, q) ==
    IF p.err # "" THEN p
    ELSE emitRead(ReadThree(p, LAMBDA r : fastNode(r, q[1]), LAMBDA r : fastPredicate(r, q[2]),
                               LAMBDA r : fastObject(r, q[3])))
statements(p, ds) == FoldLeft(fastStep, p, ds)

\* parseNQuadsWith: the graph names are dropped, and the labels go through the
\* same scope as on the fast path.
toLines(ds) == [i \in DOMAIN ds |-> N!formatLine(ds[i])]
keepNode(p, t) == IF IsBNode(t) THEN Label(p, t[2]) ELSE Give(p, t)
keep(p, q) == IF p.err # "" THEN p
              ELSE emitRead(ReadThree(p, LAMBDA r : keepNode(r, q[1]), LAMBDA r : Give(r, q[2]),
                                         LAMBDA r : keepNode(r, q[3])))
keepAll(p, q) == IF q.err # "" THEN Fail(p, "syntax") ELSE FoldLeft(keep, p, q.out)
preserve(q) == [q EXCEPT !.labels = [l \in 0..200 |-> BNode(l)]]
textPath(p, ds, strict) ==
    keepAll(p, N!parseLines(preserve(newParser(<<>>, <<>>, <<>>, Unlimited)), toLines(ds),
                            IF strict THEN <<"none">> ELSE <<"skipIRI">>))

\* Nothing reaches the handler before the whole document is converted.
commit(p, stmts) ==
    LET q == FoldLeft(LAMBDA r, t : emit(r, t[1], t[2], t[3]), p, stmts)
    IN IF q.stop THEN [q EXCEPT !.err = "handler"] ELSE q

commitAll(p, c) == IF c.err # "" THEN Fail(p, c.err)
                   ELSE commit([c EXCEPT !.out = <<>>, !.room = p.room], c.out)

\* What the text path keeps of the fast one are its labels.
unlessSlow(fast, quiet, ds, strict) ==
    IF fast.err = "" THEN fast
    ELSE textPath([quiet EXCEPT !.labels = fast.labels, !.fresh = fast.fresh], ds, strict)

addDataset(p, ds, strict, forceText) ==
    LET kept == dropEmptyNodes(ds)
        quiet == [p EXCEPT !.room = Unlimited]
    IN IF strict /\ kept # ds THEN Fail(p, "iri")
       ELSE IF ~checkJSONLiterals(kept) THEN Fail(p, "json")
       ELSE commitAll(p, IF forceText THEN textPath(quiet, kept, strict)
                         ELSE unlessSlow(statements(quiet, kept), quiet, kept, strict))
-----------------------------------------------------------------------------
\* The bindings a compacted document declares: terms a processor can take, for
\* namespaces the graph uses. rdf:type of a node is written as @type.
compactionContext(g, ns, BadTerms) ==
    LET lit(t) == IsLiteral(t) /\ IsIRI(t[3]) /\ t[3] # XSD("string")
        names(t) == {t[1]} \cup (IF t[2] = Type /\ ~IsLiteral(t[3]) THEN {} ELSE {t[2]})
                      \cup (IF lit(t[3]) THEN {t[3][3]} ELSE {t[3]})
        used == {u \in UNION {names(t) : t \in g} : IsIRI(u)}
    IN [p \in {q \in DOMAIN ns \ BadTerms : \E u \in used : IsStrictPrefix(ns[q], u[2])} |-> ns[p]]

\* json-gold's side of it: an IRI as prefix and rest, or in full.
Compact(context, u) ==
    LET fits == {p \in DOMAIN context : IsStrictPrefix(context[p], u)}
        p == CHOOSE x \in fits : \A y \in fits : Len(context[y]) <= Len(context[x])
    IN IF fits = {} THEN <<"full", u>>
       ELSE <<"compact", p, SubSeq(u, Len(context[p]) + 1, Len(u))>>
ExpandIRI(context, c) == IF c[1] = "full" THEN c[2] ELSE context[c[2]] \o c[3]

CompactTerm(context, t) ==
    CASE IsIRI(t) -> <<"iri", Compact(context, t[2])>>
      [] IsLiteral(t) -> IF IsIRI(t[3]) THEN <<"lit", t[2], <<"iri", Compact(context, t[3][2])>>>>
                         ELSE t
      [] OTHER -> t
ExpandTerm(context, t) ==
    CASE IsIRI(t) -> IRI(ExpandIRI(context, t[2]))
      [] IsLiteral(t) -> IF IsIRI(t[3]) THEN Literal(t[2], IRI(ExpandIRI(context, t[3][2]))) ELSE t
      [] OTHER -> t

\* The N-Quads of the graph, as json-gold reads them: it knows no triple terms
\* and no base directions.
FromRDF(quads) ==
    \A q \in quads : ~IsTripleTerm(q[3]) /\ (IsLiteral(q[3]) /\ ~IsIRI(q[3][3]) => q[3][3][3] = "")

Serialize(quads, ns, BadTerms) ==
    LET context == compactionContext(quads, ns, BadTerms)
        order == Listing(quads)
    IN IF N!Serialize(quads).err \/ ~FromRDF(quads) THEN [err |-> TRUE, out |-> <<>>]
       ELSE [err |-> FALSE,
             out |-> [context |-> context,
                      quads |-> [i \in DOMAIN order |->
                                    [j \in 1..4 |-> CompactTerm(context, order[i][j])]]]]

ToRDF(doc) == [i \in DOMAIN doc.quads |->
                  [j \in 1..4 |-> ExpandTerm(doc.context, doc.quads[i][j])]]

parse(p, doc, strict) == addDataset(p, ToRDF(doc), strict, FALSE)
=============================================================================
