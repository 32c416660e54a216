-------------------------- MODULE RDFXMLSerializer --------------------------
(***************************************************************************)
(* The RDF/XML serializer (rdfxml/serializer.go, serializer_names.go): one *)
(* element for each subject, with the element tree RDFXMLParser reads. An  *)
(* XML name is <<prefix, local>> here; Decode is what the XML decoder      *)
(* makes of it. w is the writer: the prefix of each namespace, the blank   *)
(* node labels, whether version 1.2 is needed, and the first error.        *)
(***************************************************************************)
EXTENDS RDFTerms, TLC

CONSTANTS BadPrefixes,   \* prefixes XML cannot declare
          BadLocals,     \* pieces no NCName can hold
          NotXMLChars,   \* pieces XML 1.0 cannot carry
          BadLabels      \* blank node labels that are no NCName

Elem(tag, at, text, kids) ==
    [tag |-> tag, at |-> at, props |-> <<>>, text |-> text, kids |-> kids]
-----------------------------------------------------------------------------
\* The reserved prefix keeps its namespace, and a namespace its first prefix.
newNSTable(ns, reserved) ==
    LET taken == {reserved[u] : u \in DOMAIN reserved}
        free == {p \in DOMAIN ns : p \notin BadPrefixes \cup taken /\ ns[p] \notin DOMAIN reserved}
    IN reserved @@ [u \in {ns[p] : p \in free} |-> CHOOSE p \in free : ns[p] = u]

NCName(l) == l # <<>> /\ Range(l) \cap BadLocals = {}

\* The longest declared namespace that leaves a valid local name.
lookupBound(w, u) ==
    LET rest(n) == SubSeq(u, Len(n) + 1, Len(u))
        fits == {n \in DOMAIN w.prefixOf : IsStrictPrefix(n, u) /\ NCName(rest(n))}
        best == CHOOSE n \in fits : \A m \in fits : Len(m) <= Len(n)
    IN IF fits = {} THEN <<>> ELSE <<<<w.prefixOf[best], rest(best)>>>>

\* A generated prefix is one no namespace has.
prefixFor(w, n) ==
    LET used == {w.prefixOf[m] : m \in DOMAIN w.prefixOf}
        k == CHOOSE i \in w.next..(w.next + Cardinality(used)) :
                 /\ "ns" \o ToString(i) \notin used
                 /\ \A j \in w.next..(i - 1) : "ns" \o ToString(j) \in used
    IN IF n \in DOMAIN w.prefixOf THEN w
       ELSE [w EXCEPT !.prefixOf = (n :> "ns" \o ToString(k)) @@ @, !.next = k + 1]

\* The name of u in w.val, as <<name>>, or <<>> when u has none.
qname(w, u) ==
    LET n == Front(u)
        v == prefixFor(w, n)
    IN IF lookupBound(w, u) # <<>> THEN [w EXCEPT !.val = lookupBound(w, u)]
       ELSE IF Len(u) < 2 \/ ~NCName(<<Last(u)>>) THEN [w EXCEPT !.val = <<>>]
       ELSE [v EXCEPT !.val = <<<<v.prefixOf[n], <<Last(u)>>>>>>]
-----------------------------------------------------------------------------
Refuse(w) == [w EXCEPT !.err = TRUE]
\* Text XML cannot carry is an error; an IRI that is none is not.
checkXMLChars(w, u) == IF Range(u) \cap NotXMLChars = {} THEN w ELSE Refuse(w)

\* "genid" with the next number that is no label of the graph.
GenID(n) == 100 + n
nodeID(w, n) ==
    LET k == CHOOSE i \in w.nextLabel..(w.nextLabel + Cardinality(w.labels)) :
                 /\ GenID(i) \notin w.labels
                 /\ \A j \in w.nextLabel..(i - 1) : GenID(j) \in w.labels
    IN IF n \notin BadLabels THEN [w EXCEPT !.val = n]
       ELSE IF n \in DOMAIN w.relabeled THEN [w EXCEPT !.val = w.relabeled[n]]
       ELSE [w EXCEPT !.val = GenID(k), !.labels = @ \cup {GenID(k)}, !.nextLabel = k + 1,
                      !.relabeled = (n :> GenID(k)) @@ @]

nodeAttr(w, t) ==
    IF IsIRI(t) THEN [checkXMLChars(w, t[2]) EXCEPT !.val = [about |-> t[2]]]
    ELSE [nodeID(w, t[2]) EXCEPT !.val = [nodeID |-> @]]

literalAttrs(l) ==
    CASE ~IsIRI(l[3]) /\ l[3][3] # "" -> [lang |-> l[3][2], dir |-> l[3][3]]
      [] ~IsIRI(l[3]) /\ l[3][3] = "" -> [lang |-> l[3][2]]
      [] OTHER -> IF l[3] = XSD("string") THEN <<>> ELSE [datatype |-> l[3][2]]

\* The property element of one triple in w.val. The names RDF/XML gives a
\* meaning, and rdf:li, cannot be written.
RECURSIVE writeProperty(_, _, _)
checkObject(w, o) ==
    CASE IsIRI(o) -> checkXMLChars(w, o[2])
      [] IsLiteral(o) -> IF IsIRI(o[3]) THEN checkXMLChars(w, o[3][2]) ELSE w
      [] OTHER -> w

\* The triple of a triple term, as a node element of one property.
tripleElem(a, tt) ==
    [writeProperty(a, tt[3], tt[4]) EXCEPT
        !.val = Elem(<<"rdf", <<"Description">>>>, a.val, "", <<@>>)]

propertyElem(w, name, o) ==
    CASE IsIRI(o) -> [w EXCEPT !.val = Elem(name, [resource |-> o[2]], "", <<>>)]
      [] IsBNode(o) -> [nodeID(w, o[2]) EXCEPT !.val = Elem(name, [nodeID |-> @], "", <<>>)]
      [] IsLiteral(o) -> [w EXCEPT !.val = Elem(name, literalAttrs(o), o[2], <<>>),
                                   !.rdf12 = @ \/ (~IsIRI(o[3]) /\ o[3][3] # "")]
      [] IsTripleTerm(o) -> [tripleElem(nodeAttr([w EXCEPT !.rdf12 = TRUE], o[2]), o) EXCEPT
                                !.val = Elem(name, [parseType |-> "Triple"], "", <<@>>)]

named(q, pred, o) ==
    IF q.err \/ pred[2] \in forbiddenPropertyElementNames \cup RDFNames({"li"}) \/ q.val = <<>>
    THEN Refuse(q)
    ELSE propertyElem(checkObject(q, o), q.val[1], o)

writeProperty(w, pred, o) == named(qname(w, pred[2]), pred, o)

\* The first of its types that may and can name an element does; the triple that
\* says so is not written again. rdf:Description is not among the forbidden names.
takeType(v, t) ==
    LET q == qname(v, t[3][2])
    IN IF /\ v.tag = <<"rdf", <<"Description">>>> /\ t[2] = Type /\ IsIRI(t[3])
          /\ t[3][2] \notin forbiddenNodeElementNames /\ q.val # <<>>
       THEN [q EXCEPT !.tag = q.val[1]]
       ELSE [v EXCEPT !.rest = Append(@, t)]

addKid(w) == [w EXCEPT !.kids = Append(@, w.val)]
addProperty(w, t) == IF w.err THEN w ELSE addKid(writeProperty(w, t[2], t[3]))
closeElem(w, at) == [w EXCEPT !.body = Append(@, Elem(w.tag, at, "", w.kids))]
openElem(w) == closeElem(FoldLeft(addProperty, [w EXCEPT !.kids = <<>>], w.rest), w.val)

writeSubject(w, triples) ==
    openElem(nodeAttr(FoldLeft(takeType, [w EXCEPT !.tag = <<"rdf", <<"Description">>>>,
                                                   !.rest = <<>>], triples),
                      triples[1][1]))

RECURSIVE usesDirection(_)
usesDirection(t) == CASE IsLiteral(t) -> ~IsIRI(t[3]) /\ t[3][3] # ""
                      [] IsTripleTerm(t) -> usesDirection(t[4])
                      [] OTHER -> FALSE

collectLabels(g) == {b[2] : b \in BNodesOf(g)}

\* The whole document, or nothing.
finish(w, base) ==
    LET at == (IF base = <<>> THEN <<>> ELSE [base |-> base])
                @@ (IF w.rdf12 THEN [version |-> "1.2"] ELSE <<>>)
    IN IF w.err \/ ~\A u \in DOMAIN w.prefixOf \cup {base} : ~checkXMLChars(w, u).err
       THEN [err |-> TRUE, out |-> <<>>]
       ELSE [err |-> FALSE,
             out |-> [decl |-> w.prefixOf,
                      root |-> Elem(<<"rdf", <<"RDF">>>>, at, "", w.body)]]

Serialize(g, ns, base) ==
    LET dirs == \E t \in g : usesDirection(t[3])
        reserved == (<<"rdf">> :> "rdf") @@ (IF dirs THEN <<"its">> :> "its" ELSE <<>>)
        start == [prefixOf |-> newNSTable(ns, reserved), next |-> 1, labels |-> collectLabels(g),
                  relabeled |-> <<>>, nextLabel |-> 1, rdf12 |-> FALSE, err |-> FALSE,
                  body |-> <<>>, kids |-> <<>>, val |-> <<>>, tag |-> <<>>, rest |-> <<>>]
        of(s) == Listing({t \in g : t[1] = s})
    IN finish(FoldLeft(LAMBDA v, s : IF v.err THEN v ELSE writeSubject(v, of(s)),
                       start, Listing(Subjects(g))),
              base)

\* The XML decoder: each name with the namespace its prefix is declared for.
RECURSIVE Expand(_, _)
Expand(decl, el) ==
    LET n == CHOOSE u \in DOMAIN decl : decl[u] = el.tag[1]
    IN [el EXCEPT !.tag = n \o el.tag[2],
                  !.kids = [i \in DOMAIN el.kids |-> Expand(decl, el.kids[i])]]
=============================================================================
