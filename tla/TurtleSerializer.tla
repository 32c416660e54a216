-------------------------- MODULE TurtleSerializer --------------------------
(***************************************************************************)
(* The Turtle serializer (turtle/serializer.go, serializer_lists.go): how  *)
(* it decides which blank nodes are written as [ ... ], as ( ... ), as []  *)
(* or by label, and in which order. It writes the tokens TurtleParser      *)
(* reads. Indentation and line breaks are left out, so that the plain and  *)
(* the pretty layout are one; both take the same decisions.                *)
(*                                                                         *)
(* c is what is fixed while a graph is written: its triples g, the         *)
(* statements all of whose objects count as references (g itself, or the   *)
(* quads of a dataset), the pinned nodes, the list cells, the declared     *)
(* prefixes ns and the base. w is the writer: what has been serialized,    *)
(* the queue of deferred nodes, and the tokens written.                    *)
(***************************************************************************)
EXTENDS RDFTerms

CONSTANTS MaxNestDepth,   \* WithMaxNestDepth
          BadPrefixes,    \* prefixes that are no PN_PREFIX
          BadLocals,      \* pieces that cannot stand in a local name
          BadPieces,      \* pieces no IRIREF can hold
          DefersAll       \* every node written by label is deferred (Turtle), or
                          \* only one met at the nesting limit (TriG)

refs(c, k) == Cardinality({t \in c.all : t[3] = k})

\* Mutant: only the node that is the subject of a triple term keeps its label.
pinTripleTermSubjects(g) == {t[3][2] : t \in {u \in g : IsTripleTerm(u[3])}} \cap BNodesOf(g)

\* A blank node inside a triple term keeps its label everywhere.
pinTripleTermBNodes(g) == UNION {TermBNodes(t[3]) : t \in {u \in g : IsTripleTerm(u[3])}}

\* The shape of a list node, without a look at the rest of the chain.
isListCellShape(c, k) ==
    /\ IsBNode(k) /\ refs(c, k) = 1 /\ k \notin c.pinned
    /\ Predicates(c.g, k) = {First, Rest}
    /\ \A p \in {First, Rest} : Cardinality(Objects(c.g, k, p)) = 1

NextCell(c, k) == The(Objects(c.g, k, Rest))

RECURSIVE EndsInNil(_, _, _)
EndsInNil(c, k, seen) ==
    \/ k = Nil
    \/ k \notin seen /\ isListCellShape(c, k) /\ EndsInNil(c, NextCell(c, k), seen \cup {k})

detectLists(c) == {k \in Subjects(c.g) : isListCellShape(c, k) /\ EndsInNil(c, k, {})}
-----------------------------------------------------------------------------
RECURSIVE TermIRIs(_)
TermIRIs(t) == CASE IsIRI(t) -> {t[2]}
                 [] IsTripleTerm(t) -> UNION {TermIRIs(t[i]) : i \in 2..4}
                 [] OTHER -> {}

IRIsOf(g) == UNION {UNION {TermIRIs(t[i]) : i \in 1..3} : t \in g}

Datatypes(g) == {t[3][3][2] : t \in {u \in g : IsLiteral(u[3]) /\ IsIRI(u[3][3])}}

\* The prefixes that shorten an IRI of the graph, and only those, are declared.
trackNS(g, ns) ==
    LET used == {p \in DOMAIN ns \ BadPrefixes :
                    \E u \in IRIsOf(g) : IsStrictPrefix(ns[p], u)}
    IN [p \in used |-> ns[p]]

\* An IRI no IRIREF can hold is an error, before anything is written; the datatype
\* of a literal inside a triple term is not looked at.
checkIRI(pieces) == Range(pieces) \cap BadPieces = {}
Writable(g, ns, base) ==
    \A u \in IRIsOf(g) \cup Datatypes(g) \cup Range(trackNS(g, ns)) \cup {base} : checkIRI(u)

isValidLocalName(l) == l # <<>> /\ Range(l) \cap BadLocals = {}

\* An IRI relative to the base, when the base is set and shares all but its end.
iriRef(c, u) ==
    <<"iriref", IF c.base = <<>> \/ ~IsStrictPrefix(Front(c.base), u) THEN u
                ELSE IF u = c.base THEN <<>>
                ELSE SubSeq(u, Len(c.base), Len(u))>>

\* The longest declared namespace names the IRI, if what is left is a local name.
computeQName(c, u) ==
    LET fits == {p \in DOMAIN c.ns : IsStrictPrefix(c.ns[p], u)}
        best == CHOOSE p \in fits : \A q \in fits : Len(c.ns[q]) <= Len(c.ns[p])
        local == SubSeq(u, Len(c.ns[best]) + 1, Len(u))
    IN IF fits # {} /\ isValidLocalName(local) THEN <<"pname", best, local>> ELSE iriRef(c, u)

label(c, t) == IF IsIRI(t) THEN computeQName(c, t[2]) ELSE <<"label", t[2]>>
predLabel(c, p) == IF p = Type THEN <<"a">> ELSE label(c, p)

Shorthand == {XSD("integer"), XSD("decimal"), XSD("boolean")}
literalStr(c, l) ==
    CASE ~IsIRI(l[3]) -> <<<<"string", l[2]>>, <<"@lang", l[3][2], l[3][3]>>>>
      [] l[3] \in Shorthand -> <<<<"numeric", l[2], l[3]>>>>
      [] l[3] = XSD("string") -> <<<<"string", l[2]>>>>
      [] OTHER -> <<<<"string", l[2]>>, <<"^^">>, computeQName(c, l[3][2])>>

\* A blank node in a triple term is written as its label.
RECURSIVE tripleTermStr(_, _)
tripleTermStr(c, tt) ==
    LET o == CASE IsTripleTerm(tt[4]) -> tripleTermStr(c, tt[4])
               [] IsLiteral(tt[4]) -> literalStr(c, tt[4])
               [] OTHER -> <<label(c, tt[4])>>
    IN <<<<"<<(">>, label(c, tt[2]), label(c, tt[3])>> \o o \o <<<<")>>">>>>
-----------------------------------------------------------------------------
Put(w, toks) == [w EXCEPT !.out = @ \o toks]
Mark(w, ks) == [w EXCEPT !.ser = @ \cup ks]

\* Classes first, then the other IRIs, then blank nodes by number of references.
orderSubjects(c) ==
    LET free == Subjects(c.g) \ c.cells
        top == {s \in free : <<s, Type, RDFS("Class")>> \in c.g}
        bnodes == {s \in free \ top : IsBNode(s)}
    IN Listing(top) \o Listing((free \ top) \ bnodes)
         \o SortSeq(Listing(bnodes), LAMBDA a, b : refs(c, a) < refs(c, b))

\* rdf:type, then rdfs:label, then the rest.
sortPredicates(c, k) ==
    LET ps == Predicates(c.g, k)
        lead == SelectSeq(<<Type, RDFS("label")>>, LAMBDA p : p \in ps)
    IN lead \o Listing(ps \ {Type, RDFS("label")})

\* The nodes of a list that starts at k, and their items.
RECURSIVE Cells(_, _)
Cells(c, k) == IF k = Nil THEN <<>> ELSE <<k>> \o Cells(c, NextCell(c, k))

listItems(c, k) ==
    LET cells == Cells(c, k) IN [i \in DOMAIN cells |-> The(Objects(c.g, cells[i], First))]

canWriteList(c, w, k) == Range(Cells(c, k)) \cap w.ser = {}

objectForm(c, w, t, depth) ==
    CASE ~IsBNode(t) \/ t \in w.ser \/ depth >= MaxNestDepth -> "scalar"
      [] t \in c.cells /\ canWriteList(c, w, t) -> "list"
      [] refs(c, t) <= 1 /\ t \notin c.pinned /\ t \in Subjects(c.g) -> "bnode"
      [] OTHER -> "scalar"

\* A node written by label gets a statement of its own later on.
deferNode(c, w, k) ==
    IF k \in w.ser \cup w.queued \/ k \notin Subjects(c.g) THEN w
    ELSE [w EXCEPT !.queued = @ \cup {k}, !.queue = Append(@, k)]

RECURSIVE writeObject(_, _, _, _)
RECURSIVE writeObjects(_, _, _, _, _)
RECURSIVE writePredicates(_, _, _, _, _)

Between(w, more, sep) == IF more THEN Put(w, sep) ELSE w

\* The objects os, with sep between them; one predicate's, or a list's.
writeObjects(c, w, os, sep, depth) ==
    IF os = <<>> THEN w
    ELSE writeObjects(c, Between(writeObject(c, w, Head(os), depth), Len(os) > 1, sep),
                      Tail(os), sep, depth)

writePredicates(c, w, k, ps, depth) ==
    IF ps = <<>> THEN w
    ELSE writePredicates(c, Between(writeObjects(c, Put(w, <<predLabel(c, Head(ps))>>),
                                                 Listing(Objects(c.g, k, Head(ps))),
                                                 <<<<",">>>>, depth),
                                    Len(ps) > 1, <<<<";">>>>),
                         k, Tail(ps), depth)

\* Every node of a list is marked before its first item is written.
listStr(c, w, k, depth) ==
    Put(writeObjects(c, Put(Mark(w, Range(Cells(c, k))), <<<<"(">>>>),
                     listItems(c, k), <<>>, depth + 1), <<<<")">>>>)

inlineBNode(c, w, k, depth) ==
    Put(writePredicates(c, Put(Mark(w, {k}), <<<<"[">>>>), k, sortPredicates(c, k), depth + 1),
        <<<<"]">>>>)

writeObject(c, w, t, depth) ==
    CASE IsTripleTerm(t) -> Put(w, tripleTermStr(c, t))
      [] IsLiteral(t) -> Put(w, literalStr(c, t))
      [] IsIRI(t) -> Put(w, <<label(c, t)>>)
      [] objectForm(c, w, t, depth) = "list" -> listStr(c, w, t, depth)
      [] objectForm(c, w, t, depth) = "bnode" -> inlineBNode(c, w, t, depth)
      [] OTHER -> Put(IF DefersAll \/ depth >= MaxNestDepth THEN deferNode(c, w, t) ELSE w,
                      <<label(c, t)>>)

\* A blank node nothing refers to needs no label.
writeSubject(c, w, s) ==
    LET head == IF IsBNode(s) /\ refs(c, s) = 0 /\ s \notin c.pinned
                THEN <<<<"[">>, <<"]">>>> ELSE <<label(c, s)>>
    IN Put(writePredicates(c, Put(Mark(w, {s}), head), s, sortPredicates(c, s), 0),
           <<<<".">>>>)

writeOne(c, w, s) == IF s \in w.ser THEN w ELSE writeSubject(c, w, s)

\* The queue grows while it is drained.
RECURSIVE drainDeferred(_, _)
drainDeferred(c, w) ==
    IF w.queue = <<>> THEN w
    ELSE drainDeferred(c, writeOne(c, [w EXCEPT !.queue = Tail(@)], Head(w.queue)))

\* The subjects ss that are still unwritten when their turn comes.
Unwritten(w, ss) == SelectSeq(ss, LAMBDA s : s \notin w.ser)

RECURSIVE WriteAll(_, _, _)
WriteAll(c, w, ss) ==
    LET todo == Unwritten(w, ss)
    IN IF todo = <<>> THEN w ELSE WriteAll(c, writeSubject(c, w, Head(todo)), Tail(todo))

RECURSIVE WriteRest(_, _, _)
WriteRest(c, w, ss) ==
    LET todo == Unwritten(w, ss)
    IN IF todo = <<>> THEN w
       ELSE WriteRest(c, drainDeferred(c, writeSubject(c, w, Head(todo))), Tail(todo))

\* The declarations a document starts with.
Header(ns, base) ==
    (IF base = <<>> THEN <<>> ELSE <<<<"@base">>, <<"iriref", base>>, <<".">>>>)
      \o FlattenSeq([i \in DOMAIN Listing(DOMAIN ns) |->
             LET p == Listing(DOMAIN ns)[i]
             IN <<<<"@prefix">>, <<"pname", p, <<>>>>, <<"iriref", ns[p]>>, <<".">>>>])

NewWriter(toks) == [ser |-> {}, queue |-> <<>>, queued |-> {}, out |-> toks]

\* The subjects in order, the deferred nodes, and then what is still unwritten:
\* a list that is reachable only from inside itself.
writeLeft(c, w) == WriteRest(c, w, Listing(Subjects(c.g) \ w.ser))
write(c) == writeLeft(c, drainDeferred(c, WriteAll(c, NewWriter(Header(c.ns, c.base)),
                                                   orderSubjects(c))))

preprocess(g, ns, base) ==
    LET c == [g |-> g, all |-> g, pinned |-> pinTripleTermBNodes(g), cells |-> {},
              ns |-> trackNS(g, ns), base |-> base]
    IN [c EXCEPT !.cells = detectLists(c)]

Serialize(g, ns, base) ==
    IF Writable(g, ns, base) THEN [err |-> FALSE, out |-> write(preprocess(g, ns, base)).out]
    ELSE [err |-> TRUE, out |-> <<>>]
=============================================================================
