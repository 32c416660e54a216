-------------------------- MODULE ShaclConstraints --------------------------
(***************************************************************************)
(* The graph package shacl validates over (rdf.go) and the SHACL property   *)
(* paths (paths.go).  A term is <<"iri", name>>, <<"bnode", label>> or       *)
(* <<"lit", v, datatype, language>>.  The lexical form of a literal is       *)
(* abstracted to an integer v: of a string it is the form's length, every    *)
(* character being the same; of a number or a date it is the value, forms    *)
(* from Zoned up carrying a timezone and Garbled being outside every lexical *)
(* space.  A boolean is 1 for "true" and 0 for "false".                      *)
(***************************************************************************)
EXTENDS Integers, FiniteSets, Sequences

CONSTANT Alphabet   \* the names of IRIs, in the order of their strings

Zoned == 50

Garbled == 99

IRI(x) == <<"iri", x>>

BNode(x) == <<"bnode", x>>

Lit(v, dt) == <<"lit", v, dt, "">>

Tagged(v, lang) == <<"lit", v, "langString", lang>>

True == Lit(1, "boolean")

None == <<"none">>

rdftype == IRI("rdf:type")

Nil == IRI("rdf:nil")

\* A triple term has no Term of this package.
fromRDFLib(t) == IF t[1] = "tt" THEN None ELSE t

\* The indexes of a graph: the triples, and who reifies which triple term.
Indexes(triples) ==
  [t |-> {<<x[1], x[2], fromRDFLib(x[3])>> : x \in triples},
   r |-> {<<x[1], x[3]>> : x \in {y \in triples : y[2] = IRI("rdf:reifies") /\ y[3][1] = "tt"}}]

Objects(g, s, p) == {x[3] : x \in {y \in g.t : y[1] = s /\ y[2] = p}}

Subjects(g, p, o) == {x[1] : x \in {y \in g.t : y[2] = p /\ y[3] = o}}

\* All(nil, p, nil).
With(g, p) == {x \in g.t : x[2] = p}

\* All(s, nil, nil).
About(g, s) == {x \in g.t : x[1] = s}

Has(g, s, p, o) == <<s, p, o>> \in g.t

allNodes(g) == {x[1] : x \in g.t} \union {x[3] : x \in g.t}

\* The first of the objects: which one it is does not matter where the model
\* uses it, or there is only one.
One(S) == CHOOSE x \in S : TRUE

Elements(s) == {s[i] : i \in DOMAIN s}

RECURSIVE Cells(_, _, _)
Cells(g, cell, visited) ==
  LET firsts == Objects(g, cell, IRI("rdf:first"))
      rests == Objects(g, cell, IRI("rdf:rest"))
  IN IF cell = Nil \/ cell \in visited \/ firsts = {} THEN <<>>
     ELSE <<One(firsts)>> \o IF rests = {} THEN <<>> ELSE Cells(g, One(rests), visited \union {cell})

RDFList(g, head) == Cells(g, head, {})

RECURSIVE EndsWell(_, _, _)
EndsWell(g, cell, visited) ==
  \/ cell = Nil
  \/ /\ cell \notin visited
     /\ Objects(g, cell, IRI("rdf:first")) # {}
     /\ \E rest \in Objects(g, cell, IRI("rdf:rest")) : EndsWell(g, rest, visited \union {cell})

isWellFormedList(g, node) == EndsWell(g, node, {})

\* The classes reached along rdfs:subClassOf, the given ones included.
RECURSIVE superClasses(_, _)
superClasses(g, classes) ==
  LET next == classes \union UNION {Objects(g, c, IRI("rdfs:subClassOf")) : c \in classes}
  IN IF next = classes THEN classes ELSE superClasses(g, next)

RECURSIVE subClasses(_, _)
subClasses(g, classes) ==
  LET next == classes \union UNION {Subjects(g, IRI("rdfs:subClassOf"), c) : c \in classes}
  IN IF next = classes THEN classes ELSE subClasses(g, next)

IsSubClassOf(g, sub, super) == super \in superClasses(g, {sub})

HasType(g, node, class) == \E t \in Objects(g, node, rdftype) : IsSubClassOf(g, t, class)

instancesOf(g, class) == Subjects(g, rdftype, class)

-----------------------------------------------------------------------------
(* Property paths: <<kind, part, node>>, node the RDF node that defined it.  *)

NoPath == <<"nil", None, None>>

RECURSIVE parsePath(_, _)
parsePath(g, node) ==
  LET parts(items) == [i \in DOMAIN items |-> parsePath(g, items[i])]
      of(p) == Objects(g, node, IRI(p))
      unary(kind, p) == <<kind, parsePath(g, One(of(p))), node>>
  IN CASE node[1] = "iri"                    -> <<"predicate", node, node>>
       [] of("rdf:first") # {}               -> <<"sequence", parts(RDFList(g, node)), node>>
       [] of("sh:inversePath") # {}          -> unary("inverse", "sh:inversePath")
       [] of("sh:alternativePath") # {}      ->
            <<"alternative", parts(RDFList(g, One(of("sh:alternativePath")))), node>>
       [] of("sh:zeroOrMorePath") # {}       -> unary("zeroOrMore", "sh:zeroOrMorePath")
       [] of("sh:oneOrMorePath") # {}        -> unary("oneOrMore", "sh:oneOrMorePath")
       [] of("sh:zeroOrOnePath") # {}        -> unary("zeroOrOne", "sh:zeroOrOnePath")
       [] OTHER                              -> <<"predicate", node, node>>

pathToTerm(path) == IF path[1] = "nil" THEN None ELSE path[3]

RECURSIVE evalPath(_, _, _), evalSequencePath(_, _, _), transitiveClose(_, _, _, _)

\* The nodes of the graph from which sub leads to focus.
evalInversePath(g, sub, focus) ==
  IF sub[1] = "predicate" THEN Subjects(g, sub[2], focus)
  ELSE {n \in allNodes(g) : focus \in evalPath(g, sub, n)}

evalAlternativePath(g, elements, focus) == UNION {evalPath(g, e, focus) : e \in Elements(elements)}

evalZeroOrOnePath(g, sub, focus) == {focus} \union evalPath(g, sub, focus)

evalPath(g, path, focus) ==
  CASE path[1] = "predicate"   -> Objects(g, focus, path[2])
    [] path[1] = "inverse"     -> evalInversePath(g, path[2], focus)
    [] path[1] = "sequence"    -> evalSequencePath(g, path[2], {focus})
    [] path[1] = "alternative" -> evalAlternativePath(g, path[2], focus)
    [] path[1] = "zeroOrMore"  -> transitiveClose(g, path[2], {focus}, {focus})
    [] path[1] = "oneOrMore"   ->
         LET first == evalPath(g, path[2], focus) \ {focus}
         IN transitiveClose(g, path[2], first, {focus} \union first) \ {focus}
    [] path[1] = "zeroOrOne"   -> evalZeroOrOnePath(g, path[2], focus)
    [] OTHER                   -> {}

evalSequencePath(g, elements, current) ==
  IF elements = <<>> THEN current
  ELSE evalSequencePath(g, Tail(elements), UNION {evalPath(g, Head(elements), n) : n \in current})

\* The breadth-first search: what the queue still holds, and what was visited;
\* oneOrMore marks the focus node as visited without taking it.
transitiveClose(g, sub, queue, visited) ==
  LET next == UNION {evalPath(g, sub, n) : n \in queue} \ visited
  IN IF next = {} THEN visited ELSE transitiveClose(g, sub, next, visited \union next)
-----------------------------------------------------------------------------
(***************************************************************************)
(* Parsing the shapes graph (shapes.go, constraint_parser.go).  A shape is a *)
(* record; a constraint is <<kind, arguments...>>, the kinds being the       *)
(* constraint predicates; the list forms of sh:class, sh:datatype and        *)
(* sh:nodeKind and their single forms are one kind with a sequence.  The     *)
(* text of a query is abstracted to the predicate p it asks about            *)
(* (SELECT ?value WHERE { $this <p> ?value }), a literal being a text that    *)
(* does not parse; a pattern is the number of characters it needs.           *)
(***************************************************************************)
SH(x) == IRI(x)

Of(g, id, p) == Objects(g, id, IRI(p))

isTrue(v) == v = True

parseInt(v) == IF v[2] = Garbled THEN 0 ELSE v[2]

\* A value is a list of alternatives, or stands for itself.
Alternatives(g, v) == IF Of(g, v, "rdf:first") # {} THEN RDFList(g, v) ELSE <<v>>

\* The one value of an option, or its default.
Option(S, default) == IF S = {} THEN default ELSE One(S)

-----------------------------------------------------------------------------
(* Which nodes are shapes.                                                   *)

Lists(g, preds) == UNION {Elements(RDFList(g, x[3])) : x \in UNION {With(g, IRI(p)) : p \in preds}}

ObjectsOf(g, preds) == {x[3] : x \in UNION {With(g, IRI(p)) : p \in preds}}

SubjectsOf(g, preds) == {x[1] : x \in UNION {With(g, IRI(p)) : p \in preds}}

targetPredicates == {"sh:targetNode", "sh:targetClass", "sh:targetSubjectsOf", "sh:targetObjectsOf", "sh:targetWhere"}

shapePredicates == {"sh:not", "sh:node", "sh:qualifiedValueShape", "sh:someValue", "sh:memberShape",
                    "sh:reifierShape", "sh:nodeByExpression", "sh:targetWhere", "sh:property"}

discover(g) ==
  UNION {Subjects(g, rdftype, IRI(c)) : c \in {"sh:NodeShape", "sh:PropertyShape", "sh:ShapeClass"}}
  \union SubjectsOf(g, targetPredicates \union {"sh:path"})
  \union Lists(g, {"sh:and", "sh:or", "sh:xone"})
  \union ObjectsOf(g, shapePredicates)

\* What the passes of discovery leave in IsProperty, in their order: a later
\* pass overrides an earlier one.
discoveredProperty(g, id) ==
  /\ id \notin ObjectsOf(g, {"sh:targetWhere"})
  /\ \/ id \in ObjectsOf(g, {"sh:property"}) \union SubjectsOf(g, {"sh:path"})
     \/ /\ Has(g, id, rdftype, IRI("sh:PropertyShape"))
        /\ ~Has(g, id, rdftype, IRI("sh:ShapeClass"))

Targets(g, id) ==
  LET all(kind, p) == {<<kind, v>> : v \in Of(g, id, p)}
      queries(v) == Of(g, v, "sh:select")
      implicit == \/ HasType(g, id, IRI("rdfs:Class"))
                  \/ Has(g, id, rdftype, IRI("sh:ShapeClass"))
  IN {IF queries(v) # {} THEN <<"sparql", One(queries(v))>> ELSE <<"node", v>> : v \in Of(g, id, "sh:targetNode")}
     \union all("class", "sh:targetClass")
     \union all("subjectsOf", "sh:targetSubjectsOf")
     \union all("objectsOf", "sh:targetObjectsOf")
     \union all("where", "sh:targetWhere")
     \union IF implicit /\ ~discoveredProperty(g, id) THEN {<<"class", id>>} ELSE {}

parseShapeBasic(g, id) ==
  LET paths == Of(g, id, "sh:path")
      closed == Option(Of(g, id, "sh:closed"), None)
  IN [id          |-> id,
      isProperty  |-> discoveredProperty(g, id) \/ paths # {} \/ id \in ObjectsOf(g, {"sh:property"}),
      path        |-> IF paths = {} THEN NoPath ELSE parsePath(g, One(paths)),
      values      |-> Option(UNION {Of(g, v, "sh:select") : v \in Of(g, id, "sh:values")}, None),
      targets     |-> Targets(g, id),
      severity    |-> Option(Of(g, id, "sh:severity"), SH("sh:Violation")),
      deactivated |-> Option(Of(g, id, "sh:deactivated"), None) = True,
      properties  |-> Of(g, id, "sh:property"),
      closed      |-> CASE isTrue(closed) -> "closed" [] closed = SH("sh:ByTypes") -> "closedByTypes" [] OTHER -> "open",
      ignored     |-> IF Of(g, id, "sh:ignoredProperties") = {} THEN {}
                      ELSE Elements(RDFList(g, One(Of(g, id, "sh:ignoredProperties")))),
      constraints |-> {}]

-----------------------------------------------------------------------------
(* The constraints of a shape.                                               *)

\* sh:qualifiedValueShape with its counts (-1: no maximum) and, when disjoint,
\* the qualified shapes of the property shapes beside this one.
Qualified(g, id) ==
  LET disjoint == isTrue(Option(Of(g, id, "sh:qualifiedValueShapesDisjoint"), None))
      beside == UNION {Of(g, parent, "sh:property") : parent \in Subjects(g, IRI("sh:property"), id)} \ {id}
      siblings == IF disjoint THEN UNION {Of(g, x, "sh:qualifiedValueShape") : x \in beside} ELSE {}
      count(p, default) == parseInt(Option(Of(g, id, p), Lit(default, "integer")))
  IN {<<"sh:qualifiedValueShape", q, count("sh:qualifiedMinCount", 0), count("sh:qualifiedMaxCount", -1), siblings>> :
        q \in Of(g, id, "sh:qualifiedValueShape")}

\* A pattern that does not compile makes no constraint.
NewPatternConstraint(v) == IF v[2] = Garbled THEN {} ELSE {<<"sh:pattern", v[2]>>}

\* The properties a closed shape allows: the simple paths of its sh:property.
collectClosedAllowed(shapes, s) ==
  {shapes[p].path[2] : p \in {q \in s.properties : shapes[q].path[1] = "predicate"}}

SPARQLConstraints(g, id) ==
  {<<"sh:sparql", One(Of(g, v, "sh:select"))>> :
     v \in {x \in Of(g, id, "sh:sparql") : /\ Of(g, x, "sh:select") # {}
                                            /\ Option(Of(g, x, "sh:deactivated"), None) # True}}

parseConstraints(g, shapes, s) ==
  LET id == s.id
      each(k) == Of(g, id, k)
      terms(kinds) == UNION {{<<k, v>> : v \in each(k)} : k \in kinds}
      counts(kinds) == UNION {{<<k, parseInt(v)>> : v \in each(k)} : k \in kinds}
      alternatives(kinds) == UNION {{<<k, Alternatives(g, v)>> : v \in each(k)} : k \in kinds}
      lists(kinds) == UNION {{<<k, RDFList(g, v)>> : v \in each(k)} : k \in kinds}
      paths(kinds) == UNION {{<<k, parsePath(g, v)>> : v \in each(k)} : k \in kinds}
      flags(kinds) == {<<k, TRUE>> : k \in {j \in kinds : True \in each(j)}}
  IN alternatives({"sh:class", "sh:datatype", "sh:nodeKind"})
     \union counts({"sh:minCount", "sh:maxCount", "sh:minLength", "sh:maxLength", "sh:minListLength", "sh:maxListLength"})
     \union terms({"sh:minExclusive", "sh:minInclusive", "sh:maxExclusive", "sh:maxInclusive", "sh:hasValue",
                   "sh:not", "sh:node", "sh:someValue", "sh:memberShape", "sh:nodeByExpression"})
     \union UNION {NewPatternConstraint(v) : v \in each("sh:pattern")}
     \union lists({"sh:languageIn", "sh:in", "sh:and", "sh:or", "sh:xone"})
     \union flags({"sh:uniqueLang", "sh:uniqueMembers"})
     \union paths({"sh:equals", "sh:disjoint", "sh:lessThan", "sh:lessThanOrEquals", "sh:subsetOf"})
     \union Qualified(g, id)
     \union {<<"sh:reifierShape", v, isTrue(Option(each("sh:reificationRequired"), None))>> : v \in each("sh:reifierShape")}
     \union SPARQLConstraints(g, id)
     \union CASE s.closed = "closed"        -> {<<"sh:closed", collectClosedAllowed(shapes, s) \union s.ignored>>}
              [] s.closed = "closedByTypes" -> {<<"closedByTypes", s.ignored>>}
              [] OTHER                      -> {}

\* sparql_component.go: a component applies to a shape that has its required
\* parameters; the validator depends on the kind of the shape.  The query is
\* about the first parameter's value.
buildComponentConstraints(g, s) ==
  LET parameters(k) == Of(g, k, "sh:parameter")
      path(p) == One(Of(g, p, "sh:path"))
      given(k) == {p \in parameters(k) : Objects(g, s.id, path(p)) # {}}
      required(k) == {p \in parameters(k) : ~isTrue(Option(Of(g, p, "sh:optional"), None))}
      special(k) == Of(g, k, IF s.isProperty THEN "sh:propertyValidator" ELSE "sh:nodeValidator")
      validators(k) == IF special(k) # {} THEN special(k) ELSE Of(g, k, "sh:validator")
      constraint(k) == LET v == One(validators(k))
                           value == One(Objects(g, s.id, path(One(given(k)))))
                       IN IF Of(g, v, "sh:ask") # {} THEN <<"ask", k, One(Of(g, v, "sh:ask")), value>>
                          ELSE <<"select", k, One(Of(g, v, "sh:select")), value>>
      classes == {IRI("sh:ConstraintComponent")} \union Subjects(g, IRI("rdfs:subClassOf"), IRI("sh:ConstraintComponent"))
  IN {constraint(k) : k \in {x \in UNION {Subjects(g, rdftype, c) : c \in classes} :
                               required(x) \subseteq given(x) /\ given(x) # {} /\ validators(x) # {}}}

-----------------------------------------------------------------------------
(* Annotations on the triples of a shape: reifiers that carry a severity or   *)
(* a deactivation.                                                           *)

findAnnotations(g, id) ==
  {[predicate |-> x[2][3], object |-> x[2][4], severity |-> Option(Of(g, x[1], "sh:severity"), None),
    deactivated |-> Option(Of(g, x[1], "sh:deactivated"), None) = True] :
     x \in {y \in g.r : y[2][2] = id /\ Of(g, y[1], "sh:severity") \union Of(g, y[1], "sh:deactivated") # {}}}

annotatable == {"sh:datatype", "sh:class", "sh:nodeKind", "sh:minCount", "sh:maxCount", "sh:pattern", "sh:hasValue", "sh:in"}

\* By the predicate alone: every constraint of that predicate is affected.
matchConstraintAnnotation(c, annotations) ==
  {a \in annotations : c[1] \in annotatable /\ a.predicate = IRI(c[1])}

applyConstraintAnnotations(g, id, constraints) ==
  LET annotations == findAnnotations(g, id)
      matches(c) == matchConstraintAnnotation(c, annotations)
      apply(c) == IF matches(c) = {} THEN {c}
                  ELSE LET a == One(matches(c))
                       IN IF a.deactivated THEN {}
                          ELSE IF a.severity = None THEN {c} ELSE {<<"severityOverride", c, a.severity>>}
  IN UNION {apply(c) : c \in constraints}

\* An annotated sh:property reference changes the referenced shape itself.
applyPropertyAnnotations(g, shapes, id) ==
  LET about == {a \in UNION {findAnnotations(g, s) : s \in {t \in DOMAIN shapes : id \in shapes[t].properties}} :
                  a.predicate = IRI("sh:property") /\ a.object = id}
      severities == {a.severity : a \in about} \ {None}
  IN [shapes[id] EXCEPT !.deactivated = @ \/ \E a \in about : a.deactivated,
                        !.severity = Option(severities, @)]

parseShapes(g) ==
  LET basic == [id \in discover(g) |-> parseShapeBasic(g, id)]
      annotated == [id \in DOMAIN basic |-> applyPropertyAnnotations(g, basic, id)]
  IN [id \in DOMAIN basic |->
        [annotated[id] EXCEPT !.constraints =
           applyConstraintAnnotations(g, id, parseConstraints(g, basic, basic[id])
                                             \union buildComponentConstraints(g, basic[id]))]]

\* A node that is no shape of the graph, read as one where a shape is needed
\* (sh:condition, sh:filterShape); {} when it describes nothing.
parseAdHocShape(g, shapes, id) ==
  LET bare == [parseShapeBasic(g, id) EXCEPT !.isProperty = FALSE, !.path = NoPath, !.values = None, !.targets = {},
                 !.severity = None, !.deactivated = FALSE, !.closed = "open", !.ignored = {}]
      constraints == parseConstraints(g, shapes, bare)
  IN IF constraints = {} /\ bare.properties = {} THEN {} ELSE {[bare EXCEPT !.constraints = constraints]}

resolveShape(g, shapes, id) == IF id \in DOMAIN shapes THEN {shapes[id]} ELSE parseAdHocShape(g, shapes, id)

-----------------------------------------------------------------------------
(* shape_wellformed.go: a property shape has one path, and it is no literal.  *)

illFormedShapes(g, shapes) ==
  {id \in DOMAIN shapes : /\ shapes[id].isProperty
                          /\ ~\E p \in Of(g, id, "sh:path") : Of(g, id, "sh:path") = {p} /\ p[1] # "lit"}
-----------------------------------------------------------------------------
(***************************************************************************)
(* What validation computes for one shape and one focus node: Evaluate of    *)
(* every constraint component, validateShapeOnNode, and the focus nodes of a *)
(* shape.  cx is the evalContext: the data graph, the shapes graph and the   *)
(* shapes.  busy is the set of the recursion guard: the (shape, node) pairs  *)
(* in progress on the current path.  quick is the guard's flag of that name. *)
(* A result is <<focus, path, value, shape, component, severity>>; a report   *)
(* is a set, so that results alike in all of these are one.                  *)
(***************************************************************************)
CONSTANTS
  TextOf,     \* the length of an IRI's text
  Subtags     \* pairs of a language tag and a shorter tag it extends

makeResult(s, focus, value, component) ==
  <<focus, pathToTerm(s.path), value, s.id, component, s.severity>>

\* The placeholder a constraint may return when only emptiness is read.
quickFailure == {<<None, None, None, None, "quick", None>>}

\* The results of the parts evaluated one after the other; in quick mode the
\* first part that fails ends the evaluation.
Collect(parts, quick) ==
  LET failing == parts \ {{}}
  IN IF quick /\ failing # {} THEN One(failing) ELSE UNION parts

-----------------------------------------------------------------------------
(* The tests on one value node.                                              *)

isNumericType(dt) == dt \in {"integer", "decimal"}

isDateType(dt) == dt \in {"date", "dateTime"}

\* xsd_lexical.go, at the grain of the abstraction of lexical forms.
isWellFormedLiteral(v) ==
  /\ v[2] # Garbled
  /\ v[3] = "boolean" => v[2] \in {0, 1}

hasTimezone(v) == v >= Zoned

Position(x) == CHOOSE i \in DOMAIN Alphabet : Alphabet[i] = x

\* The outcomes of a comparison are the sets of relations the two stand in;
\* {} when they are not comparable.
Relations(a, b) == IF a < b THEN {"<", "<="} ELSE IF a = b THEN {"<=", ">="} ELSE {">", ">="}

compareLiterals(a, b) ==
  CASE a[1] # "lit" \/ b[1] # "lit" -> {}
    [] isNumericType(a[3]) /\ isNumericType(b[3]) ->
         IF Garbled \in {a[2], b[2]} THEN {} ELSE Relations(a[2], b[2])
    [] isDateType(a[3]) /\ isDateType(b[3]) ->
         IF Garbled \in {a[2], b[2]} \/ hasTimezone(a[2]) # hasTimezone(b[2]) THEN {} ELSE Relations(a[2], b[2])
    [] a[3] = b[3] -> Relations(a[2], b[2])
    [] OTHER       -> {}

\* IRIs are compared by their text when literals do not apply.
pairRelations(v, o) ==
  IF v[1] = "iri" /\ o[1] = "iri" THEN Relations(Position(v[2]), Position(o[2])) ELSE compareLiterals(v, o)

matchesNodeKind(v, nk) ==
  \/ v[1] = "iri" /\ nk \in {"sh:IRI", "sh:BlankNodeOrIRI", "sh:IRIOrLiteral"}
  \/ v[1] = "bnode" /\ nk \in {"sh:BlankNode", "sh:BlankNodeOrIRI", "sh:BlankNodeOrLiteral"}
  \/ v[1] = "lit" /\ nk \in {"sh:Literal", "sh:BlankNodeOrLiteral", "sh:IRIOrLiteral"}

hasDatatype(v, dts) == v[1] = "lit" /\ isWellFormedLiteral(v) /\ \E d \in dts : IRI(v[3]) = d

textLength(v) == IF v[1] = "lit" THEN v[2] ELSE TextOf

\* A blank node has no string length, whichever side is tested.
stringLen(v) == IF v[1] = "bnode" THEN {} ELSE {textLength(v)}

matchesLanguage(v, tags) ==
  v[1] = "lit" /\ v[4] # "" /\ \E t \in tags : v[4] = t[4] \/ <<v[4], t[4]>> \in Subtags

\* The constraints that look at one value node at a time and call no shape:
\* does v satisfy c?
ValueTypeHolds(cx, c, v) ==
  \E k \in Elements(c[2]) : CASE c[1] = "sh:class"    -> HasType(cx.data, v, k)
                               [] c[1] = "sh:datatype" -> hasDatatype(v, {k})
                               [] c[1] = "sh:nodeKind" -> matchesNodeKind(v, k[2])

compareAll(c, v) ==
  LET rel == [k \in {"sh:minExclusive", "sh:minInclusive", "sh:maxExclusive", "sh:maxInclusive"} |->
                CASE k = "sh:minExclusive" -> ">"  [] k = "sh:minInclusive" -> ">="
                  [] k = "sh:maxExclusive" -> "<"  [] k = "sh:maxInclusive" -> "<="]
  IN rel[c[1]] \in compareLiterals(v, c[2])

StringHolds(c, v) ==
  CASE c[1] = "sh:minLength"  -> \E n \in stringLen(v) : n >= c[2]
    [] c[1] = "sh:maxLength"  -> \E n \in stringLen(v) : n <= c[2]
    [] c[1] = "sh:pattern"    -> textLength(v) >= c[2]
    [] c[1] = "sh:languageIn" -> matchesLanguage(v, Elements(c[2]))

PairHolds(cx, c, focus, v) ==
  LET others == evalPath(cx.data, c[2], focus)
  IN CASE c[1] = "sh:disjoint"         -> v \notin others
       [] c[1] = "sh:subsetOf"         -> v \in others
       [] c[1] = "sh:lessThan"         -> \A o \in others : "<" \in pairRelations(v, o)
       [] c[1] = "sh:lessThanOrEquals" -> \A o \in others : "<=" \in pairRelations(v, o)

uniqueMembers(l) == Cardinality(Elements(l)) = Len(l)

ListHolds(cx, c, v) ==
  /\ isWellFormedList(cx.data, v)
  /\ LET l == RDFList(cx.data, v)
     IN CASE c[1] = "sh:uniqueMembers" -> uniqueMembers(l)
          [] c[1] = "sh:minListLength" -> Len(l) >= c[2]
          [] c[1] = "sh:maxListLength" -> Len(l) <= c[2]

valueTypes == {"sh:class", "sh:datatype", "sh:nodeKind"}

stringBased == {"sh:minLength", "sh:maxLength", "sh:pattern", "sh:languageIn"}

pairBased == {"sh:disjoint", "sh:subsetOf", "sh:lessThan", "sh:lessThanOrEquals"}

listBased == {"sh:uniqueMembers", "sh:minListLength", "sh:maxListLength"}

ranges == {"sh:minExclusive", "sh:minInclusive", "sh:maxExclusive", "sh:maxInclusive"}

Satisfies(cx, c, focus, v) ==
  CASE c[1] \in valueTypes  -> ValueTypeHolds(cx, c, v)
    [] c[1] \in ranges      -> compareAll(c, v)
    [] c[1] \in stringBased -> StringHolds(c, v)
    [] c[1] \in pairBased   -> PairHolds(cx, c, focus, v)
    [] c[1] \in listBased   -> ListHolds(cx, c, v)
    [] c[1] = "sh:in"       -> v \in Elements(c[2])

perValue == valueTypes \union ranges \union stringBased \union pairBased \union listBased \union {"sh:in"}

\* Two values share a language; blank tags do not count.
repeatsLanguage(values) ==
  \E v, w \in {x \in values : x[1] = "lit"} : v # w /\ v[4] = w[4] /\ v[4] # ""

evalPathEquals(values, others) == (values \ others) \union (others \ values)

\* The constraints on all the value nodes together: what their results name.
Together(cx, c, focus, values) ==
  LET once(bad) == IF bad THEN {None} ELSE {}
      others == evalPath(cx.data, c[2], focus)
  IN CASE c[1] = "sh:minCount"   -> once(Cardinality(values) < c[2])
       [] c[1] = "sh:maxCount"   -> once(Cardinality(values) > c[2])
       [] c[1] = "sh:hasValue"   -> once(c[2] \notin values)
       [] c[1] = "sh:uniqueLang" -> once(repeatsLanguage(values))
       [] c[1] = "sh:equals"     -> evalPathEquals(values, others)

together == {"sh:minCount", "sh:maxCount", "sh:hasValue", "sh:uniqueLang", "sh:equals"}

findReifiers(g, s, p, o) == IF s[1] = "lit" THEN {} ELSE {x[1] : x \in {y \in g.r : y[2] = <<"tt", s, p, o>>}}

\* ClosedByTypes: the shapes whose properties count, from s along sh:node.
RECURSIVE collectShapes(_, _, _)
collectShapes(cx, todo, visited) ==
  LET refs(s) == {c[2] : c \in {d \in cx.shapes[s].constraints : d[1] = "sh:node"}}
      next == (UNION {refs(s) : s \in todo} \intersect DOMAIN cx.shapes) \ visited
  IN IF next = {} THEN visited ELSE collectShapes(cx, next, visited \union next)

typedShapes(cx, focus) ==
  LET types == superClasses(cx.graph, Objects(cx.data, focus, rdftype))
  IN {id \in DOMAIN cx.shapes : id \in types \/ \E t \in cx.shapes[id].targets : t[1] = "class" /\ t[2] \in types}

allowedByTypes(cx, s, focus) ==
  LET from == {s.id} \union typedShapes(cx, focus)
  IN UNION {collectClosedAllowed(cx.shapes, cx.shapes[x]) : x \in collectShapes(cx, from, from)} \union {rdftype}

closedResults(cx, s, focus, allowed) ==
  {<<focus, t[2], t[3], s.id, "sh:closed", s.severity>> : t \in {x \in About(cx.data, focus) : x[2] \notin allowed}}

-----------------------------------------------------------------------------
(* Shapes: the evaluation descends into other shapes and other nodes.         *)

RECURSIVE validateShapeOnNode(_, _, _, _, _), validatePropertyShape(_, _, _, _, _), Evaluate(_, _, _, _, _, _, _)

\* The rows of a SHACL-SPARQL query that parses.
SPARQLRows(cx, s, query, focus) == Objects(cx.data, focus, query)

\* A query that does not parse is one violation of the focus node.
SPARQLResults(cx, s, query, focus) ==
  {makeResult(s, focus, v, "sh:sparql") :
     v \in IF query[1] = "lit" THEN {focus} ELSE SPARQLRows(cx, s, query, focus)}

\* The validator of a custom component: an ASK per value node that must hold,
\* or a SELECT whose rows are the violations.
ComponentResults(cx, s, c, focus, values) ==
  LET bad == CASE c[1] = "ask"    -> {v \in values : c[3][1] = "lit" \/ ~Has(cx.data, v, c[3], c[4])}
               [] c[1] = "select" -> IF c[3][1] = "lit" THEN {focus} ELSE Objects(cx.data, focus, c[3]) \intersect {c[4]}
  IN {makeResult(s, focus, v, c[2][2]) : v \in bad}

\* Only emptiness is read.
nodeConforms(cx, id, node, busy) == validateShapeOnNode(cx, cx.shapes[id], node, busy, TRUE) = {}

conformsTo(cx, id, v, busy, quick) == validateShapeOnNode(cx, cx.shapes[id], v, busy, quick) = {}

\* The value nodes that violate a constraint that refers to shapes; a
\* reference that is no shape is skipped.
LogicalViolations(cx, c, values, busy, quick) ==
  LET refs == {i \in DOMAIN c[2] : c[2][i] \in DOMAIN cx.shapes}
  IN CASE c[1] = "sh:and"  -> {v \in values : \E i \in refs : ~nodeConforms(cx, c[2][i], v, busy)}
       [] c[1] = "sh:or"   -> {v \in values : \A i \in refs : ~nodeConforms(cx, c[2][i], v, busy)}
       [] c[1] = "sh:xone" -> {v \in values : Cardinality({i \in refs : conformsTo(cx, c[2][i], v, busy, quick)}) # 1}
       [] c[1] = "sh:not"  -> {v \in values : nodeConforms(cx, c[2], v, busy)}

memberViolations(cx, c, values, busy, quick) ==
  {v \in values : \/ ~isWellFormedList(cx.data, v)
                  \/ \E m \in Elements(RDFList(cx.data, v)) : ~conformsTo(cx, c[2], m, busy, quick)}

\* Only triples with a predicate, not those of a longer path, have reifiers.
reifierViolations(cx, s, c, focus, values, busy, quick) ==
  LET reifiers(v) == findReifiers(cx.data, focus, s.path[2], v)
  IN IF s.path[1] # "predicate" THEN {}
     ELSE {v \in values : \/ c[3] /\ reifiers(v) = {}
                          \/ \E r \in reifiers(v) : ~conformsTo(cx, c[2], r, busy, quick)}

someValueViolations(cx, c, values, busy, quick) ==
  IF \E v \in values : conformsTo(cx, c[2], v, busy, quick) THEN {} ELSE {None}

nodeViolations(cx, c, values, busy, quick) == {v \in values : ~conformsTo(cx, c[2], v, busy, quick)}

QualifiedCount(cx, c, values, busy, quick) ==
  Cardinality({v \in values : /\ conformsTo(cx, c[2], v, busy, quick)
                              /\ \A sib \in c[5] : ~conformsTo(cx, sib, v, busy, quick)})

QualifiedResults(cx, s, c, focus, values, busy, quick) ==
  LET n == QualifiedCount(cx, c, values, busy, quick)
  IN (IF n < c[3] THEN {makeResult(s, focus, None, "sh:qualifiedMinCount")} ELSE {})
     \union (IF c[4] >= 0 /\ n > c[4] THEN {makeResult(s, focus, None, "sh:qualifiedMaxCount")} ELSE {})

\* sh:class builds no results when only emptiness is read.
ClassResults(results, quick) == IF quick /\ results # {} THEN quickFailure ELSE results

\* The override leaves the results of a quick evaluation alone.
severityOverride(results, severity, quick) ==
  IF quick THEN results ELSE {[r EXCEPT ![6] = severity] : r \in results}

Evaluate(cx, s, c, focus, values, busy, quick) ==
  LET each(bad) == {makeResult(s, focus, v, c[1]) : v \in bad}
  IN CASE c[1] \in perValue ->
            LET bad == {v \in values : ~Satisfies(cx, c, focus, v)}
            IN IF c[1] = "sh:class" THEN ClassResults(each(bad), quick) ELSE each(bad)
       [] c[1] \in together                   -> each(Together(cx, c, focus, values))
       [] c[1] = "sh:qualifiedValueShape"     -> QualifiedResults(cx, s, c, focus, values, busy, quick)
       [] c[1] = "sh:sparql"                  -> SPARQLResults(cx, s, c[2], focus)
       [] c[1] \in {"ask", "select"}          -> ComponentResults(cx, s, c, focus, values)
       [] c[1] = "sh:closed"                  -> closedResults(cx, s, focus, c[2])
       [] c[1] = "closedByTypes"              -> closedResults(cx, s, focus, allowedByTypes(cx, s, focus) \union c[2])
       [] c[1] = "severityOverride"           ->
            severityOverride(Evaluate(cx, s, c[2], focus, values, busy, quick), c[3], quick)
       [] c[1] \in {"sh:and", "sh:or", "sh:xone", "sh:not"} -> each(LogicalViolations(cx, c, values, busy, quick))
       [] c[1] = "sh:memberShape"             -> each(memberViolations(cx, c, values, busy, quick))
       [] c[1] = "sh:reifierShape"            -> each(reifierViolations(cx, s, c, focus, values, busy, quick))
       [] c[1] = "sh:someValue"               -> each(someValueViolations(cx, c, values, busy, quick))
       [] OTHER                               -> each(nodeViolations(cx, c, values, busy, quick))

\* sh:values computes the value nodes by a query instead of the path; a query
\* that does not parse gives none.
propertyValueNodes(cx, s, focus) ==
  CASE s.values = None     -> evalPath(cx.data, s.path, focus)
    [] s.values[1] = "lit" -> {}
    [] OTHER               -> Objects(cx.data, focus, s.values)

Active(cx, s) == {p \in s.properties : ~cx.shapes[p].deactivated}

\* A pair that is in progress further up is taken to conform.
validatePropertyShape(cx, s, focus, busy, quick) ==
  LET pair == <<s.id, focus>>
      values == propertyValueNodes(cx, s, focus)
      within == busy \union {pair}
  IN IF pair \in busy THEN {}
     ELSE Collect({Evaluate(cx, s, c, focus, values, within, quick) : c \in s.constraints}
                  \union {validatePropertyShape(cx, cx.shapes[p], v, within, quick) :
                            p \in Active(cx, s), v \in values}, quick)

validateShapeOnNode(cx, s, focus, busy, quick) ==
  LET pair == <<s.id, focus>>
      within == busy \union {pair}
  IN CASE s.deactivated -> {}
       [] ~s.deactivated /\ s.isProperty /\ s.path # NoPath -> validatePropertyShape(cx, s, focus, busy, quick)
       [] OTHER ->
            IF pair \in busy THEN {}
            ELSE Collect({Evaluate(cx, s, c, focus, {focus}, within, quick) : c \in s.constraints}
                         \union {validatePropertyShape(cx, cx.shapes[p], focus, within, quick) :
                                   p \in Active(cx, s)}, quick)

-----------------------------------------------------------------------------
(* The focus nodes of a shape.                                               *)

Instances(cx, class) == UNION {instancesOf(cx.data, k) : k \in subClasses(cx.data, {class})}

resolveTarget(cx, t) ==
  CASE t[1] = "node"       -> {t[2]}
    [] t[1] = "class"      -> Instances(cx, t[2])
    [] t[1] = "subjectsOf" -> {x[1] : x \in With(cx.data, t[2])}
    [] t[1] = "objectsOf"  -> {x[3] : x \in With(cx.data, t[2])}
    [] t[1] = "sparql"     -> IF t[2][1] = "lit" THEN {} ELSE {x[1] : x \in With(cx.data, t[2])}
    [] t[1] = "where"      ->
         {n \in allNodes(cx.data) : validateShapeOnNode(cx, cx.shapes[t[2]], n, {}, FALSE) = {}}

\* Nodes of the data may name the shape themselves.
resolveTargets(cx, s) ==
  UNION {resolveTarget(cx, t) : t \in s.targets} \union Subjects(cx.data, IRI("sh:shape"), s.id)

conforming(results) == \A r \in results : r[6] \in {SH("sh:Debug"), SH("sh:Trace")}
-----------------------------------------------------------------------------
(***************************************************************************)
(* The SHACL-AF rules of a shapes graph and what one of them infers          *)
(* (af_rule.go, af_expr.go, af_target.go).  A node expression is             *)
(* <<kind, part, nodes>>; the kind "bad" stands for one that cannot be read. *)
(* sh:construct is abstracted to a predicate p:                              *)
(* CONSTRUCT { ?o <p> $this } WHERE { $this <p> ?o }.                        *)
(***************************************************************************)
CONSTANT afExprMaxDepth   \* the nesting an expression may have

BadExpr == <<"bad", None, None>>

\* The whole is bad when a part of it is.
Compose(expr, parts) == IF \E e \in parts : e[1] = "bad" THEN BadExpr ELSE expr

RECURSIVE parseAFNodeExpr(_, _, _)
parseAFNodeExpr(g, node, depth) ==
  LET of(p) == Of(g, node, p)
      parse(n) == parseAFNodeExpr(g, n, depth + 1)
      list(kind, p) == LET items == RDFList(g, One(of(p)))
                           parts == [i \in DOMAIN items |-> parse(items[i])]
                       IN Compose(<<kind, parts, None>>, Elements(parts))
      inner == parse(One(of("sh:nodes")))
  IN CASE depth > afExprMaxDepth       -> BadExpr
       [] node = IRI("sh:this")        -> <<"this", None, None>>
       [] node[1] \in {"iri", "lit"}   -> <<"constant", node, None>>
       [] of("sh:union") # {}          -> list("union", "sh:union")
       [] of("sh:intersection") # {}   -> list("intersection", "sh:intersection")
       [] of("sh:filterShape") # {}    ->
            IF of("sh:nodes") = {} THEN BadExpr
            ELSE Compose(<<"filter", One(of("sh:filterShape")), inner>>, {inner})
       [] of("sh:path") # {}           ->
            IF of("sh:nodes") = {} THEN <<"path", parsePath(g, One(of("sh:path"))), <<"this", None, None>>>>
            ELSE Compose(<<"path", parsePath(g, One(of("sh:path"))), inner>>, {inner})
       [] OTHER                        -> BadExpr

\* The nodes an expression yields at a focus node.
RECURSIVE EvalExpr(_, _, _)
EvalExpr(cx, e, focus) ==
  CASE e[1] = "this"         -> {focus}
    [] e[1] = "constant"     -> {e[2]}
    [] e[1] = "union"        -> UNION {EvalExpr(cx, e[2][i], focus) : i \in DOMAIN e[2]}
    [] e[1] = "intersection" ->
         IF e[2] = <<>> THEN {}
         ELSE {x \in EvalExpr(cx, e[2][1], focus) : \A i \in DOMAIN e[2] : x \in EvalExpr(cx, e[2][i], focus)}
    [] e[1] = "path"         -> UNION {evalPath(cx.data, e[2], n) : n \in EvalExpr(cx, e[3], focus)}
    [] e[1] = "filter"       ->
         {n \in EvalExpr(cx, e[3], focus) :
            \E s \in resolveShape(cx.graph, cx.shapes, e[2]) : validateShapeOnNode(cx, s, n, {}, FALSE) = {}}

-----------------------------------------------------------------------------
(* Reading the rules.                                                        *)

numericProperty(g, node, p) == parseInt(Option(Of(g, node, p), Lit(0, "integer")))

parseTripleRule(g, node) ==
  LET part(p) == IF Cardinality(Of(g, node, p)) = 1 THEN parseAFNodeExpr(g, One(Of(g, node, p)), 0) ELSE BadExpr
  IN <<part("sh:subject"), part("sh:predicate"), part("sh:object")>>

\* {} for a rule that cannot be read.
parseRule(g, node) ==
  LET isTriple == HasType(g, node, IRI("sh:TripleRule"))
      isSPARQL == HasType(g, node, IRI("sh:SPARQLRule"))
      conditions == UNION {Elements(Alternatives(g, c)) : c \in Of(g, node, "sh:condition")}
      rule(kind, body) == {[node |-> node, kind |-> kind, body |-> body, conditions |-> conditions,
                            order |-> numericProperty(g, node, "sh:order"),
                            deactivated |-> isTrue(Option(Of(g, node, "sh:deactivated"), None))]}
      triple == parseTripleRule(g, node)
  IN CASE isTriple /\ ~isSPARQL /\ ~\E i \in 1..3 : triple[i][1] = "bad" -> rule("triple", triple)
       [] isSPARQL /\ ~isTriple /\ Of(g, node, "sh:construct") # {} ->
            rule("construct", One(Of(g, node, "sh:construct")))
       [] OTHER -> {}

\* The orders of S that respect before, one of which a stable sort of a list
\* of unknown order gives.
Sorted(S, before(_, _)) ==
  {f \in [1..Cardinality(S) -> S] : \A i, j \in 1..Cardinality(S) : i < j => f[i] # f[j] /\ ~before(f[j], f[i])}

rulesOf(g, shape) == UNION {parseRule(g, r) : r \in Of(g, shape, "sh:rule")}

\* The groups in the order they run: by the order of the shapes, then by name.
\* Within a group the rules of one order run in the order the graph lists them.
loadRules(g) ==
  LET owners == {x[1] : x \in {y \in With(g, IRI("sh:rule")) : parseRule(g, y[3]) # {}}}
      first(a, b) == LET m == numericProperty(g, a, "sh:order")
                         n == numericProperty(g, b, "sh:order")
                     IN m < n \/ (m = n /\ Position(a[2]) < Position(b[2]))
      earlier(a, b) == a.order < b.order
      shapes == One(Sorted(owners, first))
  IN [i \in DOMAIN shapes |-> [shape |-> shapes[i], orders |-> Sorted(rulesOf(g, shapes[i]), earlier)]]

\* Some rule cannot be read.
Unreadable(g) == \E x \in With(g, IRI("sh:rule")) : parseRule(g, x[3]) = {}

-----------------------------------------------------------------------------
(* One rule.                                                                 *)

\* sh:target of SHACL-AF, added to the targets of the shapes when AF is on.
loadAFTargets(g, id) ==
  {<<"sparql", One(Of(g, t, "sh:select"))>> :
     t \in {x \in Of(g, id, "sh:target") : HasType(g, x, IRI("sh:SPARQLTarget")) /\ Of(g, x, "sh:select") # {}}}

addAFTargets(g, shapes) ==
  [id \in DOMAIN shapes |-> [shapes[id] EXCEPT !.targets = @ \union loadAFTargets(g, id)]]

\* A condition that is no shape holds of no node.
applicableFocusNodes(cx, shape, rule) ==
  {n \in resolveTargets(cx, shape) :
     \A c \in rule.conditions : \E s \in resolveShape(cx.graph, cx.shapes, c) :
       validateShapeOnNode(cx, s, n, {}, FALSE) = {}}

FocusNodes(cx, id, rule) ==
  IF rule.deactivated \/ id \notin DOMAIN cx.shapes THEN {} ELSE applicableFocusNodes(cx, cx.shapes[id], rule)

tripleRuleOutput(cx, body, focus) ==
  {<<s, p, o>> : s \in {x \in EvalExpr(cx, body[1], focus) : x[1] # "lit"},
                 p \in {x \in EvalExpr(cx, body[2], focus) : x[1] = "iri"},
                 o \in EvalExpr(cx, body[3], focus)}

constructOutput(cx, query, focus) ==
  IF query[1] = "lit" THEN {} ELSE {<<o, query, focus>> : o \in {x \in Objects(cx.data, focus, query) : x[1] # "lit"}}

Output(cx, rule, focus) ==
  IF rule.kind = "triple" THEN tripleRuleOutput(cx, rule.body, focus) ELSE constructOutput(cx, rule.body, focus)
=============================================================================
