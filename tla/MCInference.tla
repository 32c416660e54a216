----------------------------- MODULE MCInference -----------------------------
(***************************************************************************)
(* What reads rules and shapes from graphs, one per behaviour: SHACL       *)
(* validation with its rules (ShaclValidation), RDFS and OWL RL expansion  *)
(* (Reasoning), and SHACL rule sets (RuleSets). The variables of the other *)
(* two are 0.                                                              *)
(***************************************************************************)
EXTENDS ShaclValidation

CONSTANTS Literals, BNodes, Rank, Inputs, Regimes,   \* Reasoning
          RuleSet, RoundLimit                        \* RuleSets

VARIABLES which,
          input, regime, up, graph, engine, known, schema, pending, rebuild, added, total, incon,
          result, goal,
          rs, at, strata, iter, triples, stratum, round, cut, outcome

expansion == <<input, regime, up, graph, engine, known, schema, pending, rebuild, added, total,
               incon, result, goal>>
ruleset == <<rs, at, strata, iter, triples, stratum, round, cut, outcome>>
all == <<which, vars, expansion, ruleset>>

Expansion == INSTANCE Reasoning
Rules == INSTANCE RuleSets WITH answer <- outcome
-----------------------------------------------------------------------------
(* SHACL: small graphs and shapes.                                           *)

MCAlphabet == <<"C", "D", "P", "Q", "R", "S", "T", "U", "a", "b", "c", "p", "q", "r">>

MCSubtags == {<<"en-gb", "en">>}

N(x) == IRI(x)

Num(v) == Lit(v, "integer")

\* s with the given predicates and objects.
About1(s, pairs) == {<<s, IRI(x[1]), x[2]>> : x \in pairs}

Cell(name, i) == <<"bnode", name, i>>

ListOf(name, items) ==
  UNION {{<<Cell(name, i), IRI("rdf:first"), items[i]>>,
          <<Cell(name, i), IRI("rdf:rest"), IF i = Len(items) THEN Nil ELSE Cell(name, i + 1)>>} : i \in DOMAIN items}

Base == [data |-> {}, shapes |-> {}, advanced |-> FALSE, iterate |-> FALSE, strict |-> FALSE, recursive |-> FALSE]

-----------------------------------------------------------------------------
(* Data.                                                                     *)

X == BNode("x")

Plain ==
  About1(N("a"), {<<"rdf:type", N("C")>>, <<"p", N("b")>>, <<"p", X>>, <<"q", Num(1)>>, <<"q", Num(3)>>})
  \union About1(N("b"), {<<"rdf:type", N("D")>>, <<"p", N("c")>>, <<"q", Lit(2, "string")>>,
                         <<"r", Tagged(2, "en")>>, <<"r", Tagged(3, "en")>>, <<"r", Tagged(3, "fr")>>})
  \union About1(N("c"), {<<"q", Lit(Garbled, "integer")>>, <<"r", Lit(4, "date")>>, <<"q", Lit(Zoned + 1, "date")>>,
                         <<"r", N("a")>>, <<"q", N("b")>>})
  \union {<<N("D"), IRI("rdfs:subClassOf"), N("C")>>}

Cycle ==
  About1(N("a"), {<<"p", N("b")>>, <<"rdf:type", N("C")>>})
  \union About1(N("b"), {<<"p", N("a")>>, <<"p", N("c")>>, <<"q", Num(1)>>})
  \union About1(N("c"), {<<"p", N("c")>>})

Listed ==
  About1(N("a"), {<<"p", Cell("l", 1)>>, <<"p", Cell("m", 1)>>})
  \union ListOf("l", <<Num(1), N("b"), Num(1)>>)
  \union About1(Cell("m", 1), {<<"rdf:first", N("a")>>, <<"rdf:rest", Cell("m", 1)>>})
  \union About1(N("b"), {<<"p", Nil>>, <<"q", Num(1)>>})
  \union About1(X, {<<"rdf:reifies", <<"tt", N("b"), N("q"), Num(1)>>>>, <<"q", Num(2)>>})

-----------------------------------------------------------------------------
(* One constraint at a time, on a property shape with each kind of path.      *)

Paths == {N("p"), N("q"), N("r"), BNode("inv"), Cell("sq", 1), BNode("alt"), BNode("opt"), BNode("star")}

PathTriples ==
  About1(BNode("inv"), {<<"sh:inversePath", N("p")>>})
  \union ListOf("sq", <<N("p"), N("q")>>)
  \union About1(BNode("alt"), {<<"sh:alternativePath", Cell("al", 1)>>}) \union ListOf("al", <<N("q"), BNode("back")>>)
  \union About1(BNode("back"), {<<"sh:inversePath", Cell("sq", 1)>>})
  \union About1(BNode("opt"), {<<"sh:zeroOrOnePath", N("p")>>})
  \union About1(BNode("star"), {<<"sh:zeroOrMorePath", N("p")>>})

Language(x) == <<"lit", 0, "language", x>>

Simple ==
  {<<"sh:class", N("C")>>, <<"sh:class", Cell("cs", 1)>>, <<"sh:datatype", N("integer")>>,
   <<"sh:nodeKind", N("sh:BlankNodeOrIRI")>>, <<"sh:nodeKind", Cell("ks", 1)>>,
   <<"sh:minCount", Num(2)>>, <<"sh:maxCount", Num(1)>>, <<"sh:minExclusive", Num(1)>>, <<"sh:minInclusive", Num(3)>>,
   <<"sh:maxExclusive", Lit(5, "date")>>, <<"sh:maxInclusive", Lit(1, "decimal")>>,
   <<"sh:minLength", Num(2)>>, <<"sh:maxLength", Num(2)>>, <<"sh:pattern", Lit(2, "string")>>,
   <<"sh:pattern", Lit(Garbled, "string")>>, <<"sh:languageIn", Cell("ls", 1)>>, <<"sh:uniqueLang", True>>,
   <<"sh:equals", N("q")>>, <<"sh:disjoint", N("r")>>, <<"sh:lessThan", N("r")>>, <<"sh:lessThanOrEquals", N("q")>>,
   <<"sh:subsetOf", BNode("opt")>>, <<"sh:hasValue", N("b")>>, <<"sh:in", Cell("cs", 1)>>,
   <<"sh:sparql", BNode("ask")>>, <<"sh:sparql", BNode("broken")>>,
   <<"sh:minListLength", Num(1)>>, <<"sh:maxListLength", Num(2)>>, <<"sh:uniqueMembers", True>>,
   <<"ex:must", N("c")>>}

Support ==
  PathTriples
  \union ListOf("cs", <<N("D"), N("b")>>)
  \union ListOf("ks", <<N("sh:IRI"), N("sh:Literal")>>)
  \union ListOf("ls", <<Language("en"), Language("fr")>>)
  \union About1(BNode("ask"), {<<"sh:select", N("p")>>})
  \union About1(BNode("broken"), {<<"sh:select", Lit(1, "string")>>})
  \union About1(N("ex:Ks"), {<<"rdfs:subClassOf", N("sh:ConstraintComponent")>>})
  \union About1(N("ex:K"), {<<"rdf:type", N("ex:Ks")>>, <<"sh:parameter", BNode("k1")>>,
                            <<"sh:validator", BNode("k2")>>, <<"sh:nodeValidator", BNode("k3")>>})
  \union About1(BNode("k1"), {<<"sh:path", N("ex:must")>>})
  \union About1(BNode("k2"), {<<"sh:ask", N("p")>>})
  \union About1(BNode("k3"), {<<"sh:select", N("p")>>})

OneConstraint ==
  {[Base EXCEPT !.data = IF c[1] \in {"sh:minListLength", "sh:maxListLength", "sh:uniqueMembers"} THEN Listed ELSE Plain,
                !.shapes = Support \union About1(N("P"), {<<"sh:path", path>>, c} \union
                             {<<"sh:targetNode", n>> : n \in {N("a"), N("b"), N("c"), X}})] :
     c \in Simple, path \in Paths}

\* The same on a node shape.
OnNodes ==
  {[Base EXCEPT !.data = Plain,
                !.shapes = Support \union About1(N("S"), {c, <<"sh:targetSubjectsOf", N("q")>>, <<"sh:targetObjectsOf", N("p")>>})] :
     c \in Simple}

-----------------------------------------------------------------------------
(* Shapes that refer to shapes.                                              *)

Ref == About1(N("T"), {<<"sh:property", BNode("t1")>>})
       \union About1(BNode("t1"), {<<"sh:path", N("q")>>, <<"sh:minCount", Num(1)>>, <<"sh:nodeKind", N("sh:Literal")>>})
       \union About1(N("U"), {<<"sh:class", N("C")>>})

\* S on every subject and object of p, through P whose values are those of p.
Referring(pairs) ==
  Ref \union ListOf("tu", <<N("T"), N("U")>>) \union ListOf("tw", <<N("T"), N("U"), N("ex:none")>>)
  \union About1(N("S"), {<<"sh:targetSubjectsOf", N("p")>>, <<"sh:targetObjectsOf", N("p")>>, <<"sh:property", N("P")>>})
  \union About1(N("P"), {<<"sh:path", N("p")>>} \union pairs)

Combining ==
  {[Base EXCEPT !.data = Plain, !.shapes = Referring(pairs)] :
     pairs \in {{<<"sh:and", Cell("tu", 1)>>}, {<<"sh:or", Cell("tu", 1)>>}, {<<"sh:xone", Cell("tw", 1)>>},
                {<<"sh:not", N("T")>>}, {<<"sh:node", N("T")>>, <<"sh:node", N("U")>>}, {<<"sh:someValue", N("U")>>},
                {<<"sh:nodeByExpression", N("U")>>, <<"sh:severity", N("sh:Debug")>>},
                {<<"sh:property", BNode("t1")>>, <<"sh:deactivated", Lit(0, "boolean")>>},
                {<<"sh:node", N("T")>>, <<"sh:deactivated", True>>},
                {<<"sh:qualifiedValueShape", N("U")>>, <<"sh:qualifiedMinCount", Num(1)>>, <<"sh:qualifiedMaxCount", Num(1)>>}}}

\* Two property shapes whose qualified shapes must not share values.
Siblings ==
  [Base EXCEPT !.data = Plain \union {<<N("a"), N("p"), N("c")>>},
     !.shapes = Ref
       \union About1(N("S"), {<<"sh:targetNode", N("a")>>, <<"sh:property", N("P")>>, <<"sh:property", N("Q")>>})
       \union About1(N("P"), {<<"sh:path", N("p")>>, <<"sh:qualifiedValueShape", N("T")>>, <<"sh:qualifiedMinCount", Num(1)>>,
                              <<"sh:qualifiedMaxCount", Num(1)>>, <<"sh:qualifiedValueShapesDisjoint", True>>})
       \union About1(N("Q"), {<<"sh:path", N("p")>>, <<"sh:qualifiedValueShape", N("U")>>, <<"sh:qualifiedMinCount", Num(1)>>})]

Members ==
  [Base EXCEPT !.data = Listed,
     !.shapes = Ref \union About1(N("P"), {<<"sh:path", N("p")>>, <<"sh:memberShape", N("T")>>,
                                         <<"sh:targetNode", N("a")>>, <<"sh:targetNode", N("b")>>})
       \union About1(N("Q"), {<<"sh:path", N("q")>>, <<"sh:reifierShape", N("U")>>, <<"sh:reificationRequired", True>>,
                              <<"sh:targetNode", N("b")>>, <<"sh:targetNode", X>>})]

\* Closed shapes, by their own properties and by those of the types' shapes.
Closed(how) ==
  [Base EXCEPT !.data = Plain,
     !.shapes = ListOf("ig", <<N("r")>>)
       \union About1(N("S"), {<<"sh:targetClass", N("C")>>, <<"sh:closed", how>>, <<"sh:ignoredProperties", Cell("ig", 1)>>,
                              <<"sh:property", N("P")>>, <<"sh:node", N("T")>>})
       \union About1(N("P"), {<<"sh:path", N("p")>>})
       \union About1(N("T"), {<<"sh:property", N("Q")>>}) \union About1(N("Q"), {<<"sh:path", N("q")>>})]

\* Targets: a class that is a shape, a where-clause, a query, sh:shape in the data.
Selecting ==
  {[Base EXCEPT !.data = Plain \union {<<N("c"), IRI("sh:shape"), N("S")>>}, !.shapes = Ref \union extra
                  \union About1(N("S"), {t, <<"sh:node", N("T")>>})] :
     t \in {<<"sh:targetWhere", N("U")>>, <<"sh:targetNode", BNode("sel")>>, <<"sh:targetClass", N("D")>>,
            <<"sh:deactivated", True>>},
     extra \in {About1(BNode("sel"), {<<"sh:select", N("q")>>})}}
  \union {[Base EXCEPT !.data = Plain, !.shapes = Ref \union About1(N("C"), {<<"rdf:type", N("rdfs:Class")>>,
             <<"rdf:type", N("sh:NodeShape")>>, <<"sh:node", N("T")>>, <<"sh:sparql", BNode("k")>>})
             \union About1(BNode("k"), {<<"sh:select", N("p")>>})]}

\* Annotations: one constraint with another severity, one reference deactivated.
Annotated ==
  LET note(r, s, p, o, pairs) == About1(BNode(r), {<<"rdf:reifies", <<"tt", N(s), N(p), o>>>>} \union pairs)
  IN [Base EXCEPT !.data = Plain,
        !.shapes = Ref \union About1(N("S"), {<<"sh:targetSubjectsOf", N("p")>>, <<"sh:property", N("P")>>,
                                             <<"sh:property", BNode("t1")>>, <<"sh:nodeKind", N("sh:Literal")>>})
          \union About1(N("P"), {<<"sh:path", N("p")>>, <<"sh:minCount", Num(2)>>, <<"sh:class", N("D")>>})
          \union note("n1", "P", "sh:class", N("D"), {<<"sh:severity", N("sh:Trace")>>})
          \union note("n2", "S", "sh:property", BNode("t1"), {<<"sh:deactivated", True>>})
          \union note("n3", "S", "sh:nodeKind", N("sh:Literal"), {<<"sh:deactivated", True>>})]

\* Computed values.
Computed ==
  [Base EXCEPT !.data = Plain,
     !.shapes = About1(N("P"), {<<"sh:path", N("p")>>, <<"sh:values", BNode("v")>>, <<"sh:datatype", N("integer")>>,
                               <<"sh:targetClass", N("C")>>}) \union About1(BNode("v"), {<<"sh:select", N("q")>>})]

-----------------------------------------------------------------------------
(* Recursive shapes over cyclic data.                                        *)

\* S requires what p leads to to be an S; the variants fail at one node.
Recursive ==
  {[Base EXCEPT !.recursive = TRUE, !.data = Cycle,
      !.shapes = About1(N("S"), {<<"sh:targetSubjectsOf", N("p")>>, <<"sh:property", N("P")>>} \union own)
                 \union About1(N("P"), {<<"sh:path", N("p")>>} \union via) \union ListOf("or", <<N("S"), N("U")>>)
                 \union About1(N("U"), {<<"sh:property", N("Q")>>})
                 \union About1(N("Q"), {<<"sh:path", N("q")>>, <<"sh:minCount", Num(1)>>})] :
     own \in {{}, {<<"sh:class", N("C")>>}, {<<"sh:node", N("U")>>}, {<<"sh:hasValue", N("c")>>}},
     via \in {{<<"sh:node", N("S")>>}, {<<"sh:or", Cell("or", 1)>>}, {<<"sh:and", Cell("or", 1)>>}, {<<"sh:property", N("P")>>},
              {<<"sh:qualifiedValueShape", N("S")>>, <<"sh:qualifiedMinCount", Num(1)>>}}}

\* Ill-formed property shapes, refused when strict.
IllFormed ==
  {[Base EXCEPT !.strict = TRUE, !.data = Cycle,
      !.shapes = About1(N("P"), {<<"rdf:type", N("sh:PropertyShape")>>, <<"sh:targetNode", N("a")>>} \union paths)] :
     paths \in {{}, {<<"sh:path", N("p")>>, <<"sh:path", N("q")>>}, {<<"sh:path", Num(1)>>}, {<<"sh:path", N("p")>>}}}

-----------------------------------------------------------------------------
(* Rules.                                                                    *)

RuleBase == [Base EXCEPT !.advanced = TRUE, !.iterate = TRUE]

TripleRule(r, s, p, o) ==
  About1(BNode(r), {<<"rdf:type", N("sh:TripleRule")>>, <<"sh:subject", s>>, <<"sh:predicate", p>>, <<"sh:object", o>>})

This == N("sh:this")

\* What p leads to, from the focus node.
Along == About1(BNode("along"), {<<"sh:path", N("p")>>})

Owner(s, pairs) == About1(N(s), {<<"rdf:type", N("sh:NodeShape")>>} \union pairs)

\* The mark r moves along p, one step a round: as far as the limit allows.
Spreading(start) ==
  [RuleBase EXCEPT !.data = start,
     !.shapes = Along \union Owner("S", {<<"sh:targetSubjectsOf", N("r")>>, <<"sh:rule", BNode("r1")>>, <<"sh:class", N("C")>>})
                \union TripleRule("r1", BNode("along"), N("r"), Num(1))]

Short == {<<N("a"), N("r"), Num(1)>>, <<N("a"), N("p"), N("b")>>, <<N("a"), N("rdf:type"), N("C")>>}

Long == Short \union {<<N("b"), N("p"), N("c")>>, <<N("c"), N("p"), X>>, <<X, N("p"), N("C")>>}

\* Two rules of one shape, in an order that needs another round; the values of
\* an expression filtered, united and intersected.
Feeding ==
  {[RuleBase EXCEPT !.iterate = iterate, !.data = Plain,
      !.shapes = Along \union Ref \union ListOf("e1", <<BNode("along"), This>>) \union ListOf("e2", <<BNode("un"), BNode("fi")>>)
        \union About1(BNode("un"), {<<"sh:union", Cell("e1", 1)>>})
        \union About1(BNode("fi"), {<<"sh:filterShape", N("U")>>, <<"sh:nodes", BNode("un")>>})
        \union About1(BNode("in"), {<<"sh:intersection", Cell("e2", 1)>>})
        \union About1(BNode("by"), {<<"sh:path", N("r")>>, <<"sh:nodes", BNode("along")>>})
        \union Owner("S", {<<"sh:targetSubjectsOf", N("p")>>, <<"sh:rule", BNode("r1")>>, <<"sh:rule", BNode("r2")>>,
                           <<"sh:maxCount", Num(9)>>})
        \union TripleRule("r1", This, N("r"), BNode("by")) \union TripleRule("r2", BNode("along"), N("r"), BNode("in"))
        \union About1(BNode("r1"), {<<"sh:order", Num(n)>>})] : iterate \in BOOLEAN, n \in {0, 1}}

\* Conditions: a shape, a node read as one, and no shape at all; a rule that
\* cannot be read, a deactivated one, a query, and one that does not parse.
Conditional ==
  {[RuleBase EXCEPT !.data = Plain,
      !.shapes = Ref \union About1(BNode("adhoc"), {<<"sh:nodeKind", N("sh:IRI")>>})
        \union Owner("S", {<<"sh:target", BNode("tq")>>} \union {<<"sh:rule", BNode(r)>> : r \in {"r1", "r2", "r3", "r4"}})
        \union About1(BNode("tq"), {<<"rdf:type", N("sh:SPARQLTarget")>>, <<"sh:select", N("p")>>})
        \union Owner("Q", {<<"sh:targetSubjectsOf", N("q")>>, <<"sh:hasValue", N("a")>>})
        \union TripleRule("r1", This, N("q"), This) \union About1(BNode("r1"), {<<"sh:condition", c>>})
        \union About1(BNode("r2"), {<<"rdf:type", N("sh:SPARQLRule")>>, <<"sh:construct", query>>})
        \union About1(BNode("r3"), {<<"rdf:type", N("sh:TripleRule")>>, <<"sh:subject", This>>})
        \union TripleRule("r4", This, N("r"), This) \union About1(BNode("r4"), {<<"sh:deactivated", True>>})] :
     c \in {N("U"), BNode("adhoc"), N("ex:none")}, query \in {N("p"), Lit(1, "string")}}

\* Two shapes, in order, the second using what the first inferred.
Ordered2(first, second) ==
  [RuleBase EXCEPT !.data = Plain,
     !.shapes = Along
       \union Owner("S", {<<"sh:targetClass", N("C")>>, <<"sh:rule", BNode("r1")>>, <<"sh:order", Num(first)>>})
       \union TripleRule("r1", BNode("along"), N("rdf:type"), N("U"))
       \union Owner("T", {<<"sh:targetClass", N("U")>>, <<"sh:rule", BNode("r2")>>, <<"sh:order", Num(second)>>,
                          <<"sh:nodeKind", N("sh:IRI")>>})
       \union TripleRule("r2", This, N("rdf:type"), N("C"))]

MCCases ==
  OneConstraint \union OnNodes \union Combining \union Selecting \union Recursive \union IllFormed \union Feeding
  \union Conditional \union {Siblings, Members, Closed(True), Closed(N("sh:ByTypes")), Annotated, Computed,
                             Spreading(Short), Spreading(Long), Ordered2(1, 2), Ordered2(2, 1)}
-----------------------------------------------------------------------------
(* Small ontologies: each graph exercises a group of rules, several of them  *)
(* so that one regime needs what the other derived, and every graph is also  *)
(* tried with one triple left out.                                           *)

TermList ==
  <<"a", "b", "c", "d", "e", "p", "q", "r", "s", "C", "D", "E", "F", "m", "h",
    "_:x", "_:y", "l1", "l2", "l3", "v1", "v2", "0", "1", "nil", "none", "Thing", "Nothing",
    "Restriction", "SymmetricProperty", "TransitiveProperty", "FunctionalProperty",
    "InverseFunctionalProperty", "IrreflexiveProperty", "AsymmetricProperty",
    "AllDisjointProperties", "AllDisjointClasses", "NegativePropertyAssertion",
    "subClassOf", "type", "sameAs">>

MCRank == [t \in Elements(TermList) |-> CHOOSE i \in DOMAIN TermList : TermList[i] = t]

MCLiterals == {"v1", "v2", "0", "1"}

MCBNodes == {"_:x", "_:y", "l1", "l2", "l3"}

List3(l, x, y) == {<<l, "first", x>>, <<l, "rest", "l3">>, <<"l3", "first", y>>, <<"l3", "rest", "nil">>}

Graphs ==
  { \* rdfs2, rdfs3, rdfs7, rdfs9, and a subclass axiom that rdfs7 derives
    {<<"a", "p", "b">>, <<"a", "q", "v1">>, <<"p", "subPropertyOf", "q">>, <<"q", "subPropertyOf", "r">>,
     <<"p", "domain", "C">>, <<"q", "range", "D">>, <<"C", "subClassOf", "_:x">>, <<"_:x", "subClassOf", "E">>},
    {<<"C", "m", "D">>, <<"m", "subPropertyOf", "subClassOf">>, <<"a", "type", "C">>,
     <<"D", "subClassOf", "C">>, <<"D", "m", "E">>},
    \* the characteristics of properties, one of them derived by rdfs9
    {<<"p", "type", "h">>, <<"h", "subClassOf", "SymmetricProperty">>, <<"a", "p", "b">>, <<"b", "p", "v1">>,
     <<"p", "inverseOf", "q">>, <<"q", "equivalentProperty", "r">>, <<"r", "domain", "C">>},
    {<<"p", "type", "h">>, <<"h", "equivalentClass", "TransitiveProperty">>, <<"a", "p", "b">>,
     <<"b", "p", "c">>, <<"c", "p", "a">>, <<"c", "p", "d">>},
    \* equality: functional, inverse functional, keys, substitution
    {<<"p", "type", "FunctionalProperty">>, <<"a", "p", "b">>, <<"a", "p", "c">>, <<"a", "p", "d">>,
     <<"b", "q", "e">>, <<"d", "differentFrom", "c">>, <<"e", "p", "e">>},
    {<<"p", "type", "InverseFunctionalProperty">>, <<"a", "p", "v1">>, <<"b", "p", "v1">>, <<"c", "p", "v2">>,
     <<"b", "sameAs", "c">>, <<"a", "type", "C">>},
    {<<"C", "hasKey", "l1">>, <<"a", "type", "C">>, <<"b", "type", "D">>, <<"D", "subClassOf", "C">>,
     <<"a", "p", "v1">>, <<"b", "p", "v1">>, <<"a", "q", "c">>, <<"b", "q", "c">>}
      \union List3("l1", "p", "q"),
    \* chains
    {<<"r", "propertyChainAxiom", "l1">>, <<"l1", "first", "p">>, <<"l1", "rest", "l2">>,
     <<"a", "p", "b">>, <<"b", "q", "c">>, <<"c", "r", "d">>, <<"d", "p", "a">>, <<"s", "inverseOf", "r">>}
      \union List3("l2", "q", "s"),
    \* restrictions, an anonymous one classified by rdfs9 and back
    {<<"_:x", "type", "Restriction">>, <<"_:x", "onProperty", "p">>, <<"_:x", "hasValue", "b">>,
     <<"_:x", "subClassOf", "C">>, <<"a", "p", "b">>, <<"D", "subClassOf", "_:x">>, <<"c", "type", "D">>},
    {<<"_:x", "type", "Restriction">>, <<"_:x", "onProperty", "p">>, <<"_:x", "someValuesFrom", "C">>,
     <<"_:y", "type", "Restriction">>, <<"_:y", "onProperty", "p">>, <<"_:y", "allValuesFrom", "D">>,
     <<"_:x", "subClassOf", "_:y">>, <<"a", "p", "b">>, <<"b", "type", "C">>, <<"a", "p", "v1">>},
    {<<"_:x", "type", "Restriction">>, <<"_:x", "onProperty", "p">>, <<"_:x", "maxCardinality", "1">>,
     <<"_:y", "type", "Restriction">>, <<"_:y", "onProperty", "q">>, <<"_:y", "someValuesFrom", "Thing">>,
     <<"_:y", "subClassOf", "_:x">>, <<"a", "q", "v1">>, <<"a", "p", "b">>, <<"a", "p", "c">>},
    {<<"_:x", "type", "Restriction">>, <<"_:x", "onProperty", "p">>, <<"_:x", "maxQualifiedCardinality", "1">>,
     <<"_:x", "onClass", "C">>, <<"a", "type", "_:x">>, <<"a", "p", "b">>, <<"a", "p", "c">>, <<"a", "p", "d">>,
     <<"b", "type", "C">>, <<"c", "type", "C">>},
    {<<"_:x", "type", "Restriction">>, <<"_:x", "onProperty", "p">>, <<"_:x", "maxQualifiedCardinality", "1">>,
     <<"_:x", "onClass", "Thing">>, <<"a", "type", "_:x">>, <<"a", "p", "b">>, <<"a", "p", "c">>},
    \* classes made of classes and of individuals
    {<<"C", "intersectionOf", "l1">>, <<"a", "type", "D">>, <<"a", "type", "E">>, <<"b", "type", "C">>,
     <<"E", "subClassOf", "F">>} \union List3("l1", "D", "E"),
    {<<"C", "unionOf", "l1">>, <<"a", "type", "D">>, <<"C", "subClassOf", "E">>, <<"E", "equivalentClass", "F">>}
      \union List3("l1", "D", "F"),
    {<<"C", "oneOf", "l1">>, <<"C", "subClassOf", "D">>, <<"D", "disjointWith", "E">>, <<"a", "type", "E">>}
      \union List3("l1", "a", "v1"),
    \* contradictions
    {<<"a", "type", "C">>, <<"C", "subClassOf", "Nothing">>, <<"p", "type", "IrreflexiveProperty">>,
     <<"a", "p", "a">>, <<"q", "type", "AsymmetricProperty">>, <<"a", "q", "b">>, <<"b", "q", "a">>},
    {<<"p", "propertyDisjointWith", "q">>, <<"q", "subPropertyOf", "r">>, <<"a", "p", "b">>, <<"a", "q", "b">>,
     <<"_:x", "type", "AllDisjointProperties">>, <<"_:x", "members", "l1">>} \union List3("l1", "r", "p"),
    {<<"_:x", "type", "AllDisjointClasses">>, <<"_:x", "members", "l1">>, <<"a", "type", "C">>,
     <<"a", "type", "D">>, <<"E", "complementOf", "C">>, <<"D", "subClassOf", "E">>} \union List3("l1", "C", "D"),
    {<<"_:x", "type", "Restriction">>, <<"_:x", "onProperty", "p">>, <<"_:x", "maxCardinality", "0">>,
     <<"_:y", "type", "Restriction">>, <<"_:y", "onProperty", "p">>, <<"_:y", "maxQualifiedCardinality", "0">>,
     <<"_:y", "onClass", "C">>, <<"a", "type", "_:x">>, <<"a", "type", "_:y">>, <<"a", "p", "b">>,
     <<"b", "type", "C">>},
    {<<"_:x", "type", "NegativePropertyAssertion">>, <<"_:x", "sourceIndividual", "a">>,
     <<"_:x", "assertionProperty", "p">>, <<"_:x", "targetIndividual", "b">>, <<"_:x", "targetValue", "v1">>,
     <<"a", "q", "b">>, <<"q", "subPropertyOf", "p">>, <<"a", "p", "v1">>} }

\* Two ontologies together, when they hold no blank node and no functional
\* property has literal values: the code then depends on the order it reads in.
NoBlanks == {g \in Graphs : \A t \in g : t[1] \notin MCBNodes}

OrderFree(g) ==
  \A t \in g : t[3] \in MCLiterals => <<t[2], "type", "FunctionalProperty">> \notin g

Unions == {q[1] \union q[2] : q \in NoBlanks \X NoBlanks}

MCInputs == UNION {{g} \union {g \ {t} : t \in g} : g \in Graphs}
              \union {g \in Unions : OrderFree(g)}

MCRegimes == {{"RDFS"}, {"OWLRL"}, {}, {"RDFS", "OWLRL", "other"}}
-----------------------------------------------------------------------------
(* Small rule sets.                                                          *)

I(x) == <<"iri", x>>

V(x) == <<"var", x>>

L(v) == <<"lit", v>>

\* The pattern ?x p ?y.
Pair(p) == <<V("x"), I(p), V("y")>>

Match(t) == <<"triple", t>>

Without(t) == <<"not", <<Match(t)>>>>

Rule(head, body) == [head |-> <<head>>, body |-> body]

\* { ?x h ?y } WHERE { ?x d ?y . ?x b ?y } or with NOT { ?x b ?y }.
Template ==
  {Rule(Pair(h), <<Match(Pair("d")), IF negative THEN Without(Pair(b)) ELSE Match(Pair(b))>>) :
     h \in {"p", "q", "r"}, b \in {"p", "q", "r"}, negative \in BOOLEAN}

Facts == {<<I("a"), I("d"), I("b")>>, <<I("b"), I("d"), I("a")>>, <<I("a"), I("p"), I("b")>>}

Set(rules) == [rules |-> rules, data |-> Facts, blocks |-> {<<I("b"), I("q"), L(2)>>, <<I("a"), I("p"), I("b")>>}]

UpTo(k) == UNION {[1..i -> Template] : i \in 0..k}

\* A triple term of the data, of a head and of bodies; numbers compared; what is
\* asked of every predicate.
Chained ==
  LET trans == Rule(<<V("x"), I("d"), V("z")>>, <<Match(Pair("d")), Match(<<V("y"), I("d"), V("z")>>)>>)
      copy(op) == Rule(<<V("y"), V("q"), V("x")>>, <<Match(<<V("x"), V("q"), V("y")>>), <<"filter", op, "y", 2>>>>)
      onlyB == Rule(<<V("x"), I("p"), I("c")>>, <<Match(Pair("d")), Without(<<V("x"), I("p"), I("b")>>)>>)
      loop == Rule(<<V("x"), I("r"), V("x")>>, <<Match(<<V("x"), I("d"), V("x")>>), Without(<<V("x"), V("z"), I("c")>>)>>)
      bound == Rule(<<V("z"), I("r"), V("y")>>, <<Match(Pair("d")), <<"bind", "z", "y">>>>)
      both == Rule(<<V("x"), I("r"), V("w")>>, <<Match(Pair("q")), <<"filter", "!=", "y", 3>>>>)
      again == Rule(<<V("y"), I("r"), V("x")>>, <<Match(Pair("d")), <<"bind", "x", "w">>>>)
      quoted == <<"tt", V("z"), I("d"), I("b")>>
      quote == Rule(<<V("x"), I("r"), quoted>>, <<Match(<<V("x"), I("d"), V("z")>>)>>)
      told == Rule(<<V("y"), I("p"), V("x")>>, <<Match(Pair("d")), Match(<<V("x"), I("r"), quoted>>)>>)
      inside == Rule(<<V("z"), I("p"), V("x")>>, <<Match(<<V("x"), I("r"), quoted>>)>>)
      named == Rule(<<V("w"), I("p"), V("x")>>, <<Match(<<V("x"), I("r"), quoted>>), <<"bind", "w", "z">>>>)
      first == {trans, copy("isIRI"), copy(">="), onlyB, loop, quote}
  IN {<<x, y>> : x \in first, y \in first \union {copy("<"), copy("<="), bound, both, again, told, inside, named}}

\* A path so long that its transitive closure takes three rounds.
Path == LET node == <<"a", "b", "c", "e", "f", "g">>
        IN {<<I(node[i]), I("d"), I(node[i + 1])>> : i \in 1..5}

MCThree == {Set(rules) : rules \in UpTo(3)}

MCSets ==
  MCThree \union {[Set(rules) EXCEPT !.data = @ \union {<<I("b"), I("r"), <<"tt", I("a"), I("d"), I("b")>>>>}] : rules \in Chained}
          \union {[Set(rules) EXCEPT !.data = Path, !.blocks = {}] : rules \in Chained}
-----------------------------------------------------------------------------
NoShacl == /\ case = 0 /\ phase = 0 /\ data = 0 /\ shapes = 0 /\ done = 0 /\ pass = 0 /\ run = 0
           /\ cached = 0 /\ inspectErr = 0 /\ answer = 0 /\ calls = 0 /\ truth = 0
NoExpansion == /\ input = 0 /\ regime = 0 /\ up = 0 /\ graph = 0 /\ engine = 0 /\ known = 0
               /\ schema = 0 /\ pending = 0 /\ rebuild = 0 /\ added = 0 /\ total = 0 /\ incon = 0
               /\ result = "none" /\ goal = 0
NoRuleSet == /\ rs = 0 /\ at = 0 /\ strata = 0 /\ iter = 0 /\ triples = 0 /\ stratum = 0 /\ round = 0
             /\ cut = 0 /\ outcome = 0

InferenceInit ==
  \/ which = "shacl" /\ Init /\ NoExpansion /\ NoRuleSet
  \/ which = "expansion" /\ Expansion!JudgedInit /\ NoShacl /\ NoRuleSet
  \/ which = "ruleset" /\ Rules!Init /\ NoShacl /\ NoExpansion

InferenceNext ==
  \/ which = "shacl" /\ Next /\ UNCHANGED <<which, expansion, ruleset>>
  \/ which = "expansion" /\ Expansion!JudgedNext /\ UNCHANGED <<which, vars, ruleset>>
  \/ which = "ruleset" /\ Rules!Next /\ UNCHANGED <<which, vars, expansion>>

InferenceSpec == InferenceInit /\ [][InferenceNext]_all /\ Expansion!Fairness

\* Expansions alone, and rule sets alone.
ExpansionSpec == which = "expansion" /\ InferenceInit /\ [][InferenceNext]_all
RuleSetSpec == which = "ruleset" /\ InferenceInit /\ [][InferenceNext]_all
-----------------------------------------------------------------------------
\* ValidateContext: a report given without an error has every violation of every
\* shape at every focus node and nothing else, whatever calls on the same
\* Prepared were cancelled or failed before; Conforms, which stops at the first
\* violation, and the focus nodes kept on the Prepared agree with it.
ShaclReportExact == which = "shacl" => ReportExact /\ ConformsExact /\ TargetsWhole

\* ApplyRules and applyGroup: the number of triples reported is the number added,
\* and a group whose iteration ended by itself infers nothing more.
ShaclRulesExact == [][which = "shacl" => RulesCounted' /\ GroupStep]_all

\* ExpandCheckContext: the graph holds only what RDFS and OWL RL entail and the
\* count is that of the triples added, stopped or not; without an error it holds
\* everything entailed but the transitive triples of the two hierarchies, although
\* engines alternate and rebuild their indexes only now and then, and each
\* contradiction in it is reported, no other. eq-rep-p is not counted among the
\* rules: owlrl_equality.go:8 names it, and nothing applies it.
ExpansionExact ==
  which = "expansion" =>
    Expansion!Sound /\ Expansion!Complete /\ Expansion!CountExact /\ Expansion!ConsistencyExact

\* reasoning/doc.go:2-4: the rules rdfs5, rdfs11 and eq-rep are implemented.
DocumentedRules == which = "expansion" => Expansion!DocumentedRules

\* Every expansion ends: the alternation of the two engines runs dry.
ExpansionTerminates == Expansion!Terminates

\* EvalRuleSet returns what the stable model of the data and the rules adds to the
\* data; Stratify refuses no rule set without a cycle through a negation, and no
\* rule of a set that CheckWellformed accepts leaves a variable of its head open.
\* What the code does otherwise is counted in: < and > let every number pass and
\* != compares for equality (srl_eval.go:393), variables in triple terms are never
\* bound, a stratum that used up its rounds is left unfinished without an error,
\* and a literal inferred as a subject makes the call panic (srl_eval.go:88).
ResultStable ==
  which = "ruleset" =>
    Rules!ResultStable /\ Rules!StratifiableAccepted /\ Rules!WellformedInstantiates

\* srl_stratify.go:7, "or an error if the rules contain a negative cycle
\* (unstratifiable)".
NegativeCycleRefused == which = "ruleset" => Rules!NegativeCycleRefused
=============================================================================
