----------------------------- MODULE Reasoning ------------------------------
(***************************************************************************)
(* The rules of package reasoning, as sets of triples derived from a        *)
(* graph.  A rule reads the schema indexes and the triples: the indexes are  *)
(* what buildSchemaIndexes made of the graph when it last ran, so every rule *)
(* takes sc, the graph at that time, beside g, the graph the pass scans.     *)
(* Where the code takes the first triple an iteration yields, First picks it *)
(* in the iteration order of the store, which is not specified.              *)
(***************************************************************************)
EXTENDS Naturals, FiniteSets, Sequences

CONSTANTS Literals,   \* the terms that are literals
          BNodes,     \* the terms that are blank nodes
          Rank        \* the order of the terms' keys

IsSubject(t) == t \notin Literals

IsURI(t) == t \notin Literals \union BNodes

Objects(g, s, p) == {t[3] : t \in {u \in g : u[1] = s /\ u[2] = p}}

Holders(g, p, o) == {t[1] : t \in {u \in g : u[2] = p /\ u[3] = o}}

With(g, p) == {t \in g : t[2] = p}

\* The first and the last of a non-empty set of terms as the store yields them.
First(S, up) ==
  CHOOSE x \in S : \A y \in S : IF up THEN Rank[x] <= Rank[y] ELSE Rank[x] >= Rank[y]

Last(S, up) == First(S, ~up)

\* transitiveClose: every value reached from k, breadth first, each once.
RECURSIVE Reached(_, _, _)
Reached(m, frontier, visited) ==
  IF frontier = {} THEN visited
  ELSE LET next == UNION {Objects(m, x, "step") : x \in frontier}
       IN Reached(m, next \ (visited \union frontier), visited \union frontier)

transitiveClose(m, k) == Reached(m, Objects(m, k, "step"), {})

\* The RDFS indexes: the classes of a property, and the edges of the two
\* hierarchies; a literal is no class, and a property is named.
domains(sc, p) == {c \in Objects(sc, p, "domain") : IsSubject(c)}

ranges(sc, p) == {c \in Objects(sc, p, "range") : IsSubject(c)}

subClassOf(sc) ==
  {<<t[1], "step", t[3]>> : t \in {u \in With(sc, "subClassOf") : IsSubject(u[3])}}

subPropOf(sc) ==
  {<<t[1], "step", t[3]>> : t \in {u \in With(sc, "subPropertyOf") : IsURI(u[3])}}

-----------------------------------------------------------------------------
(* RDFS *)

\* rdfs2, rdfs3, rdfs7 and rdfs9 over every triple of the graph.
rdfsRules(sc, g) ==
  LET classes == subClassOf(sc)
      props   == subPropOf(sc)
      Derive(t) ==
           {<<t[1], "type", c>> : c \in domains(sc, t[2])}
        \union (IF IsSubject(t[3]) THEN {<<t[3], "type", c>> : c \in ranges(sc, t[2])} ELSE {})
        \union {<<t[1], q, t[3]>> : q \in transitiveClose(props, t[2])}
        \union (IF t[2] = "type"
                THEN {<<t[1], "type", c>> : c \in transitiveClose(classes, t[3])}
                ELSE {})
  IN UNION {Derive(t) : t \in g}

\* The predicates whose triples make the RDFS engine rebuild its indexes.
rdfsSchema(t) == t[2] \in {"subClassOf", "subPropertyOf", "domain", "range"}

-----------------------------------------------------------------------------
(* Lists and restrictions, as buildSchemaIndexes parses them *)

\* The rdf:type scan: what is declared to be of an OWL kind.
Declared(sc, kind) == Holders(sc, "type", kind)

RECURSIVE ListFrom(_, _, _, _)
ListFrom(g, cur, visited, up) ==
  IF cur = "nil" \/ cur \in visited \/ ~IsSubject(cur) \/ Objects(g, cur, "first") = {}
  THEN <<>>
  ELSE LET rest == Objects(g, cur, "rest")
       IN <<First(Objects(g, cur, "first"), up)>>
            \o (IF rest = {} THEN <<>>
                ELSE ListFrom(g, First(rest, up), visited \union {cur}, up))

\* The elements of an RDF collection; a cycle or a broken cell ends it.
collectList(g, head, up) == ListFrom(g, head, {}, up)

Elements(s) == {s[i] : i \in DOMAIN s}

\* The list a class names by p: of several, the one scanned last is kept.
ClassList(sc, c, p, up) ==
  LET lists == {l \in Objects(sc, c, p) : collectList(sc, l, up) # <<>>}
  IN IF lists = {} THEN <<>> ELSE collectList(sc, Last(lists, up), up)

FirstOf(sc, s, p, up) ==
  LET vs == Objects(sc, s, p) IN IF vs = {} THEN "none" ELSE First(vs, up)

\* The restrictions the engine keeps: their first owl:onProperty is an IRI.
buildRestrictions(sc, up) ==
  {[node |-> r, onProperty |-> FirstOf(sc, r, "onProperty", up),
    someValuesFrom |-> FirstOf(sc, r, "someValuesFrom", up),
    allValuesFrom |-> FirstOf(sc, r, "allValuesFrom", up),
    hasValue |-> FirstOf(sc, r, "hasValue", up),
    maxCard |-> FirstOf(sc, r, "maxCardinality", up),
    maxQualCard |-> FirstOf(sc, r, "maxQualifiedCardinality", up),
    onClass |-> FirstOf(sc, r, "onClass", up)] :
     r \in {n \in Declared(sc, "Restriction") :
              LET p == FirstOf(sc, n, "onProperty", up) IN p # "none" /\ IsURI(p)}}

\* The groups of an AllDisjointProperties or AllDisjointClasses axiom: the IRIs
\* of the first owl:members list, when there are at least two.
buildAllDisjoint(sc, kind, up) ==
  {grp \in {SelectSeq(collectList(sc, FirstOf(sc, n, "members", up), up), IsURI) :
              n \in Declared(sc, kind)} : Len(grp) >= 2}

\* The negative assertions that name a source and a property; a field whose
\* first value has the wrong kind of term counts as absent.
buildNegPropAssertions(sc, up) ==
  LET Keep(v, ok) == IF ok THEN v ELSE "none"
      Subj(n, p) == LET v == FirstOf(sc, n, p, up) IN Keep(v, IsSubject(v))
      Prop(n, p) == LET v == FirstOf(sc, n, p, up) IN Keep(v, IsURI(v))
  IN {npa \in {[source |-> Subj(n, "sourceIndividual"),
                property |-> Prop(n, "assertionProperty"),
                targetI |-> Subj(n, "targetIndividual"),
                targetV |-> FirstOf(sc, n, "targetValue", up)] :
                 n \in Declared(sc, "NegativePropertyAssertion")} :
        npa.source # "none" /\ npa.property # "none"}

\* inverseOf, equivalentProperty and propertyDisjointWith are read in both
\* directions, between named terms only.
BothWays(sc, p, x) ==
  IF IsURI(x)
  THEN {y \in Objects(sc, x, p) \union Holders(sc, p, x) : IsURI(y)}
  ELSE {}

\* owl:equivalentClass may name an anonymous class on either side.
equivClass(sc, c) ==
  IF IsSubject(c)
  THEN {y \in Objects(sc, c, "equivalentClass") : IsSubject(y)} \union Holders(sc, "equivalentClass", c)
  ELSE {}

disjointWith(sc, c) == BothWays(sc, "disjointWith", c)

\* owl:differentFrom is read in both directions too; a literal is not filed.
differentFrom(sc, x) ==
  Objects(sc, x, "differentFrom")
    \union (IF IsSubject(x) THEN Holders(sc, "differentFrom", x) ELSE {})

\* The chains of a named property: lists with at least two IRIs.
propChainAxiom(sc, up) ==
  {ax \in {<<t[1], SelectSeq(collectList(sc, t[3], up), IsURI)>> :
             t \in {u \in With(sc, "propertyChainAxiom") : IsURI(u[1])}} : Len(ax[2]) >= 2}

\* The key of a class: the IRIs of the list scanned last among those with any.
hasKeyIndex(sc, c, up) ==
  LET lists == {l \in Objects(sc, c, "hasKey") : SelectSeq(collectList(sc, l, up), IsURI) # <<>>}
  IN IF lists = {} THEN {} ELSE Elements(SelectSeq(collectList(sc, Last(lists, up), up), IsURI))

\* The members of the union-find class of x: what owl:sameAs joins to it.
unionFind(sc) ==
  LET links == {<<t[1], "step", t[3]>> : t \in With(sc, "sameAs")}
                 \union {<<t[3], "step", t[1]>> : t \in With(sc, "sameAs")}
  IN [x \in {t[1] : t \in links} |-> transitiveClose(links, x)]

Members(uf, x) == IF x \in DOMAIN uf THEN uf[x] ELSE {}

-----------------------------------------------------------------------------
(* OWL 2 RL: equality and properties *)

\* eq-sym and eq-trans over the union-find classes, and the substitution of
\* equals for the subject, the object and both of every triple.
applyEqualityRules(sc, g) ==
  LET uf == unionFind(sc)
      Subst(t) ==
        LET ss == {x \in Members(uf, t[1]) : x # t[1] /\ IsSubject(x)}
            os == Members(uf, t[3]) \ {t[3]}
        IN {<<x, t[2], t[3]>> : x \in ss} \union {<<t[1], t[2], y>> : y \in os}
             \union {<<x, t[2], y>> : x \in ss, y \in os}
  IN UNION {{<<x, "sameAs", y>> : y \in {z \in uf[x] : z # x /\ IsSubject(z)}} :
              x \in {z \in DOMAIN uf : IsSubject(z)}}
       \union UNION {Subst(t) : t \in g}

\* All members of a group are declared the same as the first one scanned; a
\* literal takes no part, and a literal scanned first silences the group.
SameAsFirst(group, up) ==
  IF Cardinality(group) < 2 \/ ~IsSubject(First(group, up)) THEN {}
  ELSE LET f == First(group, up)
           rest == {x \in group \ {f} : IsSubject(x)}
       IN {<<f, "sameAs", x>> : x \in rest} \union {<<x, "sameAs", f>> : x \in rest}

\* prp-trp: from every edge, breadth first along the property.
applyTransitiveRules(sc, g) ==
  LET From(t) ==
        LET links == {<<u[1], "step", u[3]>> : u \in With(g, t[2])}
        IN {<<t[1], t[2], y>> : y \in Reached(links, Objects(links, t[3], "step") \ {t[3]}, {t[3]}) \ {t[3]}}
  IN UNION {From(t) : t \in {u \in g : u[2] \in Declared(sc, "TransitiveProperty")}}

\* prp-fp and prp-ifp.
applyFunctionalRules(sc, g, up) ==
     UNION {SameAsFirst(Objects(g, t[1], t[2]), up) :
              t \in {u \in g : u[2] \in Declared(sc, "FunctionalProperty")}}
  \union UNION {SameAsFirst(Holders(g, t[2], t[3]), up) :
              t \in {u \in g : u[2] \in Declared(sc, "InverseFunctionalProperty")}}

RECURSIVE evalChainStep(_, _, _)
evalChainStep(g, chain, ends) ==
  IF chain = <<>> THEN ends
  ELSE evalChainStep(g, Tail(chain),
                     UNION {Objects(g, x, Head(chain)) : x \in {y \in ends : IsSubject(y)}})

\* prp-spo1: chains of at least two named properties.
applyPropertyChainRules(sc, g, up) ==
  UNION {{<<t[1], ax[1], y>> : y \in evalChainStep(g, Tail(ax[2]), {t[3]})} :
           <<ax, t>> \in {q \in propChainAxiom(sc, up) \X g : q[2][2] = q[1][2][1]}}

\* prp-key: two instances that share a value of every key property.
applyHasKeyRules(sc, g, up) ==
  LET Keys(c) == hasKeyIndex(sc, c, up)
      Agree(x, y, c) == \A k \in Keys(c) : Objects(g, x, k) \cap Objects(g, y, k) # {}
  IN UNION {{<<q[1], "sameAs", q[2]>> :
               q \in {r \in Holders(g, "type", c) \X Holders(g, "type", c) :
                        r[1] # r[2] /\ Agree(r[1], r[2], c)}} :
              c \in {t[1] : t \in {u \in With(sc, "hasKey") : Keys(u[1]) # {}}}}

\* The per-triple rules prp-symp, prp-inv, prp-eqp and cax-eqc, then the others.
applyPropertyRules(sc, g, up) ==
  LET Derive(t) ==
        (IF IsSubject(t[3])
         THEN (IF t[2] \in Declared(sc, "SymmetricProperty")
               THEN {<<t[3], t[2], t[1]>>} ELSE {})
                \union {<<t[3], q, t[1]>> : q \in BothWays(sc, "inverseOf", t[2])}
         ELSE {})
        \union {<<t[1], q, t[3]>> : q \in BothWays(sc, "equivalentProperty", t[2])}
        \union (IF t[2] = "type" THEN {<<t[1], "type", c>> : c \in equivClass(sc, t[3])} ELSE {})
  IN UNION {Derive(t) : t \in g}
       \union applyTransitiveRules(sc, g)
       \union applyFunctionalRules(sc, g, up)
       \union applyPropertyChainRules(sc, g, up)
       \union applyHasKeyRules(sc, g, up)

-----------------------------------------------------------------------------
(* OWL 2 RL: classes *)

\* The values of u the restriction counts: those of its class.
Qualified(g, r, u) ==
  {y \in Objects(g, u, r.onProperty) : r.onClass = "Thing" \/ <<y, "type", r.onClass>> \in g}

\* cls-hv, cls-svf, cls-avf, cls-maxc2 and cls-maxqc3/4 of a restriction.
RestrictionRules(sc, g, up, r) ==
  LET inst == Holders(g, "type", r.node)
      p    == r.onProperty
  IN (IF r.hasValue = "none" THEN {}
      ELSE {<<u, p, r.hasValue>> : u \in inst}
             \union {<<u, "type", r.node>> : u \in Holders(g, p, r.hasValue)})
     \union (IF r.someValuesFrom = "none" THEN {}
             ELSE {<<t[1], "type", r.node>> :
                     t \in {v \in With(g, p) : \/ r.someValuesFrom = "Thing"
                                               \/ <<v[3], "type", r.someValuesFrom>> \in g}})
     \union (IF r.allValuesFrom = "none" THEN {}
             ELSE UNION {{<<y, "type", r.allValuesFrom>> :
                            y \in {z \in Objects(g, u, p) : IsSubject(z)}} : u \in inst})
     \union (IF r.maxCard = "1"
             THEN UNION {SameAsFirst(Objects(g, u, p), up) : u \in inst} ELSE {})
     \union (IF r.maxQualCard = "1" /\ r.onClass # "none"
             THEN UNION {SameAsFirst(Qualified(g, r, u), up) : u \in inst} ELSE {})

\* cls-int1/2, cls-uni and cls-oo of every class a list defines.
ListClassRules(sc, g, up) ==
  LET Lists(p) == {c \in {t[1] : t \in With(sc, p)} : ClassList(sc, c, p, up) # <<>>}
      Parts(c, p) == Elements(ClassList(sc, c, p, up))
      typed == {t[1] : t \in With(g, "type")}
  IN UNION {LET m == Parts(c, "intersectionOf") IN
            {<<y, "type", c>> : y \in {x \in typed : \A d \in m : <<x, "type", d>> \in g}}
              \union {<<q[1], "type", q[2]>> : q \in Holders(g, "type", c) \X m} :
              c \in Lists("intersectionOf")}
     \union UNION {{<<y, "type", c>> :
                      y \in {x \in typed : \E d \in Parts(c, "unionOf") : <<x, "type", d>> \in g}} :
                     c \in Lists("unionOf")}
     \union UNION {{<<y, "type", c>> : y \in {x \in Parts(c, "oneOf") : IsSubject(x)}} :
                     c \in Lists("oneOf")}

applyClassRules(sc, g, up) ==
  UNION {RestrictionRules(sc, g, up, r) : r \in buildRestrictions(sc, up)}
    \union ListClassRules(sc, g, up)

owlrlRules(sc, g, up) ==
  applyEqualityRules(sc, g) \union applyPropertyRules(sc, g, up) \union applyClassRules(sc, g, up)

\* Mutant: a derived characteristic of a property leaves the indexes as they were.
owlrlSchemaPredicates(t) ==
  t[2] \in {"inverseOf", "equivalentProperty", "equivalentClass", "sameAs"}

\* isSchemaTriple: the triples that make the OWL engine rebuild its indexes.
isSchemaTriple(t) ==
  \/ /\ t[2] = "type"
     /\ t[3] \in {"SymmetricProperty", "TransitiveProperty", "FunctionalProperty",
                  "InverseFunctionalProperty", "IrreflexiveProperty", "AsymmetricProperty",
                  "Restriction", "AllDisjointProperties", "AllDisjointClasses",
                  "NegativePropertyAssertion"}
  \/ t[2] \in {"inverseOf", "equivalentProperty", "equivalentClass", "sameAs",
               "propertyDisjointWith", "propertyChainAxiom", "hasKey", "onProperty",
               "someValuesFrom", "allValuesFrom", "hasValue", "hasSelf", "maxCardinality",
               "maxQualifiedCardinality", "intersectionOf", "unionOf", "complementOf",
               "oneOf", "disjointWith", "differentFrom"}

-----------------------------------------------------------------------------
(* OWL 2 RL: consistency *)

\* Pairs reported once: the one whose first key is the smaller.
OncePerPair(x, y) == Rank[x] < Rank[y]

PropertyConflicts(sc, g, up) ==
     {<<"cls-nothing2", x, {"Nothing"}>> : x \in Holders(g, "type", "Nothing")}
  \union {<<"prp-irp", t[2], {t[1]}>> :
        t \in {u \in g : u[1] = u[3] /\ u[2] \in Declared(sc, "IrreflexiveProperty")}}
  \union {<<"prp-asyp", t[2], {t[1], t[3]}>> :
        t \in {u \in g : /\ u[2] \in Declared(sc, "AsymmetricProperty")
                         /\ IsSubject(u[3]) /\ <<u[3], u[2], u[1]>> \in g
                         /\ OncePerPair(u[1], u[3])}}
  \union UNION {{<<"prp-pdw", t[1], {t[2], q}>> :
        q \in {r \in BothWays(sc, "propertyDisjointWith", t[2]) :
                 <<t[1], r, t[3]>> \in g /\ OncePerPair(t[2], r)}} : t \in g}
  \union UNION {{<<"prp-adp", t[1], {t[2], grp[j]}>> :
        <<t, j>> \in {q \in g \X DOMAIN grp :
                        \E i \in DOMAIN grp : /\ i < q[2] /\ q[1][2] = grp[i]
                                              /\ <<q[1][1], grp[q[2]], q[1][3]>> \in g}} :
        grp \in buildAllDisjoint(sc, "AllDisjointProperties", up)}

ClassConflicts(sc, g, up) ==
  LET typed == {t[1] : t \in With(g, "type")}
      Types(x) == Objects(g, x, "type")
      uf == unionFind(sc)
  IN UNION {{<<"cax-dw", x, {c, d}>> :
          <<c, d>> \in {q \in Types(x) \X Types(x) :
                          q[2] \in disjointWith(sc, q[1]) /\ OncePerPair(q[1], q[2])}} :
          x \in typed}
     \union UNION {{<<"cax-adc", x, Elements(grp)>> :
          x \in {y \in typed : Cardinality({i \in DOMAIN grp : grp[i] \in Types(y)}) >= 2}} :
          grp \in buildAllDisjoint(sc, "AllDisjointClasses", up)}
     \union UNION {{<<"eq-diff1", "sameAs", {x, d}>> :
          d \in {e \in differentFrom(sc, x) : e \in Members(uf, x) /\ OncePerPair(x, e)}} : x \in DOMAIN uf}
     \union UNION {{<<"cls-com", x, {c, Last(Objects(sc, c, "complementOf"), up)}>> :
          x \in Holders(g, "type", c) \cap Holders(g, "type", Last(Objects(sc, c, "complementOf"), up))} :
          c \in {t[1] : t \in With(sc, "complementOf")}}
     \union UNION {{<<"cls-maxc1", u, {r.node}>> :
          u \in {v \in Holders(g, "type", r.node) : Objects(g, v, r.onProperty) # {}}} :
          r \in {q \in buildRestrictions(sc, up) : q.maxCard = "0"}}
     \union UNION {{<<IF r.onClass = "Thing" THEN "cls-maxqc2" ELSE "cls-maxqc1", u, {r.node}>> :
          u \in {v \in Holders(g, "type", r.node) : Qualified(g, r, v) # {}}} :
          r \in {q \in buildRestrictions(sc, up) : q.maxQualCard = "0" /\ q.onClass # "none"}}

NegativeConflicts(sc, g, up) ==
  UNION {LET os == Objects(g, npa.source, npa.property)
         IN {<<"prp-npa1", npa.property, {npa.source, y}>> : y \in os \cap {npa.targetI}}
              \union {<<"prp-npa2", npa.property, {npa.source, y}>> : y \in os \cap {npa.targetV}} :
         npa \in buildNegPropAssertions(sc, up)}

checkConsistency(sc, g, up) ==
  PropertyConflicts(sc, g, up) \union ClassConflicts(sc, g, up) \union NegativeConflicts(sc, g, up)
-----------------------------------------------------------------------------
(***************************************************************************)
(* ExpandCheckContext of package reasoning.  An engine reads the graph into  *)
(* a dedup set and schema indexes, then makes passes: a pass derives every   *)
(* triple its rules give from the indexes and the graph, and adds the new    *)
(* ones one by one; the indexes are rebuilt only after a pass that added a   *)
(* schema triple.  The RDFS engine runs first; then the OWL RL and the RDFS  *)
(* engines alternate until one of them adds nothing.  The context may end,   *)
(* or the store fail, at any step.                                           *)
(***************************************************************************)
LOCAL INSTANCE TLC

CONSTANTS Inputs,     \* the graphs an expansion starts from
          Regimes     \* subsets of {"RDFS", "OWLRL"} and unknown flags

VARIABLES input,      \* the graph before the expansion
          regime,     \* the flags of the call
          up,         \* the order the store yields triples in
          graph,      \* the graph
          engine,     \* the engine that runs, or "none"
          known,      \* its dedup set
          schema,     \* the graph its indexes were built from
          pending,    \* the triples of the pass still to be added
          rebuild,    \* the pass has added a schema triple
          added,      \* triples this engine run has added
          total,      \* triples earlier engine runs have added
          incon,      \* the inconsistencies of the last OWL run
          result      \* "running", "ok", "stopped", "unknown regime"

vars == <<input, regime, up, graph, engine, known, schema, pending, rebuild,
          added, total, incon, result>>

Init ==
  /\ input \in Inputs /\ regime \in Regimes /\ up \in BOOLEAN
  /\ graph = input
  /\ engine = "none" /\ known = {} /\ schema = {} /\ pending = {} /\ rebuild = FALSE
  /\ added = 0 /\ total = 0 /\ incon = {} /\ result = "running"

\* A new engine: run reads the dedup set and the indexes from the graph.  The
\* indexes are functions of that graph, so the model keeps the graph itself.
StartEngine(e) ==
  /\ engine' = e /\ known' = graph /\ schema' = graph
  /\ pending' = {} /\ rebuild' = FALSE /\ added' = 0

\* An unknown flag, or no flag, is refused before anything is read.
Refuse ==
  /\ result = "running" /\ engine = "none"
  /\ regime = {} \/ regime \ {"RDFS", "OWLRL"} # {}
  /\ result' = "unknown regime"
  /\ UNCHANGED <<input, regime, up, graph, engine, known, schema, pending, rebuild,
                 added, total, incon>>

\* RDFS is always applied first.
Begin ==
  /\ result = "running" /\ engine = "none"
  /\ regime # {} /\ regime \subseteq {"RDFS", "OWLRL"}
  /\ StartEngine("RDFS first")
  /\ UNCHANGED <<input, regime, up, graph, total, incon, result>>

\* applyRules: what a pass derives.
Derived == IF engine = "OWLRL" THEN owlrlRules(schema, graph, up) ELSE rdfsRules(schema, graph)

\* A pass that derives something new.
ApplyRules ==
  /\ result = "running" /\ engine # "none" /\ pending = {}
  /\ Derived \ known # {}
  /\ pending' = Derived \ known
  /\ known' = known \union Derived
  /\ rebuild' = FALSE
  /\ UNCHANGED <<input, regime, up, graph, engine, schema, added, total, incon, result>>

\* The next triple of the pass is added; after the last one the indexes are
\* rebuilt if a schema triple was among them.  The order within a pass only
\* decides which of them a stop leaves out.
AddTriple ==
  /\ result = "running" /\ pending # {}
  /\ LET t == CHOOSE x \in pending : TRUE
         isSchema == IF engine = "OWLRL" THEN isSchemaTriple(t) ELSE rdfsSchema(t)
         last == pending = {t}
     IN /\ graph' = graph \union {t}
        /\ pending' = pending \ {t}
        /\ added' = added + 1
        /\ rebuild' = (~last /\ (rebuild \/ isSchema))
        /\ schema' = IF last /\ (rebuild \/ isSchema) THEN graph' ELSE schema
  /\ UNCHANGED <<input, regime, up, engine, known, total, incon, result>>

\* Mutant: the alternation looks at the triples added so far, not by this run.
EngineDoneTotal ==
  /\ result = "running" /\ engine # "none" /\ pending = {}
  /\ Derived \subseteq known
  /\ incon' = IF engine = "OWLRL" THEN checkConsistency(schema, graph, up) ELSE incon
  /\ total' = total + added
  /\ LET next == CASE engine = "RDFS first" -> IF "OWLRL" \in regime THEN "OWLRL" ELSE "none"
                   [] total + added = 0     -> "none"
                   [] engine = "OWLRL"      -> "RDFS"
                   [] OTHER                 -> "OWLRL"
     IN IF next # "none" THEN StartEngine(next) /\ UNCHANGED result
        ELSE /\ result' = "ok"
             /\ added' = 0
             /\ UNCHANGED <<engine, known, schema, pending, rebuild>>
  /\ UNCHANGED <<input, regime, up, graph>>

\* A pass that derives nothing ends the engine's run.  An OWL run then checks
\* consistency on its graph.  The first RDFS run is followed by OWL if asked
\* for; after that an unproductive run ends the expansion.
EngineDone ==
  /\ result = "running" /\ engine # "none" /\ pending = {}
  /\ Derived \subseteq known
  /\ incon' = IF engine = "OWLRL" THEN checkConsistency(schema, graph, up) ELSE incon
  /\ total' = total + added
  /\ LET next == CASE engine = "RDFS first" -> IF "OWLRL" \in regime THEN "OWLRL" ELSE "none"
                   [] added = 0             -> "none"
                   [] engine = "OWLRL"      -> "RDFS"
                   [] OTHER                 -> "OWLRL"
     IN IF next # "none" THEN StartEngine(next) /\ UNCHANGED result
        ELSE /\ result' = "ok"
             /\ added' = 0
             /\ UNCHANGED <<engine, known, schema, pending, rebuild>>
  /\ UNCHANGED <<input, regime, up, graph>>

\* The context is done or a store call fails: what was added stays, the pass
\* under way adds nothing more, and no inconsistency is reported.
Stop ==
  /\ result = "running"
  /\ engine # "none" \/ (regime # {} /\ regime \subseteq {"RDFS", "OWLRL"})
  /\ result' = "stopped"
  /\ total' = total + added /\ added' = 0
  /\ pending' = {}
  /\ incon' = {}
  /\ UNCHANGED <<input, regime, up, graph, engine, known, schema, rebuild>>

Step == Begin \/ ApplyRules \/ AddTriple \/ EngineDone

Next == Refuse \/ Step \/ Stop

\* The expansion is one goroutine's loop: while it runs it always has a step
\* to take, and it takes it.  This is weak fairness of Step \/ Refuse, with
\* what enables them written out.
Fairness == []<>(result # "running") \/ []<><<Step \/ Refuse>>_vars

Spec == Init /\ [][Next]_vars /\ Fairness

-----------------------------------------------------------------------------
(* The reference: the rules as RDFS and OWL 2 RL state them, every match of  *)
(* one step.  Of the rules doc.go lists one, eq-rep-p, is left to            *)
(* ReplacedPredicates.                                                       *)

Hierarchy(t) == t[2] \in {"subClassOf", "subPropertyOf"}

\* rdfs5 and rdfs11: the two hierarchies are transitive.
Transitivity(g) ==
  LET edges == {t \in g : Hierarchy(t)}
  IN {<<q[1][1], q[1][2], q[2][3]>> :
        q \in {r \in edges \X edges : r[1][2] = r[2][2] /\ r[1][3] = r[2][1]}}

\* rdfs2, rdfs3, rdfs7 and rdfs9.
ReferenceRDFS(g) ==
  {<<q[2][1], "type", q[1][3]>> :
     q \in {r \in With(g, "domain") \X g : r[2][2] = r[1][1] /\ IsSubject(r[1][3])}}
  \union {<<q[2][3], "type", q[1][3]>> :
     q \in {r \in With(g, "range") \X g : /\ r[2][2] = r[1][1]
                                       /\ IsSubject(r[1][3]) /\ IsSubject(r[2][3])}}
  \union {<<q[2][1], q[1][3], q[2][3]>> :
     q \in {r \in With(g, "subPropertyOf") \X g : r[2][2] = r[1][1] /\ IsURI(r[1][3])}}
  \union {<<q[2][1], "type", q[1][3]>> :
     q \in {r \in With(g, "subClassOf") \X With(g, "type") : r[2][3] = r[1][1] /\ IsSubject(r[1][3])}}

\* What the list at l holds, whichever of its cells' values is read.
RefList(g, l) == collectList(g, l, TRUE)

ReferenceEquality(g) ==
  LET same == {t \in With(g, "sameAs") : IsSubject(t[3])}
  IN {<<t[3], "sameAs", t[1]>> : t \in same}
     \union {<<q[1][1], "sameAs", q[2][3]>> :
               q \in {r \in same \X same : r[1][3] = r[2][1]}}
     \union {<<q[1][3], q[2][2], q[2][3]>> :
               q \in {r \in same \X g : r[2][1] = r[1][1]}}
     \union {<<q[2][1], q[2][2], q[1][3]>> :
               q \in {r \in same \X g : r[2][3] = r[1][1]}}

\* eq-rep-p: a property stands for those it is the same as.
ReplacedPredicates(g) ==
  {<<q[2][1], q[1][3], q[2][3]>> :
     q \in {r \in With(g, "sameAs") \X g : r[2][2] = r[1][1] /\ IsURI(r[1][3])}}

ReferenceProperties(g) ==
  LET Is(p, k) == <<p, "type", k>> \in g
      Pair(p, x, y) == <<x, p, y>> \in g \/ <<y, p, x>> \in g
      subj == {t \in g : IsSubject(t[3])}
      Of(k) == {t \in g : Is(t[2], k)}
      Ends(p) == {t[1] : t \in With(g, p)} \union {t[3] : t \in With(g, p)}
      nodes == {t[1] : t \in g} \union {t[3] : t \in g}
  IN {<<t[3], t[2], t[1]>> : t \in Of("SymmetricProperty") \cap subj}
     \union {<<q[1][3], q[2], q[1][1]>> :
               q \in {r \in subj \X Ends("inverseOf") : Pair("inverseOf", r[1][2], r[2])}}
     \union {<<q[1][1], q[2], q[1][3]>> :
               q \in {r \in g \X Ends("equivalentProperty") : Pair("equivalentProperty", r[1][2], r[2])}}
     \union {<<q[1][1], "type", q[2]>> :
               q \in {r \in With(g, "type") \X Ends("equivalentClass") :
                        Pair("equivalentClass", r[1][3], r[2])}}
     \union {<<q[1][1], q[1][2], q[2][3]>> :
               q \in {r \in Of("TransitiveProperty") \X Of("TransitiveProperty") :
                        r[1][2] = r[2][2] /\ r[1][3] = r[2][1]}}
     \union {<<q[1][3], "sameAs", q[2][3]>> :
               q \in {r \in (Of("FunctionalProperty") \cap subj) \X (Of("FunctionalProperty") \cap subj) :
                        r[1][2] = r[2][2] /\ r[1][1] = r[2][1] /\ r[1][3] # r[2][3]}}
     \union {<<q[1][1], "sameAs", q[2][1]>> :
               q \in {r \in Of("InverseFunctionalProperty") \X Of("InverseFunctionalProperty") :
                        r[1][2] = r[2][2] /\ r[1][3] = r[2][3] /\ r[1][1] # r[2][1]}}
     \union UNION {LET ps == RefList(g, ax[3]) IN
                   {<<t[1], ax[1], y>> : <<t, y>> \in
                      {q \in {t \in g : Len(ps) >= 2 /\ t[2] = ps[1]} \X nodes :
                         \E mid \in [2..(Len(ps) - 1) -> nodes] :
                           LET node == (1 :> q[1][3]) @@ (Len(ps) :> q[2]) @@ mid
                           IN \A i \in 2..Len(ps) : <<node[i - 1], ps[i], node[i]>> \in g}} :
                   ax \in With(g, "propertyChainAxiom")}
     \union UNION {{<<q[1], "sameAs", q[2]>> :
                     q \in {r \in Holders(g, "type", ax[1]) \X Holders(g, "type", ax[1]) :
                              /\ r[1] # r[2]
                              /\ \A k \in Elements(RefList(g, ax[3])) :
                                   Objects(g, r[1], k) \cap Objects(g, r[2], k) # {}}} :
                     ax \in {t \in With(g, "hasKey") : RefList(g, t[3]) # <<>>}}

ReferenceClasses(g) ==
  LET Val(r, p, v) == <<r, "type", "Restriction">> \in g /\ <<r, p, v>> \in g
      on == {t \in With(g, "onProperty") : <<t[1], "type", "Restriction">> \in g}
      Pairs(r, p, class) ==
        {<<q[1][3], "sameAs", q[2][3]>> :
           q \in {w \in With(g, p) \X With(g, p) :
                    /\ w[1][1] = w[2][1] /\ w[1][3] # w[2][3]
                    /\ <<w[1][1], "type", r>> \in g
                    /\ \A i \in {1, 2} : /\ IsSubject(w[i][3])
                                         /\ class = "Thing" \/ <<w[i][3], "type", class>> \in g}}
  IN UNION {LET r == t[1]
                p == t[3]
                inst == Holders(g, "type", r)
            IN UNION {{<<u, p, v>> : u \in inst} \union {<<u, "type", r>> : u \in Holders(g, p, v)} :
                        v \in Objects(g, r, "hasValue")}
               \union {<<u[1], "type", r>> :
                         u \in {w \in With(g, p) :
                                  \E c \in Objects(g, r, "someValuesFrom") :
                                    c = "Thing" \/ <<w[3], "type", c>> \in g}}
               \union {<<q[1][3], "type", q[2]>> :
                         q \in {w \in With(g, p) \X Objects(g, r, "allValuesFrom") :
                                  w[1][1] \in inst /\ IsSubject(w[1][3])}}
               \union (IF Val(r, "maxCardinality", "1") THEN Pairs(r, p, "Thing") ELSE {})
               \union (IF Val(r, "maxQualifiedCardinality", "1")
                       THEN UNION {Pairs(r, p, c) : c \in Objects(g, r, "onClass")} ELSE {}) :
            t \in on}
     \union UNION {LET m == Elements(RefList(g, ax[3])) IN
                   IF m = {} THEN {}
                   ELSE {<<x, "type", ax[1]>> :
                           x \in {y \in {t[1] : t \in g} : \A d \in m : <<y, "type", d>> \in g}}
                        \union {<<q[1], "type", q[2]>> : q \in Holders(g, "type", ax[1]) \X m} :
                   ax \in With(g, "intersectionOf")}
     \union UNION {{<<t[1], "type", ax[1]>> :
                      t \in {u \in With(g, "type") : u[3] \in Elements(RefList(g, ax[3]))}} :
                   ax \in With(g, "unionOf")}
     \union UNION {{<<x, "type", ax[1]>> : x \in {y \in Elements(RefList(g, ax[3])) : IsSubject(y)}} :
                   ax \in With(g, "oneOf")}

\* The contradictions of a closed graph, between different terms: the code
\* compares keys to report a pair once, so it is silent about x p x of an
\* asymmetric property and about a class or property disjoint with itself.
Contradictions(g) ==
  LET terms == {t[1] : t \in g} \union {t[3] : t \in g}
      Is(x, c) == <<x, "type", c>> \in g
      Apart(p, x, y) == x # y /\ (<<x, p, y>> \in g \/ <<y, p, x>> \in g)
      restr == {t \in With(g, "onProperty") : Is(t[1], "Restriction")}
      Groups(k) == {Elements(RefList(g, t[3])) : t \in {u \in With(g, "members") : Is(u[1], k)}}
      Denied(rule, target) ==
        UNION {{<<rule, t[2], {t[1], t[3]}>> :
                  t \in {u \in g : /\ <<n, "sourceIndividual", u[1]>> \in g
                                   /\ <<n, "assertionProperty", u[2]>> \in g
                                   /\ <<n, target, u[3]>> \in g}} :
                 n \in Holders(g, "type", "NegativePropertyAssertion")}
  IN {<<"cls-nothing2", t[1], {"Nothing"}>> : t \in {u \in With(g, "type") : u[3] = "Nothing"}}
     \union {<<"prp-irp", t[2], {t[1]}>> :
               t \in {u \in g : u[1] = u[3] /\ Is(u[2], "IrreflexiveProperty")}}
     \union {<<"prp-asyp", t[2], {t[1], t[3]}>> :
               t \in {u \in g : /\ Is(u[2], "AsymmetricProperty") /\ u[1] # u[3]
                                /\ <<u[3], u[2], u[1]>> \in g}}
     \union {<<"prp-pdw", q[1][1], {q[1][2], q[2]}>> :
               q \in {r \in g \X terms : /\ Apart("propertyDisjointWith", r[1][2], r[2])
                                          /\ <<r[1][1], r[2], r[1][3]>> \in g}}
     \union UNION {{<<"prp-adp", q[1][1], {q[1][2], q[2]}>> :
               q \in {r \in g \X grp : /\ r[1][2] \in grp \ {r[2]}
                                        /\ <<r[1][1], r[2], r[1][3]>> \in g}} :
               grp \in Groups("AllDisjointProperties")}
     \union {<<"cax-dw", t[1], {t[3], d}>> : <<t, d>> \in
               {q \in With(g, "type") \X terms : Apart("disjointWith", q[1][3], q[2]) /\ Is(q[1][1], q[2])}}
     \union UNION {{<<"cax-adc", x, grp>> :
               x \in {y \in terms : \E c, d \in grp : c # d /\ Is(y, c) /\ Is(y, d)}} :
               grp \in Groups("AllDisjointClasses")}
     \union {<<"eq-diff1", "sameAs", {t[1], t[3]}>> :
               t \in {u \in With(g, "sameAs") : Apart("differentFrom", u[1], u[3])}}
     \union UNION {{<<"cls-com", x, {t[1], t[3]}>> : x \in {y \in terms : Is(y, t[1]) /\ Is(y, t[3])}} :
               t \in With(g, "complementOf")}
     \union UNION {{<<"cls-maxc1", u[1], {t[1]}>> : u \in {v \in With(g, t[3]) : Is(v[1], t[1])}} :
               t \in {r \in restr : <<r[1], "maxCardinality", "0">> \in g}}
     \union UNION {{<<IF c = "Thing" THEN "cls-maxqc2" ELSE "cls-maxqc1", u[1], {t[1]}>> :
                     u \in {v \in With(g, t[3]) : Is(v[1], t[1]) /\ (c = "Thing" \/ Is(v[3], c))}} :
               <<t, c>> \in {q \in restr \X terms : /\ <<q[1][1], "maxQualifiedCardinality", "0">> \in g
                                                   /\ <<q[1][1], "onClass", q[2]>> \in g}}
     \union Denied("prp-npa1", "targetIndividual") \union Denied("prp-npa2", "targetValue")

RECURSIVE Closure(_, _)
Closure(g, owl) ==
  LET next == g \union Transitivity(g) \union ReferenceRDFS(g)
                \union (IF owl THEN ReferenceEquality(g) \union ReferenceProperties(g)
                                      \union ReferenceClasses(g) ELSE {})
  IN IF next = g THEN g ELSE Closure(next, owl)

RECURSIVE TransitiveGraph(_)
TransitiveGraph(g) ==
  IF Transitivity(g) \subseteq g THEN g ELSE TransitiveGraph(g \union Transitivity(g))
-----------------------------------------------------------------------------
\* What the expansion should reach, computed once.
VARIABLE goal

JudgedInit == Init /\ goal = Closure(input, "OWLRL" \in regime)

JudgedNext == Next /\ UNCHANGED goal
-----------------------------------------------------------------------------
\* Whatever ExpandCheckContext has added, also when it was stopped, is entailed.
Sound == graph \subseteq goal

\* An expansion that returns no error has everything that is entailed, but for
\* the conclusions of rdfs5 and rdfs11 themselves: closeTransitive closes the
\* indexes and adds no triple (rdfs.go:151-154).  Whatever else follows from a
\* chain of classes or properties is there: no rule still waits for an index to
\* be rebuilt or for the other engine.
Complete == result = "ok" => goal = TransitiveGraph(graph)

\* doc.go:2-4, "Implements RDFS closure rules (rdfs2, rdfs3, rdfs5, rdfs7, rdfs9,
\* rdfs11) and OWL 2 RL rules (...) eq-rep": an expansion that returns no error
\* has the conclusions of rdfs5, rdfs11 and, with OWL 2 RL, eq-rep-p.
DocumentedRules ==
  result = "ok" => /\ Transitivity(graph) \subseteq graph
                   /\ "OWLRL" \in regime => ReplacedPredicates(graph) \subseteq graph

\* The count returned is the number of triples added, on an error as well.
CountExact == total + added = Cardinality(graph) - Cardinality(input)

\* checkConsistency sees the expanded graph: each contradiction in it is
\* reported, and nothing else.
ConsistencyExact == result = "ok" /\ "OWLRL" \in regime => incon = Contradictions(graph)

\* An expansion ends: an unproductive run of one engine stops the alternation.
Terminates == <>(result # "running")
=============================================================================
