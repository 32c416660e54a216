---------------------------- MODULE QueryAlgebra ----------------------------
(***************************************************************************)
(* Property paths: package paths, and MemoryStore.Reachable, the traversal   *)
(* a repetition is pushed down to.  A graph is the sequence of its triples   *)
(* in the order the store yields them; a term is a tuple that begins with    *)
(* its kind; Nil is an end of the path that is not given.  A path evaluates  *)
(* to the sequence of the pairs it yields, duplicates included.              *)
(***************************************************************************)
EXTENDS Integers, Sequences, FiniteSets, SequencesExt

Nil == <<"nil">>

IsLiteral(t) == t[1] \in {"lit", "num", "nan", "bool", "ill", "unknown", "lang"}

IsSubject(t) == ~IsLiteral(t)

Matches(asked, t) == asked = Nil \/ asked = t

\* Graph.Triples: the triples that agree with the ends and the predicate given.
Scan(g, s, p, o) ==
  SelectSeq(g, LAMBDA t : Matches(s, t[1]) /\ Matches(p, t[2]) /\ Matches(o, t[3]))

Pairs(triples) == [i \in DOMAIN triples |-> <<triples[i][1], triples[i][3]>>]

\* The elements of a set as a sequence, in an order nothing is known about.
RECURSIVE Listing(_)
Listing(S) ==
  IF S = {} THEN <<>> ELSE LET x == CHOOSE y \in S : TRUE IN <<x>> \o Listing(S \ {x})

AllNodes(g) == Listing({t[1] : t \in ToSet(g)} \union {t[3] : t \in ToSet(g)})

-----------------------------------------------------------------------------
(* The pushdown *)

NotFlat == [flat |-> FALSE, preds |-> {}, inverse |-> FALSE, negated |-> FALSE]

Flat(preds, inverse, negated) ==
  [flat |-> TRUE, preds |-> preds, inverse |-> inverse, negated |-> negated]

\* flatten: the set of predicates, the direction and the polarity of a path
\* that is no more than that.  A negated set is merged with nothing.
RECURSIVE flatten(_)
flatten(p) ==
  CASE p[1] = "iri" -> Flat({p}, FALSE, FALSE)
    [] p[1] = "inv" -> LET inner == flatten(p[2])
                       IN IF inner.flat THEN [inner EXCEPT !.inverse = ~@] ELSE NotFlat
    [] p[1] = "neg" -> Flat(p[2], FALSE, TRUE)
    [] p[1] = "alt" ->
         LET alts == [i \in DOMAIN p[2] |-> flatten(p[2][i])]
         IN IF \A i \in DOMAIN alts : /\ alts[i].flat
                                      /\ ~alts[i].negated
                                      /\ alts[i].inverse = alts[1].inverse
            THEN Flat(UNION {alts[i].preds : i \in DOMAIN alts}, alts[1].inverse, FALSE)
            ELSE NotFlat
    [] OTHER -> NotFlat

\* An empty set of predicates allows every predicate, in both polarities.
Allows(spec, pred) ==
  \/ spec.preds = {}
  \/ (pred \in spec.preds) # spec.negated

Neighbours(g, spec, node) ==
  IF spec.inverse
  THEN {t[1] : t \in {u \in ToSet(g) : u[3] = node /\ Allows(spec, u[2])}}
  ELSE {t[3] : t \in {u \in ToSet(g) : u[1] = node /\ Allows(spec, u[2])}}

\* Mutant: the start counts as emitted when it is expanded, so a cycle that
\* leads back to it is not reported.
ReachableNoCycle(g, spec, start) ==
  LET RECURSIVE Layer(_, _, _)
      Layer(frontier, expanded, emitted) ==
        IF frontier = {} THEN emitted \ {start}
        ELSE LET found == UNION {Neighbours(g, spec, n) : n \in frontier}
             IN Layer(found \ expanded, expanded \union found, emitted \union found)
  IN Layer({start}, {start}, {})

\* MemoryStore.Reachable, without a depth: breadth first, a node is expanded
\* once, and the start is in the answer only when an edge leads back to it.
Reachable(g, spec, start) ==
  LET RECURSIVE Layer(_, _, _)
      Layer(frontier, expanded, emitted) ==
        IF frontier = {} THEN emitted
        ELSE LET found == UNION {Neighbours(g, spec, n) : n \in frontier}
             IN Layer(found \ expanded, expanded \union found, emitted \union found)
  IN Layer({start}, {start}, {})

-----------------------------------------------------------------------------
(* Evaluation *)

\* MulPath.eval's emit: a pair is yielded once.
emit(out, s, o) == IF Contains(out, <<s, o>>) THEN out ELSE Append(out, <<s, o>>)

RECURSIVE emitAll(_, _)
emitAll(out, pairs) ==
  IF pairs = <<>> THEN out
  ELSE emitAll(emit(out, Head(pairs)[1], Head(pairs)[2]), Tail(pairs))

RECURSIVE EvalPath(_, _, _, _, _)
RECURSIVE evalSequence(_, _, _, _, _)
RECURSIVE restOf(_, _, _, _, _)
RECURSIVE fwdFrom(_, _, _, _, _, _, _)
RECURSIVE fwdEach(_, _, _, _, _, _, _)
RECURSIVE followed(_, _, _, _, _, _, _)
RECURSIVE bwdTo(_, _, _, _, _, _)
RECURSIVE bwdEach(_, _, _, _, _, _)
RECURSIVE FromAll(_, _, _, _, _)

\* Pairs with another start.
StartingAt(s, pairs) == [i \in DOMAIN pairs |-> <<s, pairs[i][2]>>]

\* The remaining paths from each node the first one leads to; nothing can be
\* followed from a literal.
evalSequence(g, pushes, args, s, o) ==
  IF Len(args) = 0 THEN <<>>
  ELSE IF Len(args) = 1 THEN EvalPath(g, pushes, args[1], s, o)
  ELSE restOf(g, pushes, Tail(args), EvalPath(g, pushes, args[1], s, Nil), o)

restOf(g, pushes, args, first, o) ==
  FlattenSeq([i \in DOMAIN first |->
    IF IsLiteral(first[i][2]) THEN <<>>
    ELSE StartingAt(first[i][1], evalSequence(g, pushes, args, first[i][2], o))])

\* fwdFrom and the loop in it: depth first from node, each node once, what is
\* found being emitted when it is the end asked for; st holds the nodes seen
\* and the pairs yielded.
fwdFrom(g, pushes, p, origin, node, o, st) ==
  IF node \in st.seen THEN st
  ELSE fwdEach(g, pushes, p, origin, EvalPath(g, pushes, p[2], node, Nil), o,
               [st EXCEPT !.seen = @ \union {node}])

fwdEach(g, pushes, p, origin, found, o, st) ==
  IF found = <<>> THEN st
  ELSE fwdEach(g, pushes, p, origin, Tail(found), o,
               followed(g, pushes, p, origin, Head(found)[2], o,
                        IF Matches(o, Head(found)[2]) THEN [st EXCEPT !.out = emit(@, origin, Head(found)[2])] ELSE st))

followed(g, pushes, p, origin, end, o, st) ==
  IF p[4] /\ IsSubject(end) THEN fwdFrom(g, pushes, p, origin, end, o, st) ELSE st

bwdTo(g, pushes, p, node, target, st) ==
  IF node \in st.seen THEN st
  ELSE bwdEach(g, pushes, p, EvalPath(g, pushes, p[2], Nil, node), target,
               [st EXCEPT !.seen = @ \union {node}])

bwdEach(g, pushes, p, found, target, st) ==
  IF found = <<>> THEN st
  ELSE LET start == Head(found)[1]
           told  == [st EXCEPT !.out = emit(@, start, target)]
       IN bwdEach(g, pushes, p, Tail(found), target,
                  IF p[4] THEN bwdTo(g, pushes, p, start, target, told) ELSE told)

FromAll(g, pushes, p, nodes, out) ==
  IF nodes = <<>> THEN out
  ELSE FromAll(g, pushes, p, Tail(nodes),
               IF IsLiteral(Head(nodes)) THEN out
               ELSE fwdFrom(g, pushes, p, Head(nodes), Head(nodes), Nil, [seen |-> {}, out |-> out]).out)

\* evalViaStore: only a transitive, flat path with a bound end is pushed down.
viaStore(pushes, p, s, o) ==
  pushes /\ p[4] /\ flatten(p[2]).flat /\ (s # Nil \/ o # Nil)

evalViaStore(g, p, s, o) ==
  IF s # Nil
  THEN Listing({<<s, n>> : n \in {m \in Reachable(g, flatten(p[2]), s) : Matches(o, m)}})
  ELSE Listing({<<n, o>> : n \in Reachable(g, [flatten(p[2]) EXCEPT !.inverse = ~@], o)})

\* MulPath.eval: the zero-length pairs, then the store's answer or a traversal.
evalMul(g, pushes, p, s, o) ==
  LET nodes == AllNodes(g)
      zero  == IF ~p[3] THEN <<>>
               ELSE IF s # Nil THEN (IF Matches(o, s) THEN <<<<s, s>>>> ELSE <<>>)
               ELSE IF o # Nil THEN <<<<o, o>>>>
               ELSE [i \in DOMAIN nodes |-> <<nodes[i], nodes[i]>>]
  IN IF viaStore(pushes, p, s, o) THEN emitAll(zero, evalViaStore(g, p, s, o))
     ELSE IF s # Nil THEN fwdFrom(g, pushes, p, s, s, o, [seen |-> {}, out |-> zero]).out
     ELSE IF o # Nil THEN bwdTo(g, pushes, p, o, o, [seen |-> {}, out |-> zero]).out
     ELSE FromAll(g, pushes, p, nodes, zero)

\* InvPath.eval: an object that is no subject is not passed on to the path.
Swapped(pairs) == [i \in DOMAIN pairs |-> <<pairs[i][2], pairs[i][1]>>]

evalInv(g, pushes, p, s, o) ==
  Swapped(EvalPath(g, pushes, p[2], IF IsSubject(o) THEN o ELSE Nil, s))

evalNegated(g, p, s, o) ==
  Pairs(SelectSeq(Scan(g, s, Nil, o), LAMBDA t : t[2] \notin p[2]))

\* Path.Eval: p is <<"iri", name>>, <<"inv", path>>, <<"seq", paths>>,
\* <<"alt", paths>>, <<"mul", path, zero, more>> or <<"neg", predicates>>.
EvalPath(g, pushes, p, s, o) ==
  CASE p[1] = "iri" -> Pairs(Scan(g, s, p, o))
    [] p[1] = "inv" -> evalInv(g, pushes, p, s, o)
    [] p[1] = "seq" -> evalSequence(g, pushes, p[2], s, o)
    [] p[1] = "alt" -> FlattenSeq([i \in DOMAIN p[2] |-> EvalPath(g, pushes, p[2][i], s, o)])
    [] p[1] = "mul" -> evalMul(g, pushes, p, s, o)
    [] p[1] = "neg" -> evalNegated(g, p, s, o)
-----------------------------------------------------------------------------
(***************************************************************************)
(* The values of SPARQL expressions: the operators of sparql/operators.go    *)
(* and the total order of sparql/ordering.go.  A term is <<kind, n>>: "iri"  *)
(* and "bn", and among the literals "lit" (a string), "num" (an integer),    *)
(* "nan", "bool", "lang" (a string with a language), "ill" (an ill-formed    *)
(* number) and "unknown" (a datatype the engine does not know); a triple     *)
(* term is <<"tt", s, p, o>>.  The n of a string stands for its place in the *)
(* order of strings.  Nil is an evaluation error or an unbound variable.     *)
(***************************************************************************)
BooleanTerm(b) == <<"bool", IF b THEN 1 ELSE 0>>

IsNumeric(t) == t[1] \in {"num", "nan"}

\* ebv: the effective boolean value, "error" where there is none.  A number
\* that is ill-formed is false; a language tag or an unknown datatype an error.
ebv(t) ==
  CASE t[1] \in {"bool", "num", "lit"} -> IF t[2] # 0 THEN "true" ELSE "false"
    [] t[1] \in {"nan", "ill"} -> "false"
    [] OTHER -> "error"

effectiveBooleanValue(t) == ebv(t) = "true"

\* logicalOp: an error on one side is masked when the other decides.
logicalOp(op, left, right) ==
  LET sides    == {ebv(left), ebv(right)}
      deciding == IF op = "||" THEN "true" ELSE "false"
  IN IF deciding \in sides THEN BooleanTerm(op = "||")
     ELSE IF "error" \in sides THEN Nil
     ELSE BooleanTerm(op = "&&")

\* numericArithmetic, on integers.
arithmetic(op, left, right) ==
  IF ~IsNumeric(left) \/ ~IsNumeric(right) THEN Nil
  ELSE IF "nan" \in {left[1], right[1]} THEN <<"nan", 0>>
  ELSE <<"num", CASE op = "+" -> left[2] + right[2]
                  [] op = "-" -> left[2] - right[2]
                  [] op = "*" -> left[2] * right[2]>>

evalUnaryOp(op, arg) ==
  CASE op = "!" -> IF ebv(arg) = "error" THEN Nil ELSE BooleanTerm(ebv(arg) = "false")
    [] op = "-" -> IF arg[1] = "num" THEN <<"num", -arg[2]>>
                   ELSE IF arg[1] = "nan" THEN arg ELSE Nil

\* valueSpace: nothing can be said about the value of an ill-formed literal,
\* or one of an unknown datatype.
valueSpace(l) ==
  CASE l[1] = "lit" -> "string"
    [] l[1] \in {"num", "nan"} -> "numeric"
    [] l[1] = "bool" -> "boolean"
    [] OTHER -> "unknown"

\* literalsEqual: Nil where the values cannot be shown to be equal or to differ.
literalsEqual(a, b) ==
  IF IsNumeric(a) /\ IsNumeric(b) THEN BooleanTerm(a = b /\ a[1] # "nan")
  ELSE IF "lang" \in {a[1], b[1]} \/ a = b THEN BooleanTerm(a = b)
  ELSE IF "unknown" \in {valueSpace(a), valueSpace(b)} THEN Nil
  ELSE BooleanTerm(FALSE)

RECURSIVE rdfTermEqual(_, _)
rdfTermEqual(a, b) ==
  IF Nil \in {a, b} THEN Nil
  ELSE IF IsLiteral(a) /\ IsLiteral(b) THEN literalsEqual(a, b)
  ELSE IF a[1] = "tt" /\ b[1] = "tt"
  THEN LET parts   == [i \in 2..4 |-> rdfTermEqual(a[i], b[i])]
           decided == {i \in 2..4 : parts[i] # BooleanTerm(TRUE)}
       IN IF decided = {} THEN BooleanTerm(TRUE)
          ELSE parts[CHOOSE i \in decided : \A j \in decided : i <= j]
  ELSE BooleanTerm(a = b)

termValuesEqual(a, b) == rdfTermEqual(a, b) = BooleanTerm(TRUE)

\* The relational operators; a comparison with NaN is false.
Relational(op, a, b) ==
  IF ~IsLiteral(a) \/ ~IsLiteral(b) THEN Nil
  ELSE IF valueSpace(a) = "unknown" \/ valueSpace(a) # valueSpace(b) THEN Nil
  ELSE IF "nan" \in {a[1], b[1]} THEN BooleanTerm(FALSE)
  ELSE BooleanTerm(CASE op = "<" -> a[2] < b[2]
                     [] op = ">" -> a[2] > b[2]
                     [] op = "<=" -> a[2] <= b[2]
                     [] op = ">=" -> a[2] >= b[2])

evalBinaryOp(op, left, right) ==
  CASE op = "=" -> rdfTermEqual(left, right)
    [] op = "!=" -> LET eq == rdfTermEqual(left, right)
                    IN IF eq = Nil THEN Nil ELSE BooleanTerm(eq = BooleanTerm(FALSE))
    [] op \in {"<", ">", "<=", ">="} -> Relational(op, left, right)
    [] op \in {"&&", "||"} -> logicalOp(op, left, right)
    [] op \in {"+", "-", "*"} -> arithmetic(op, left, right)

\* Where the string of a literal stands among strings: a number of one or two
\* digits stands where its digits put it.
LexicalRank(l) ==
  IF l[1] = "num" THEN (IF l[2] < 10 THEN l[2] * 11 ELSE (l[2] \div 10) * 11 + 1 + (l[2] % 10))
  ELSE IF l[1] = "nan" THEN 1000 ELSE l[2]

DatatypeRank(l) ==
  CHOOSE i \in 1..7 : <<"lit", "lang", "bool", "num", "nan", "ill", "unknown">>[i] = l[1]

termTypeOrder(t) ==
  CASE t[1] = "bn" -> 0 [] t[1] = "iri" -> 1 [] t[1] = "tt" -> 3 [] OTHER -> 2

Cmp(x, y) == IF x < y THEN -1 ELSE IF x > y THEN 1 ELSE 0

\* compareTermValues: the order of ORDER BY, MIN and MAX.  Numbers compare by
\* value, any other two literals by their written forms.
RECURSIVE compareTermValues(_, _)
compareTermValues(a, b) ==
  IF a = Nil \/ b = Nil THEN Cmp(IF a = Nil THEN 0 ELSE 1, IF b = Nil THEN 0 ELSE 1)
  ELSE IF termTypeOrder(a) # termTypeOrder(b) THEN termTypeOrder(a) - termTypeOrder(b)
  ELSE IF a[1] = "num" /\ b[1] = "num" THEN Cmp(a[2], b[2])
  ELSE IF IsLiteral(a)
  THEN IF LexicalRank(a) # LexicalRank(b) THEN Cmp(LexicalRank(a), LexicalRank(b))
       ELSE Cmp(DatatypeRank(a), DatatypeRank(b))
  ELSE IF a[1] = "tt"
  THEN LET s == compareTermValues(a[2], b[2])
           p == compareTermValues(a[3], b[3])
       IN IF s # 0 THEN s ELSE IF p # 0 THEN p ELSE compareTermValues(a[4], b[4])
  ELSE Cmp(a[2], b[2])
-----------------------------------------------------------------------------
(***************************************************************************)
(* The SPARQL evaluator (sparql/eval.go, limit.go, bgp_order.go): patterns   *)
(* evaluate to sequences of solutions, a solution being a function from the  *)
(* variables it binds to terms.  A pattern is a tuple that begins with its   *)
(* kind, a variable in a pattern is <<"var", name>>, a triple pattern is a   *)
(* triple whose predicate may be <<"path", p>>.                              *)
(*                                                                           *)
(* c is what an evaluation carries along: the named graphs, the initial      *)
(* bindings (pre) and whether they are substituted into subqueries           *)
(* (substitute), and the optional interfaces the store implements (store:    *)
(* "cardinality", "queryable", "reachability").                              *)
(***************************************************************************)
CONSTANTS ProbeStart,   \* bgpProbeStart
          ProbeLimit,   \* bgpProbeLimit
          Internal      \* the names of the variables the parser makes

ASSUME ProbeLimits == ProbeStart \in Nat \ {0} /\ ProbeLimit \in Nat /\ ProbeStart < ProbeLimit

Empty == <<>>

Bound(b, v) == v \in DOMAIN b

mergeBindings(a, b) == b @@ a

BindVar(b, v, t) == IF Bound(b, v) THEN b ELSE (v :> t) @@ b

Agree(a, b) == \A v \in DOMAIN a \intersect DOMAIN b : a[v] = b[v]

isCompatible(a, b) == Agree(a, b)

\* Mutant: solutions that share no variable exclude each other.
minusCompatibleAny(a, b) == Agree(a, b)

minusCompatible(a, b) == Agree(a, b) /\ DOMAIN a \intersect DOMAIN b # {}

IsVar(x) == x[1] = "var"

\* resolvePatternTerm and resolveTripleTermPattern.
RECURSIVE resolvePatternTerm(_, _)
resolvePatternTerm(x, b) ==
  CASE IsVar(x) -> IF Bound(b, x[2]) THEN b[x[2]] ELSE Nil
    [] x[1] = "tt" ->
         LET s == resolvePatternTerm(x[2], b)
             p == resolvePatternTerm(x[3], b)
             o == resolvePatternTerm(x[4], b)
         IN IF Nil \in {s, p, o} \/ IsLiteral(s) \/ p[1] # "iri" THEN Nil ELSE <<"tt", s, p, o>>
    [] OTHER -> x

RECURSIVE tripleTermHasVariables(_)
tripleTermHasVariables(x) ==
  x[1] = "tt" /\ \E i \in 2..4 : IsVar(x[i]) \/ tripleTermHasVariables(x[i])

\* matchTripleTermPattern: the bindings extended by the match, or no element.
RECURSIVE matchTripleTermPattern(_, _, _)
matchTripleTermPattern(tt, x, b) ==
  LET RECURSIVE Part(_, _)
      Part(i, nb) ==
        IF i > 4 THEN <<nb>>
        ELSE IF IsVar(x[i])
        THEN IF Bound(nb, x[i][2]) /\ nb[x[i][2]] # tt[i] THEN <<>>
             ELSE Part(i + 1, BindVar(nb, x[i][2], tt[i]))
        ELSE IF x[i][1] = "tt"
        THEN LET inner == IF tt[i][1] = "tt" THEN matchTripleTermPattern(tt[i], x[i], nb) ELSE <<>>
             IN IF inner = <<>> THEN <<>> ELSE Part(i + 1, inner[1])
        ELSE IF termValuesEqual(x[i], tt[i]) THEN Part(i + 1, nb) ELSE <<>>
  IN Part(2, b)

\* What one position of a pattern makes of the term a triple has there.
MatchPosition(x, t, b) ==
  IF IsVar(x) THEN <<BindVar(b, x[2], t)>>
  ELSE IF tripleTermHasVariables(x)
  THEN IF t[1] = "tt" THEN matchTripleTermPattern(t, x, b) ELSE <<>>
  ELSE <<b>>

IsPath(tp) == tp[2][1] = "path"

-----------------------------------------------------------------------------
(* The order of the patterns of a BGP *)

\* newBGPCandidate: what is known of a pattern before evaluation.
newBGPCandidate(tp, b) ==
  LET Ask(x) == resolvePatternTerm(x, b)
      unmatchable == ~IsPath(tp) /\ (IsLiteral(Ask(tp[1])) \/ Ask(tp[2])[1] \notin {"nil", "iri"})
      Free(i) == IF ~(i = 2 /\ IsPath(tp)) /\ IsVar(tp[i]) /\ ~Bound(b, tp[i][2]) THEN tp[i][2] ELSE ""
  IN [tp |-> tp, vars |-> [i \in 1..3 |-> Free(i)], path |-> IsPath(tp),
      fixed |-> Cardinality({i \in 1..3 : ~(i = 2 /\ IsPath(tp)) /\ Ask(tp[i]) # Nil}),
      s |-> Ask(tp[1]), p |-> IF IsPath(tp) THEN Nil ELSE Ask(tp[2]), o |-> Ask(tp[3]),
      probed |-> unmatchable \/ IsPath(tp), count |-> 0, capped |-> FALSE]

\* probeCandidates: exact counts from the indexes, or probes that stop early,
\* the most constrained pattern first.
toProbe(cands) == {i \in DOMAIN cands : ~cands[i].probed}

constrainedFirst(cands) ==
  CHOOSE s \in SetToSeqs(toProbe(cands)) :
    \A i, j \in DOMAIN s : i < j =>
       \/ cands[s[i]].fixed > cands[s[j]].fixed
       \/ cands[s[i]].fixed = cands[s[j]].fixed /\ s[i] < s[j]

matchCount(g, cand) == Len(Scan(g, cand.s, cand.p, cand.o))

probeRound(g, cands, order, start) ==
  LET RECURSIVE Probe(_, _)
      Probe(k, st) ==
        IF k > Len(order) THEN st
        ELSE LET i == order[k]
                 n == matchCount(g, cands[i])
                 m == IF n < st.limit THEN n ELSE st.limit
                 capped == m >= st.limit
             IN IF st.cands[i].probed /\ ~st.cands[i].capped THEN Probe(k + 1, st)
                ELSE Probe(k + 1, [cands |-> [st.cands EXCEPT ![i].count = m, ![i].probed = TRUE,
                                                              ![i].capped = capped],
                                   limit |-> IF capped THEN st.limit ELSE IF m = 0 THEN 1 ELSE m,
                                   exact |-> st.exact \/ ~capped])
  IN Probe(1, start)

\* Where no pattern was counted exactly, they are probed further.
secondRound(g, cands, order, first) ==
  IF first.exact \/ order = <<>> THEN first
  ELSE probeRound(g, cands, order, [first EXCEPT !.limit = ProbeLimit])

estimated(last) ==
  [i \in DOMAIN last.cands |->
     IF last.cands[i].capped THEN [last.cands[i] EXCEPT !.count = last.limit] ELSE last.cands[i]]

probeCandidates(c, g, cands) ==
  IF "cardinality" \in c.store
  THEN [i \in DOMAIN cands |->
          IF i \in toProbe(cands)
          THEN [cands[i] EXCEPT !.count = matchCount(g, cands[i]), !.probed = TRUE]
          ELSE cands[i]]
  ELSE estimated(secondRound(g, cands, constrainedFirst(cands),
                   probeRound(g, cands, constrainedFirst(cands),
                              [cands |-> cands, limit |-> ProbeStart, exact |-> FALSE])))

\* bgpCandidate.cost, the estimate scaled by 4000 so that it stays a whole
\* number: a bound subject divides by 100, a predicate by 4, an object by 10.
Divisor == <<100, 4, 10>>

cost(cand, bound, anyChosen) ==
  LET bnd   == {i \in 1..3 : cand.vars[i] # "" /\ cand.vars[i] \in bound}
      free  == {i \in 1..3 : cand.vars[i] # "" /\ cand.vars[i] \notin bound}
      Div(i) == IF i \in bnd THEN Divisor[i] ELSE 1
      base  == IF cand.path THEN ProbeLimit * (3 - cand.fixed) ELSE cand.count
  IN IF ~cand.path /\ cand.count = 0 THEN [disconnected |-> 0, capped |-> 0, cost |-> 0]
     ELSE [disconnected |-> IF anyChosen /\ bnd = {} /\ free # {} THEN 1 ELSE 0,
           capped |-> IF cand.capped \/ cand.path THEN 1 ELSE 0,
           cost |-> ((base * 4000) \div (Div(1) * Div(2) * Div(3)))]

less(k, l) ==
  \/ k.disconnected < l.disconnected
  \/ k.disconnected = l.disconnected /\ k.capped < l.capped
  \/ k.disconnected = l.disconnected /\ k.capped = l.capped /\ k.cost < l.cost

\* orderBGP: the cheapest pattern next, the first written among equals.
Cheapest(left, key) ==
  CHOOSE i \in left : \A j \in left \ {i} : less(key[i], key[j]) \/ (~less(key[j], key[i]) /\ i < j)

RECURSIVE Pick(_, _, _, _, _)
RECURSIVE Picked(_, _, _, _, _, _)
Pick(triples, cands, left, bound, ordered) ==
  IF left = {} THEN ordered
  ELSE Picked(triples, cands, left, bound, ordered,
              Cheapest(left, [i \in left |-> cost(cands[i], bound, ordered # <<>>)]))

Picked(triples, cands, left, bound, ordered, best) ==
  Pick(triples, cands, left \ {best}, bound \union ({cands[best].vars[k] : k \in 1..3} \ {""}),
       Append(ordered, triples[best]))

orderBGP(c, g, triples, b) ==
  IF Len(triples) < 2 \/ \E i \in DOMAIN triples : tripleTermHasVariables(triples[i][1])
                                                  \/ tripleTermHasVariables(triples[i][3])
  THEN triples
  ELSE Pick(triples, probeCandidates(c, g, [i \in DOMAIN triples |-> newBGPCandidate(triples[i], b)]),
            DOMAIN triples, {}, <<>>)
=============================================================================
