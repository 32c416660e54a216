--------------------------- MODULE QueryPatterns ---------------------------
(***************************************************************************)
(* Patterns, expressions and queries: the mutually recursive part of the     *)
(* SPARQL evaluator.  An expression is <<"v", name>>, <<"c", term>>,         *)
(* <<"op2", op, l, r>>, <<"op1", op, e>>, <<"fn", name, args>>,              *)
(* <<"exists", pattern, negated>> or an aggregate                            *)
(* <<"agg", name, e, distinct, star>>.                                       *)
(***************************************************************************)
EXTENDS QueryAlgebra

\* The functions of the evaluator call each other through Eval: which of them,
\* on the graph g, the pattern, expression or query x, and the bindings or the
\* solutions b.
RECURSIVE Eval(_, _, _, _, _)
RECURSIVE eachBGPSolution(_, _, _, _)
RECURSIVE addInScopeVars(_)

\* The concatenation of what Rows yields for the elements of a sequence of
\* sequences: every nested loop of the evaluator builds its result this way.
Concat(rows) == FlattenSeq(rows)

-----------------------------------------------------------------------------
(* Basic graph patterns *)

\* A position bound to a term that cannot stand there has no matches.
Unmatchable(tp, b) ==
  \/ IsLiteral(resolvePatternTerm(tp[1], b))
  \/ ~IsPath(tp) /\ resolvePatternTerm(tp[2], b)[1] \notin {"nil", "iri"}

\* eachPathSolution's and eachBGPSolution's extension of a solution: a variable
\* that is bound is left as it is.
ExtendAt(tp, i, t, made) ==
  IF made = <<>> \/ (IsPath(tp) /\ ~IsVar(tp[i])) THEN made ELSE MatchPosition(tp[i], t[i], made[1])

Extend(tp, b, t) == ExtendAt(tp, 3, t, ExtendAt(tp, 2, t, ExtendAt(tp, 1, t, <<b>>)))

\* The triples a pattern finds, a pair of a path having no predicate.
PathTriples(pairs) == [i \in DOMAIN pairs |-> <<pairs[i][1], Nil, pairs[i][2]>>]

Found(c, g, tp, s, p, o) ==
  IF IsPath(tp) THEN PathTriples(EvalPath(g, "reachability" \in c.store, tp[2][2], s, o))
  ELSE Scan(g, s, p, o)

\* The solutions of the remaining patterns from each extension.
EachFrom(c, g, triples, made) ==
  Concat([i \in DOMAIN made |->
            IF made[i] = <<>> THEN <<>> ELSE eachBGPSolution(c, g, triples, made[i][1])])

ExtendAll(tp, b, found) == [i \in DOMAIN found |-> Extend(tp, b, found[i])]

eachBGPSolution(c, g, triples, b) ==
  IF triples = <<>> THEN <<b>>
  ELSE IF Unmatchable(Head(triples), b) THEN <<>>
  ELSE EachFrom(c, g, Tail(triples),
         ExtendAll(Head(triples), b,
           Found(c, g, Head(triples), resolvePatternTerm(Head(triples)[1], b),
                 IF IsPath(Head(triples)) THEN Nil ELSE resolvePatternTerm(Head(triples)[2], b),
                 resolvePatternTerm(Head(triples)[3], b))))

\* evalBGP: the order is chosen once, with what is bound beforehand.
evalBGP(c, g, triples, b) == eachBGPSolution(c, g, orderBGP(c, g, triples, b), b)

-----------------------------------------------------------------------------
(* Expressions *)

\* The built-in functions modelled: the functional forms evaluate their own
\* arguments, every other function is an error when an argument is.
builtin(name, vals) ==
  CASE name = "ISIRI" -> BooleanTerm(vals[1][1] = "iri")
    [] name = "ISLITERAL" -> BooleanTerm(IsLiteral(vals[1]))
    [] name = "ISNUMERIC" -> BooleanTerm(IsNumeric(vals[1]))
    [] name = "SAMETERM" -> BooleanTerm(vals[1] = vals[2])

evalFunc(c, g, name, args, b) ==
  LET vals == [i \in DOMAIN args |-> Eval("evalExpr", c, g, args[i], b)]
  IN CASE name = "BOUND" -> BooleanTerm(Bound(b, args[1][2]) \/ Bound(c.pre, args[1][2]))
       [] name = "IF" -> LET cond == ebv(Eval("evalExpr", c, g, args[1], b))
                         IN IF cond = "error" THEN Nil
                            ELSE Eval("evalExpr", c, g, args[IF cond = "true" THEN 2 ELSE 3], b)
       [] name = "COALESCE" ->
            LET ok == {i \in DOMAIN vals : vals[i] # Nil}
            IN IF ok = {} THEN Nil ELSE vals[CHOOSE i \in ok : \A j \in ok : i <= j]
       [] OTHER -> IF \E i \in DOMAIN vals : vals[i] = Nil THEN Nil ELSE builtin(name, vals)

\* evalExprWithGraph: a variable the row does not bind is looked up among the
\* initial bindings; EXISTS substitutes the row into its pattern; an aggregate
\* outside a group is an error.
evalExpr(c, g, e, b) ==
  CASE e[1] = "v" -> IF Bound(b, e[2]) THEN b[e[2]]
                     ELSE IF Bound(c.pre, e[2]) THEN c.pre[e[2]] ELSE Nil
    [] e[1] = "c" -> e[2]
    [] e[1] = "op2" -> evalBinaryOp(e[2], Eval("evalExpr", c, g, e[3], b), Eval("evalExpr", c, g, e[4], b))
    [] e[1] = "op1" -> evalUnaryOp(e[2], Eval("evalExpr", c, g, e[3], b))
    [] e[1] = "fn" -> evalFunc(c, g, e[2], e[3], b)
    [] e[1] = "exists" -> BooleanTerm((Eval("evalPatternPreBound", c, g, e[2], b) # <<>>) # e[3])
    [] OTHER -> Nil

-----------------------------------------------------------------------------
(* Patterns *)

MergeAll(b, rows) == [i \in DOMAIN rows |-> mergeBindings(b, rows[i])]

\* MINUS: what is left of a sequence of solutions.
Subtract(left, right) ==
  SelectSeq(left, LAMBDA b : ~\E i \in DOMAIN right : minusCompatible(b, right[i]))

BindRow(b, v, val) == IF val = Nil THEN b ELSE (v :> val) @@ b

\* The conditions at the top of an OPTIONAL's group, and what they stand on.
RECURSIVE Conditions(_)
Conditions(p) == IF p[1] = "filter" THEN <<p[3]>> \o Conditions(p[2]) ELSE <<>>

RECURSIVE Core(_)
Core(p) == IF p[1] = "filter" THEN Core(p[2]) ELSE p

\* optionalMatches: a FILTER at the top level of the group is the condition of
\* the left join, over the merged solution.
optionalMatches(c, g, opt, mb, inner) ==
  LET rows  == Eval("evalPatternWithBindings", c, g, Core(opt), inner)
      conds == Conditions(opt)
  IN SelectSeq(rows, LAMBDA r :
       \A i \in DOMAIN conds : effectiveBooleanValue(Eval("evalExpr", c, g, conds[i], mergeBindings(mb, r))))

LeftJoin(mb, opt) == IF opt = <<>> THEN <<mb>> ELSE MergeAll(mb, opt)

ValuesRow(vars, row) ==
  LET given == {i \in DOMAIN vars : row[i] # Nil}
  IN [v \in {vars[i] : i \in given} |-> row[CHOOSE i \in given : vars[i] = v]]

\* evalGraphPattern: GRAPH ranges over the named graphs only.
evalGraphPattern(c, p) ==
  LET names == Listing(DOMAIN c.named)
      Rows(n) == LET b == p[2][2] :> n
                 IN MergeAll(b, Eval("evalPatternWithBindings", c, c.named[n], p[3], b))
  IN IF IsVar(p[2]) THEN Concat([i \in DOMAIN names |-> Rows(names[i])])
     ELSE IF p[2] \in DOMAIN c.named THEN Eval("evalPattern", c, c.named[p[2]], p[3], Empty)
     ELSE <<>>

\* projectedBindings and subqueryPre: the initial bindings a subquery sees.
subqueryPre(c, q) ==
  LET scope == IF q.star THEN addInScopeVars(q.where) ELSE ToSet(q.vars)
  IN IF c.substitute THEN c.pre ELSE [v \in DOMAIN c.pre \intersect scope |-> c.pre[v]]

\* A nested evaluation shares everything but the initial bindings.
Subquery(c, g, q) ==
  LET inner == subqueryPre(c, q)
  IN Eval("evalQuery", [c EXCEPT !.pre = inner], g, q, inner)

evalPattern(c, g, p) ==
  CASE p[1] = "bgp" -> Eval("evalBGP", c, g, p[2], Empty)
    [] p[1] = "join" ->
         LET left == Eval("evalPattern", c, g, p[2], Empty)
         IN Concat([i \in DOMAIN left |-> MergeAll(left[i], Eval("evalPatternWithBindings", c, g, p[3], left[i]))])
    [] p[1] = "optional" ->
         LET main == Eval("evalPattern", c, g, p[2], Empty)
         IN Concat([i \in DOMAIN main |-> LeftJoin(main[i], optionalMatches(c, g, p[3], main[i], main[i]))])
    [] p[1] = "union" -> Eval("evalPattern", c, g, p[2], Empty) \o Eval("evalPattern", c, g, p[3], Empty)
    [] p[1] = "filter" ->
         SelectSeq(Eval("evalPattern", c, g, p[2], Empty), LAMBDA b : effectiveBooleanValue(Eval("evalExpr", c, g, p[3], b)))
    [] p[1] = "bind" ->
         LET rows == Eval("evalPattern", c, g, p[2], Empty)
         IN [i \in DOMAIN rows |-> BindRow(rows[i], p[4], Eval("evalExpr", c, g, p[3], rows[i]))]
    [] p[1] = "values" -> [i \in DOMAIN p[3] |-> ValuesRow(p[2], p[3][i])]
    [] p[1] = "minus" -> Subtract(Eval("evalPattern", c, g, p[2], Empty), Eval("evalPattern", c, g, p[3], Empty))
    [] p[1] = "graph" -> evalGraphPattern(c, p)
    [] p[1] = "subquery" -> Subquery(c, g, p[2])

\* evalPatternWithBindings: the row restricts the solutions and is not visible
\* to the expressions inside.
evalPatternWithBindings(c, g, p, b) ==
  IF p[1] = "bgp" THEN Eval("evalBGP", c, g, p[2], b)
  ELSE SelectSeq(Eval("evalPattern", c, g, p, Empty), LAMBDA r : isCompatible(b, r))

\* evalPatternPreBound: the bindings are constants, visible to expressions too.
evalPatternPreBound(c, g, p, pre) ==
  LET Value(e, b) == Eval("evalExpr", c, g, e, mergeBindings(pre, b))
      Inner(q) == Eval("evalPatternPreBound", c, g, q, pre)
  IN CASE p[1] = "bgp" -> Eval("evalBGP", c, g, p[2], pre)
       [] p[1] = "join" ->
            LET left  == Inner(p[2])
                right == Inner(p[3])
            IN Concat([i \in DOMAIN left |->
                         MergeAll(left[i], SelectSeq(right, LAMBDA r : isCompatible(left[i], r)))])
       [] p[1] = "optional" ->
            LET main == Inner(p[2])
            IN Concat([i \in DOMAIN main |->
                         LeftJoin(main[i], optionalMatches(c, g, p[3], main[i], mergeBindings(pre, main[i])))])
       [] p[1] = "union" -> Inner(p[2]) \o Inner(p[3])
       [] p[1] = "filter" -> SelectSeq(Inner(p[2]), LAMBDA b : effectiveBooleanValue(Value(p[3], b)))
       [] p[1] = "bind" ->
            LET rows == Inner(p[2])
            IN [i \in DOMAIN rows |-> BindRow(rows[i], p[4], Value(p[3], rows[i]))]
       [] p[1] = "minus" -> Subtract(Inner(p[2]), Eval("evalPattern", c, g, p[3], Empty))
       [] p[1] = "subquery" /\ subqueryPre(c, p[2]) # Empty ->
            SelectSeq(Subquery(c, g, p[2]), LAMBDA r : isCompatible(pre, r))
       [] OTHER -> Eval("evalPatternWithBindings", c, g, p, pre)

\* eachSolution: the solutions in the order a consumer that may stop gets them.
eachSolution(c, g, p) ==
  CASE p[1] = "bgp" -> Eval("evalBGP", c, g, p[2], Empty)
    [] p[1] = "join" ->
         LET left == Eval("eachSolution", c, g, p[2], Empty)
             Rows(lb) == IF p[3][1] = "bgp" THEN Eval("evalBGP", c, g, p[3][2], lb)
                         ELSE MergeAll(lb, Eval("evalPatternWithBindings", c, g, p[3], lb))
         IN Concat([i \in DOMAIN left |-> Rows(left[i])])
    [] p[1] = "optional" ->
         LET main == Eval("eachSolution", c, g, p[2], Empty)
             Rows(mb) == IF p[3][1] = "bgp"
                         THEN LET rows == Eval("evalBGP", c, g, p[3][2], mb) IN IF rows = <<>> THEN <<mb>> ELSE rows
                         ELSE LeftJoin(mb, optionalMatches(c, g, p[3], mb, mb))
         IN Concat([i \in DOMAIN main |-> Rows(main[i])])
    [] p[1] = "union" -> Eval("eachSolution", c, g, p[2], Empty) \o Eval("eachSolution", c, g, p[3], Empty)
    [] p[1] = "filter" ->
         SelectSeq(Eval("eachSolution", c, g, p[2], Empty), LAMBDA b : effectiveBooleanValue(Eval("evalExpr", c, g, p[3], b)))
    [] OTHER -> Eval("evalPattern", c, g, p, Empty)

\* addInScopeVars: the variables of SELECT *; MINUS adds none of its right side.
RECURSIVE addTermVars(_)
addTermVars(x) ==
  CASE IsVar(x) -> {x[2]}
    [] x[1] = "tt" -> UNION {addTermVars(x[i]) : i \in 2..4}
    [] OTHER -> {}

addInScopeVars(p) ==
  CASE p[1] = "bgp" -> UNION {addTermVars(p[2][i][j]) : i \in DOMAIN p[2], j \in 1..3}
    [] p[1] \in {"join", "optional", "union"} -> addInScopeVars(p[2]) \union addInScopeVars(p[3])
    [] p[1] \in {"minus", "filter"} -> addInScopeVars(p[2])
    [] p[1] = "bind" -> addInScopeVars(p[2]) \union {p[4]}
    [] p[1] = "values" -> ToSet(p[2])
    [] p[1] = "graph" -> addTermVars(p[2]) \union addInScopeVars(p[3])
    [] p[1] = "subquery" -> IF p[2].star THEN addInScopeVars(p[2].where) ELSE ToSet(p[2].vars)

-----------------------------------------------------------------------------
(* Pushing work down to the store *)

\* extractSimpleBGP and buildStorePattern: the one triple pattern of a query
\* that a store can answer, its variables as wildcards.
SimpleBGP(p) ==
  /\ p[1] = "bgp"
  /\ Len(p[2]) = 1
  /\ ~IsPath(p[2][1])
  /\ ~tripleTermHasVariables(p[2][1][1])
  /\ ~tripleTermHasVariables(p[2][1][3])

StoreMatches(g, tp) ==
  LET s == resolvePatternTerm(tp[1], Empty)
      p == resolvePatternTerm(tp[2], Empty)
  IN Scan(g, IF IsSubject(s) THEN s ELSE Nil, IF p[1] = "iri" THEN p ELSE Nil,
          resolvePatternTerm(tp[3], Empty))

Pushes(c, q) == "queryable" \in c.store /\ SimpleBGP(q.where)

\* The row of a triple: the last position of a variable wins.
StoreRow(tp, t) ==
  LET at == {i \in 1..3 : IsVar(tp[i])}
      Latest(v) == CHOOSE i \in at : tp[i][2] = v /\ \A j \in at : tp[j][2] = v => j <= i
  IN [v \in {tp[i][2] : i \in at} |-> t[Latest(v)]]

-----------------------------------------------------------------------------
(* Queries: the steps of evalQuery and evalSelect, in their order *)

RECURSIVE containsAggregate(_)
containsAggregate(e) ==
  CASE e[1] = "agg" -> TRUE
    [] e[1] = "fn" -> \E i \in DOMAIN e[3] : containsAggregate(e[3][i])
    [] e[1] = "op2" -> containsAggregate(e[3]) \/ containsAggregate(e[4])
    [] e[1] = "op1" -> containsAggregate(e[3])
    [] OTHER -> FALSE

hasAggregates(q) == \E i \in DOMAIN q.exprs : containsAggregate(q.exprs[i].e)

Grouped(q) == q.groupBy # <<>> \/ hasAggregates(q)

\* pushdownLimit: how many solutions the query can use, 0 for all of them.
pushdownLimit(q) ==
  IF q.type = "ASK" THEN 1
  ELSE IF q.limit <= 0 \/ q.orderBy # <<>> \/ q.distinct \/ Grouped(q) \/ q.having # Nil THEN 0
  ELSE q.offset + q.limit

Prefix(rows, n) == IF n < Len(rows) THEN SubSeq(rows, 1, n) ELSE rows

\* The solutions of the WHERE clause.
whereRows(c, g, q, init) ==
  LET pre == Eval("evalPatternPreBound", c, g, q.where, init)
      n   == pushdownLimit(q)
  IN IF init # Empty THEN [i \in DOMAIN pre |-> pre[i] @@ init]
     ELSE IF n > 0 THEN Prefix(Eval("eachSolution", c, g, q.where, Empty), n)
     ELSE Eval("evalPattern", c, g, q.where, Empty)

RECURSIVE FoldTerms(_, _, _)
FoldTerms(op, acc, vals) ==
  IF vals = <<>> THEN acc
  ELSE LET v == Head(vals)
           next == CASE op = "SUM" -> arithmetic("+", acc, v)
                     [] op = "MIN" -> IF compareTermValues(v, acc) < 0 THEN v ELSE acc
                     [] op = "MAX" -> IF compareTermValues(v, acc) > 0 THEN v ELSE acc
       IN FoldTerms(op, next, Tail(vals))

RECURSIVE Dedup(_, _)
Dedup(s, seen) ==
  IF s = <<>> THEN <<>>
  ELSE IF Head(s) \in seen THEN Dedup(Tail(s), seen)
  ELSE <<Head(s)>> \o Dedup(Tail(s), seen \union {Head(s)})

\* evalAggregateWithGraph: errors are left out, but a value that is no number
\* makes SUM an error.
evalAggregate(c, g, e, group) ==
  LET all   == [i \in DOMAIN group |-> Eval("evalExpr", c, g, e[3], group[i])]
      some  == SelectSeq(all, LAMBDA v : v # Nil)
      rows  == IF e[4] THEN Dedup(group, {}) ELSE group
      vals  == IF e[4] THEN Dedup(some, {}) ELSE some
  IN CASE e[2] = "COUNT" -> <<"num", IF e[5] THEN Len(rows) ELSE Len(vals)>>
       [] e[2] = "SUM" -> IF \E i \in DOMAIN some : ~IsNumeric(some[i]) THEN Nil
                          ELSE FoldTerms("SUM", <<"num", 0>>, vals)
       [] e[2] \in {"MIN", "MAX"} -> IF vals = <<>> THEN Nil ELSE FoldTerms(e[2], Head(vals), Tail(vals))
       [] e[2] = "SAMPLE" -> IF vals = <<>> THEN Nil ELSE Head(vals)

\* evalAggExprWithGraph: what is no aggregate sees the group's first solution.
evalAggExpr(c, g, e, group) ==
  CASE e[1] = "agg" -> evalAggregate(c, g, e, group)
    [] e[1] = "op2" -> evalBinaryOp(e[2], Eval("evalAggExpr", c, g, e[3], group), Eval("evalAggExpr", c, g, e[4], group))
    [] e[1] = "op1" -> evalUnaryOp(e[2], Eval("evalAggExpr", c, g, e[3], group))
    [] e[1] = "c" -> e[2]
    [] e[1] = "exists" -> Eval("evalExpr", c, g, e, IF group = <<>> THEN Empty ELSE group[1])
    [] OTHER -> IF group = <<>> THEN Nil
                ELSE IF e[1] = "v" THEN (IF Bound(group[1], e[2]) THEN group[1][e[2]] ELSE Nil)
                ELSE Eval("evalExpr", c, g, e, group[1])

\* countsPatternRows: COUNT of the store's matches, never under initial bindings.
CountPushed(c, q) ==
  /\ q.groupBy = <<>> /\ Len(q.exprs) = 1 /\ c.pre = Empty /\ Pushes(c, q)
  /\ LET e == q.exprs[1].e
     IN /\ e[1] = "agg" /\ e[2] = "COUNT" /\ ~e[4]
        /\ \/ e[5]
           \/ e[3][1] = "v" /\ \E i \in 1..3 : q.where[2][1][i] = <<"var", e[3][2]>>

\* evalAggregation: one row per group that HAVING keeps, groups in the order of
\* their first solution, and one empty group for no solutions at all.
aggregated(c, g, q, rows) ==
  LET Key(b) == [i \in DOMAIN q.groupBy |-> Eval("evalExpr", c, g, q.groupBy[i].e, b)]
      keys   == IF rows = <<>> /\ hasAggregates(q) /\ q.groupBy = <<>> THEN <<<<>>>>
                ELSE Dedup([i \in DOMAIN rows |-> Key(rows[i])], {})
      Members(k) == SelectSeq(rows, LAMBDA b : Key(b) = k)
      Names(i)  == ({q.groupBy[i].alias} \union IF q.groupBy[i].e[1] = "v" THEN {q.groupBy[i].e[2]} ELSE {}) \ {""}
      KeyRow(k) == LET at == {i \in DOMAIN k : k[i] # Nil}
                   IN [v \in UNION {Names(i) : i \in at} |-> k[CHOOSE i \in at : v \in Names(i)]]
      Row(k)    == LET vals == [i \in DOMAIN q.exprs |-> Eval("evalAggExpr", c, g, q.exprs[i].e, Members(k))]
                       at   == {i \in DOMAIN vals : vals[i] # Nil}
                   IN [v \in {q.exprs[i].v : i \in at} |-> vals[CHOOSE i \in at : q.exprs[i].v = v]] @@ KeyRow(k)
      kept == SelectSeq(keys, LAMBDA k :
                q.having = Nil \/ effectiveBooleanValue(Eval("evalAggExpr", c, g, q.having, Members(k))))
  IN IF ~Grouped(q) THEN rows
     ELSE IF CountPushed(c, q) THEN <<q.exprs[1].v :> <<"num", Len(StoreMatches(g, q.where[2][1]))>>>>
     ELSE [i \in DOMAIN kept |-> Row(kept[i])]

\* The projection expressions, each of which sees the ones before it.
projectExprs(c, g, q, rows) ==
  LET RECURSIVE Each(_, _)
      Each(i, b) == IF i > Len(q.exprs) THEN b
                    ELSE Each(i + 1, BindRow(b, q.exprs[i].v, Eval("evalExpr", c, g, q.exprs[i].e, b)))
  IN [i \in DOMAIN rows |-> Each(1, rows[i])]

\* The comparison of ORDER BY, and slices.SortFunc, which sorts so few rows by
\* insertion.
compareRows(c, g, q, a, b) ==
  LET C(i) == LET x == compareTermValues(Eval("evalExpr", c, g, q.orderBy[i].e, a), Eval("evalExpr", c, g, q.orderBy[i].e, b))
              IN IF q.orderBy[i].desc THEN -x ELSE x
      apart == {i \in DOMAIN q.orderBy : C(i) # 0}
  IN IF apart = {} THEN 0 ELSE C(CHOOSE i \in apart : \A j \in apart : i <= j)

RECURSIVE InsertRow(_, _, _, _, _)
InsertRow(c, g, q, sorted, b) ==
  IF sorted = <<>> THEN <<b>>
  ELSE IF Eval("compareRows", c, g, q, <<b, sorted[Len(sorted)]>>) < 0
  THEN InsertRow(c, g, q, Front(sorted), b) \o <<sorted[Len(sorted)]>>
  ELSE Append(sorted, b)

RECURSIVE Sorted(_, _, _, _, _)
Sorted(c, g, q, sorted, rows) ==
  IF rows = <<>> THEN sorted
  ELSE Sorted(c, g, q, InsertRow(c, g, q, sorted, Head(rows)), Tail(rows))

sortSolutions(c, g, q, rows) == IF q.orderBy = <<>> THEN rows ELSE Sorted(c, g, q, <<>>, rows)

\* DISTINCT compares the projected variables, before the projection.
solutionKey(b, q) == IF q.star THEN b ELSE [v \in DOMAIN b \intersect ToSet(q.vars) |-> b[v]]

distinctRows(q, rows) ==
  LET keys == [i \in DOMAIN rows |-> solutionKey(rows[i], q)]
      new  == SelectSeq([i \in DOMAIN rows |-> i], LAMBDA i : \A j \in 1..(i - 1) : keys[j] # keys[i])
  IN IF q.distinct THEN [i \in DOMAIN new |-> rows[new[i]]] ELSE rows

Slice(rows, offset, limit) ==
  LET rest == IF offset >= Len(rows) THEN <<>> ELSE SubSeq(rows, offset + 1, Len(rows))
  IN IF limit >= 0 THEN Prefix(rest, limit) ELSE rest

\* LIMIT and OFFSET of a query of one pattern are the store's to apply: the
\* rows are read again, and a limit of 0 is none.
LimitPushed(c, q) ==
  /\ q.limit >= 0 \/ q.offset > 0
  /\ q.orderBy = <<>> /\ ~q.distinct /\ ~Grouped(q) /\ q.exprs = <<>>
  /\ Pushes(c, q)

sliced(c, g, q, rows) ==
  LET tp  == q.where[2][1]
      all == StoreMatches(g, tp)
      cut == Slice(all, q.offset, IF q.limit <= 0 THEN -1 ELSE q.limit)
  IN IF LimitPushed(c, q) THEN [i \in DOMAIN cut |-> StoreRow(tp, cut[i])]
     ELSE Slice(rows, q.offset, q.limit)

\* selectStarVars and the projection; a variable the parser made is left out.
projectVars(q, rows) ==
  LET vars == IF ~q.star THEN ToSet(q.vars)
              ELSE (addInScopeVars(q.where) \union UNION {DOMAIN rows[i] : i \in DOMAIN rows}) \ Internal
  IN [i \in DOMAIN rows |-> [v \in DOMAIN rows[i] \intersect vars |-> rows[i][v]]]

evalSelect(c, g, q, solutions) ==
  LET made    == Eval("projectExprs", c, g, q, Eval("aggregated", c, g, q, solutions))
      uniques == distinctRows(q, Eval("sortSolutions", c, g, q, made))
  IN projectVars(q, sliced(c, g, q, uniques))

\* evalQuery, for the SELECT of a subquery.
evalQuery(c, g, q, init) == evalSelect(c, g, q, Eval("whereRows", c, g, q, init))

Eval(f, c, g, x, b) ==
  CASE f = "evalBGP" -> evalBGP(c, g, x, b)
    [] f = "evalExpr" -> evalExpr(c, g, x, b)
    [] f = "evalPattern" -> evalPattern(c, g, x)
    [] f = "evalPatternWithBindings" -> evalPatternWithBindings(c, g, x, b)
    [] f = "evalPatternPreBound" -> evalPatternPreBound(c, g, x, b)
    [] f = "eachSolution" -> eachSolution(c, g, x)
    [] f = "whereRows" -> whereRows(c, g, x, b)
    [] f = "evalAggExpr" -> evalAggExpr(c, g, x, b)
    [] f = "aggregated" -> aggregated(c, g, x, b)
    [] f = "projectExprs" -> projectExprs(c, g, x, b)
    [] f = "compareRows" -> compareRows(c, g, x, b[1], b[2])
    [] f = "sortSolutions" -> sortSolutions(c, g, x, b)
    [] f = "evalQuery" -> evalQuery(c, g, x, b)

\* ASK: the store is asked when it can answer.
askResult(c, g, q, solutions) ==
  IF Pushes(c, q) THEN StoreMatches(g, q.where[2][1]) # <<>> ELSE solutions # <<>>

\* resolveTemplateValue and evalConstruct: the blank nodes of the template are
\* fresh for each solution; a triple that cannot be is left out.
TemplateValue(x, b, i) ==
  CASE x[1] = "bn" -> <<"bn", 100 * i + x[2]>>
    [] IsVar(x) /\ x[2] \in Internal /\ ~Bound(b, x[2]) -> <<"bn", 100 * i>>
    [] OTHER -> resolvePatternTerm(x, b)

\* CONSTRUCT WHERE: the template is the pattern.
RECURSIVE extractTemplateFromPattern(_)
extractTemplateFromPattern(p) ==
  CASE p[1] = "bgp" -> p[2]
    [] p[1] = "join" -> extractTemplateFromPattern(p[2]) \o extractTemplateFromPattern(p[3])
    [] OTHER -> <<>>

evalConstruct(q, rows) ==
  LET Made(i) == {<<TemplateValue(t[1], rows[i], i), TemplateValue(t[2], rows[i], i), TemplateValue(t[3], rows[i], i)>>
                    : t \in ToSet(IF q.construct = <<>> THEN extractTemplateFromPattern(q.where) ELSE q.construct)}
  IN {t \in UNION {Made(i) : i \in DOMAIN rows} :
        Nil \notin {t[1], t[2], t[3]} /\ IsSubject(t[1]) /\ t[2][1] = "iri"}

\* applyDatasetClause: FROM merges graphs into the default graph, FROM NAMED
\* keeps the graphs it names that exist.
applyDatasetClause(g, named, q) ==
  LET from  == {d.iri : d \in {x \in ToSet(q.dataset) : ~x.named}} \intersect DOMAIN named
      kept  == {d.iri : d \in {x \in ToSet(q.dataset) : x.named}} \intersect DOMAIN named
      merge == Listing(UNION {ToSet(named[n]) : n \in from})
  IN IF q.dataset = <<>> THEN [g |-> g, named |-> named]
     ELSE [g |-> merge, named |-> [n \in kept |-> named[n]]]

=============================================================================
