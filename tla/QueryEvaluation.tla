-------------------------- MODULE QueryEvaluation ---------------------------
(***************************************************************************)
(* What a SPARQL query means: the bottom-up algebra of the SPARQL 1.1         *)
(* recommendation over bags of solutions, written without the evaluator's     *)
(* nested loops, join order, streaming or pushdown.  A bag is a sequence of   *)
(* which only the multiplicities count.  env holds the values substituted     *)
(* into a pattern: the initial bindings, or the row EXISTS is evaluated for.  *)
(***************************************************************************)
EXTENDS QueryPatterns

Times(x, s) == Cardinality({i \in DOMAIN s : s[i] = x})

WithinBag(s, t) == \A i \in DOMAIN s : Times(s[i], s) <= Times(s[i], t)

SameBag(s, t) == Len(s) = Len(t) /\ WithinBag(s, t)

JoinBags(l, r) ==
  Concat([i \in DOMAIN l |-> LET fits == SelectSeq(r, LAMBDA b : Agree(l[i], b))
                             IN [j \in DOMAIN fits |-> fits[j] @@ l[i]]])

-----------------------------------------------------------------------------
(* Paths, as relations *)

Compose(r, s) == {<<x[1], y[2]>> : <<x, y>> \in {z \in r \X s : z[1][2] = z[2][1]}}

RECURSIVE Closure(_)
Closure(r) == LET more == r \union Compose(r, r) IN IF more = r THEN r ELSE Closure(more)

\* The pairs of a path, N being the nodes a path of length zero relates.
RECURSIVE PathPairs(_, _, _)
PathPairs(g, N, p) ==
  CASE p[1] = "iri" -> Pairs(SelectSeq(g, LAMBDA t : t[2] = p))
    [] p[1] = "neg" -> Pairs(SelectSeq(g, LAMBDA t : t[2] \notin p[2]))
    [] p[1] = "inv" -> LET r == PathPairs(g, N, p[2]) IN [i \in DOMAIN r |-> <<r[i][2], r[i][1]>>]
    [] p[1] = "alt" -> Concat([i \in DOMAIN p[2] |-> PathPairs(g, N, p[2][i])])
    [] p[1] = "seq" ->
         IF Len(p[2]) = 1 THEN PathPairs(g, N, p[2][1])
         ELSE LET l == PathPairs(g, N, p[2][1])
                  r == PathPairs(g, N, <<"seq", Tail(p[2])>>)
                  After(x) == LET ys == SelectSeq(r, LAMBDA y : y[1] = x[2])
                              IN [j \in DOMAIN ys |-> <<x[1], ys[j][2]>>]
              IN Concat([i \in DOMAIN l |-> After(l[i])])
    [] p[1] = "mul" ->
         LET once == ToSet(PathPairs(g, N, p[2]))
         IN Listing((IF p[4] THEN Closure(once) ELSE once)
                    \union (IF p[3] THEN {<<n, n>> : n \in N} ELSE {}))

-----------------------------------------------------------------------------
(* Basic graph patterns: every pattern on its own, then the join *)

RECURSIVE Unify(_, _)
Unify(x, t) ==
  CASE IsVar(x) -> <<x[2] :> t>>
    [] tripleTermHasVariables(x) ->
         IF t[1] # "tt" THEN <<>>
         ELSE JoinBags(JoinBags(Unify(x[2], t[2]), Unify(x[3], t[3])), Unify(x[4], t[4]))
    [] OTHER -> IF x = t THEN <<Empty>> ELSE <<>>

TripleSolutions(g, tp, env) ==
  LET ends   == {e \in {tp[1], tp[3]} : ~IsVar(e)}
                  \union {env[e[2]] : e \in {x \in {tp[1], tp[3]} : IsVar(x) /\ Bound(env, x[2])}}
      paths  == PathPairs(g, ToSet(AllNodes(g)) \union ends, tp[2][2])
      Of(i)  == IF IsPath(tp) THEN JoinBags(Unify(tp[1], paths[i][1]), Unify(tp[3], paths[i][2]))
                ELSE JoinBags(JoinBags(Unify(tp[1], g[i][1]), Unify(tp[2], g[i][2])), Unify(tp[3], g[i][3]))
  IN Concat([i \in DOMAIN (IF IsPath(tp) THEN paths ELSE g) |-> Of(i)])

RECURSIVE RefBGP(_, _, _)
RefBGP(g, triples, env) ==
  IF triples = <<>> THEN <<env>>
  ELSE JoinBags(RefBGP(g, Front(triples), env), TripleSolutions(g, triples[Len(triples)], env))

-----------------------------------------------------------------------------
(* Expressions and patterns *)

\* The meaning of an expression, a pattern or a query x calls on the others'.
RECURSIVE Ref(_, _, _, _, _)

\* An error may turn out to be either truth value: the connective is an error
\* when that matters.
Connective(op, l, r) ==
  LET May(t) == IF ebv(t) = "error" THEN {TRUE, FALSE} ELSE {ebv(t) = "true"}
      outcomes == {IF op = "&&" THEN x /\ y ELSE x \/ y : x \in May(l), y \in May(r)}
  IN IF Cardinality(outcomes) = 1 THEN BooleanTerm(TRUE \in outcomes) ELSE Nil

RefExpr(c, g, e, b) ==
  CASE e[1] = "op2" /\ e[2] \in {"&&", "||"} -> Connective(e[2], Ref("RefExpr", c, g, e[3], b), Ref("RefExpr", c, g, e[4], b))
    [] e[1] = "op2" /\ e[2] \notin {"&&", "||"} -> evalBinaryOp(e[2], Ref("RefExpr", c, g, e[3], b), Ref("RefExpr", c, g, e[4], b))
    [] e[1] = "op1" -> evalUnaryOp(e[2], Ref("RefExpr", c, g, e[3], b))
    [] e[1] = "exists" -> BooleanTerm((Ref("RefPattern", c, g, e[2], b @@ c.pre) # <<>>) # e[3])
    [] OTHER -> Eval("evalExpr", c, g, e, b)

RefHolds(c, g, e, b) == ebv(Ref("RefExpr", c, g, e, b)) = "true"

\* The rows of a left join: those that fit and meet the conditions, or the left
\* row alone.
RefLeftJoin(c, g, l, r, conds, env) ==
  LET Fits(b) == SelectSeq(r, LAMBDA x : Agree(b, x) /\ \A k \in DOMAIN conds : RefHolds(c, g, conds[k], (x @@ b) @@ env))
  IN Concat([i \in DOMAIN l |-> LET f == Fits(l[i])
                                IN IF f = <<>> THEN <<l[i]>> ELSE [j \in DOMAIN f |-> f[j] @@ l[i]]])

RefPattern(c, g, p, env) ==
  LET In(x) == Ref("RefPattern", c, g, x, env)
      Restricted(rows) == SelectSeq(rows, LAMBDA b : Agree(b, env))
  IN CASE p[1] = "bgp" -> RefBGP(g, p[2], env)
       [] p[1] = "join" -> JoinBags(In(p[2]), In(p[3]))
       [] p[1] = "optional" -> RefLeftJoin(c, g, In(p[2]), In(Core(p[3])), Conditions(p[3]), env)
       [] p[1] = "union" -> In(p[2]) \o In(p[3])
       [] p[1] = "filter" -> SelectSeq(In(p[2]), LAMBDA b : RefHolds(c, g, p[3], b @@ env))
       [] p[1] = "bind" -> LET rows == In(p[2])
                           IN [i \in DOMAIN rows |-> BindRow(rows[i], p[4], Ref("RefExpr", c, g, p[3], rows[i] @@ env))]
       [] p[1] = "values" -> Restricted([i \in DOMAIN p[3] |-> ValuesRow(p[2], p[3][i])])
       [] p[1] = "minus" ->
            LET r == Ref("RefPattern", c, g, p[3], Empty)
            IN SelectSeq(In(p[2]), LAMBDA b :
                 \A i \in DOMAIN r : DOMAIN b \intersect DOMAIN r[i] = {}
                                     \/ \E v \in DOMAIN b \intersect DOMAIN r[i] : b[v] # r[i][v])
       [] p[1] = "graph" ->
            LET names == IF IsVar(p[2]) THEN Listing(DOMAIN c.named)
                         ELSE SelectSeq(<<p[2]>>, LAMBDA n : n \in DOMAIN c.named)
                At(n) == JoinBags(Unify(p[2], n), Ref("RefPattern", c, c.named[n], p[3], Empty))
            IN Restricted(Concat([i \in DOMAIN names |-> At(names[i])]))
       [] p[1] = "subquery" ->
            Restricted(Ref("RefSelect", [c EXCEPT !.pre = subqueryPre(c, p[2])], g, p[2], subqueryPre(c, p[2])))

-----------------------------------------------------------------------------
(* Queries *)

RefValues(c, g, e, members, distinct) ==
  LET vals == SelectSeq([i \in DOMAIN members |-> Ref("RefExpr", c, g, e, members[i])], LAMBDA v : v # Nil)
  IN IF distinct THEN Listing(ToSet(vals)) ELSE vals

RECURSIVE Total(_)
Total(vals) == IF vals = <<>> THEN 0 ELSE Head(vals)[2] + Total(Tail(vals))

RefAggregate(c, g, e, members) ==
  LET vals == RefValues(c, g, e[3], members, e[4])
  IN CASE e[2] = "COUNT" /\ e[5] -> <<"num", IF e[4] THEN Cardinality(ToSet(members)) ELSE Len(members)>>
       [] e[2] = "COUNT" /\ ~e[5] -> <<"num", Len(vals)>>
       [] e[2] = "SUM" -> IF \E i \in DOMAIN vals : vals[i][1] # "num" THEN Nil ELSE <<"num", Total(vals)>>
       [] e[2] \in {"MIN", "MAX"} ->
            IF vals = <<>> THEN Nil
            ELSE CHOOSE v \in ToSet(vals) : \A w \in ToSet(vals) :
                   IF e[2] = "MIN" THEN compareTermValues(v, w) <= 0 ELSE compareTermValues(v, w) >= 0

RefGroupExpr(c, g, e, members) ==
  CASE e[1] = "agg" -> RefAggregate(c, g, e, members)
    [] e[1] = "op2" -> evalBinaryOp(e[2], Ref("RefGroupExpr", c, g, e[3], members), Ref("RefGroupExpr", c, g, e[4], members))
    [] OTHER -> IF members = <<>> THEN Nil ELSE Ref("RefExpr", c, g, e, members[1])

\* One row per group: the keys that are variables or have a name, and the
\* aggregates.
RefGroups(c, g, q, rows) ==
  LET Key(b) == [i \in DOMAIN q.groupBy |-> Ref("RefExpr", c, g, q.groupBy[i].e, b)]
      keys   == IF q.groupBy = <<>> THEN {<<>>} ELSE {Key(rows[i]) : i \in DOMAIN rows}
      Members(k) == SelectSeq(rows, LAMBDA b : Key(b) = k)
      Name(i) == IF q.groupBy[i].alias # "" THEN q.groupBy[i].alias ELSE q.groupBy[i].e[2]
      Row(k) == LET known == {i \in DOMAIN k : k[i] # Nil}
                    made  == {i \in DOMAIN q.exprs : Ref("RefGroupExpr", c, g, q.exprs[i].e, Members(k)) # Nil}
                IN [v \in {q.exprs[i].v : i \in made} |->
                      Ref("RefGroupExpr", c, g, q.exprs[CHOOSE i \in made : q.exprs[i].v = v].e, Members(k))]
                   @@ [v \in {Name(i) : i \in known} |-> k[CHOOSE i \in known : Name(i) = v]]
      kept == Listing({k \in keys : q.having = Nil
                                    \/ ebv(Ref("RefGroupExpr", c, g, q.having, Members(k))) = "true"})
  IN [i \in DOMAIN kept |-> Row(kept[i])]

RefExtended(c, g, q, rows) ==
  LET RECURSIVE Add(_, _)
      Add(i, b) == IF i > Len(q.exprs) THEN b
                   ELSE Add(i + 1, BindRow(b, q.exprs[i].v, Ref("RefExpr", c, g, q.exprs[i].e, b)))
  IN [i \in DOMAIN rows |-> Add(1, rows[i])]

\* Every row of the answer, before OFFSET and LIMIT.
RefMade(c, g, q, all) == IF Grouped(q) THEN RefGroups(c, g, q, all) ELSE RefExtended(c, g, q, all)

Under(env, all) == [i \in DOMAIN all |-> all[i] @@ env]

Keeping(names, all) == [i \in DOMAIN all |-> [v \in DOMAIN all[i] \intersect names |-> all[i][v]]]

RefDistinct(q, all) == IF q.distinct THEN Listing(ToSet(all)) ELSE all

RefSelect(c, g, q, env) ==
  RefDistinct(q,
    Keeping(IF q.star THEN (addInScopeVars(q.where) \union DOMAIN env) \ Internal ELSE ToSet(q.vars),
            RefMade(c, g, q, Under(env, Ref("RefPattern", c, g, q.where, env)))))

Ref(f, c, g, x, b) ==
  CASE f = "RefExpr" -> RefExpr(c, g, x, b)
    [] f = "RefPattern" -> RefPattern(c, g, x, b)
    [] f = "RefGroupExpr" -> RefGroupExpr(c, g, x, b)
    [] f = "RefSelect" -> RefSelect(c, g, x, b)

\* OFFSET and LIMIT leave a part of the right size.
SliceSize(n, q) ==
  LET rest == IF q.offset >= n THEN 0 ELSE n - q.offset
  IN IF q.limit >= 0 /\ q.limit < rest THEN q.limit ELSE rest

\* answer is what a SELECT may answer: the rows from OFFSET on, as many as LIMIT
\* allows, in an order the ORDER BY permits.
Between(n, ranks) == /\ Cardinality({i \in DOMAIN ranks : ranks[i] < 0}) < n
                     /\ n <= Cardinality({i \in DOMAIN ranks : ranks[i] <= 0})

RightRows(c, g, q, all, answer) ==
  /\ Len(answer) = SliceSize(Len(all), q)
  /\ WithinBag(answer, all)
  /\ q.orderBy # <<>> =>
       \A i \in DOMAIN answer :
          Between(q.offset + i, [k \in DOMAIN all |-> Eval("compareRows", c, g, q, <<all[k], answer[i]>>)])

\* A blank node of the template is known only by the solution it was made for.
Anonymous(t) == [i \in 1..3 |-> IF t[i][1] = "bn" /\ t[i][2] >= 100 THEN <<"fresh">> ELSE t[i]]

RightGraph(q, all, answer) ==
  LET Alike(t, ts) == Cardinality({u \in ts : Anonymous(u) = Anonymous(t)})
  IN /\ q.limit < 0 => \A t \in all \union answer : Alike(t, all) = Alike(t, answer)
     /\ \A t \in answer : Alike(t, answer) <= Alike(t, all)
-----------------------------------------------------------------------------
(***************************************************************************)
(* EvalQueryContext: one evaluation of one query, stage by stage, against     *)
(* stores that another client may write to, under a context that may be       *)
(* cancelled, a solution budget and stores that may fail.                     *)
(*                                                                           *)
(* The default graph and the named graphs may be on one store or on two       *)
(* ("apart"); a store with "snapshot" is read as of when its snapshot was     *)
(* opened.                                                                    *)
(***************************************************************************)
CONSTANTS Cases,      \* the queries evaluated, each with its initial bindings
          Datasets,   \* what the stores hold when the evaluation begins
          Writes,     \* what a writer may leave in them
          Stores      \* the optional interfaces the stores may implement

VARIABLES data,       \* what the stores hold
          case,       \* the query and its initial bindings
          kind,       \* the interfaces of the stores
          pinned,     \* the graphs read through a snapshot, as of the snapshot
          open,       \* the snapshots open
          scope,      \* the dataset a FROM clause built, or none
          stage,      \* what the evaluation does next
          rows,       \* the solutions so far
          cancelled,  \* the context is done
          err,        \* evalCtx.err
          written,    \* a writer has been at the stores
          result      \* what the call returned

vars == <<data, case, kind, pinned, open, scope, stage, rows, cancelled, err, written, result>>

NoAnswer == [answered |-> FALSE, rows |-> <<>>, yes |-> FALSE, graph |-> {}]

query == case.query

\* The graphs the evaluation reads now.
Source == [part \in {"def", "named"} |-> IF part \in DOMAIN pinned THEN pinned[part] ELSE data[part]]

Active == IF scope = <<>> THEN Source ELSE scope[1]

Context == [named |-> Active["named"], pre |-> case.init,
            substitute |-> query.substitute /\ case.init # Empty, store |-> IF scope = <<>> THEN kind
                                            ELSE {"cardinality", "queryable", "reachability"}]

Init ==
  /\ data \in Datasets
  /\ case \in Cases
  /\ kind \in Stores
  /\ pinned = Empty
  /\ open = {}
  /\ scope = <<>>
  /\ stage = "start"
  /\ rows = <<>>
  /\ cancelled = FALSE
  /\ err = ""
  /\ written = FALSE
  /\ result = NoAnswer

-----------------------------------------------------------------------------
(* The environment *)

Cancel ==
  /\ ~cancelled
  /\ stage # "done"
  /\ cancelled' = TRUE
  /\ UNCHANGED <<data, case, kind, pinned, open, scope, stage, rows, err, written, result>>

Write ==
  /\ ~written
  /\ stage # "done"
  /\ \E d \in Writes : data' = d /\ d # data
  /\ written' = TRUE
  /\ UNCHANGED <<case, kind, pinned, open, scope, stage, rows, cancelled, err, result>>

-----------------------------------------------------------------------------
(* The call *)

\* The deferred release and the return: an error never comes with a result.
Finish(e, answer) ==
  /\ stage' = "done"
  /\ open' = {}
  /\ err' = e
  /\ result' = IF e # "" THEN NoAnswer ELSE answer

Poll ==
  /\ stage = "start"
  /\ IF cancelled THEN Finish("cancelled", NoAnswer)
     ELSE stage' = "openDefault" /\ UNCHANGED <<open, err, result>>
  /\ UNCHANGED <<data, case, kind, pinned, scope, rows, cancelled, written>>

\* snapshotQueryGraphs: one snapshot per store, for all of its graphs.
OpenDefault ==
  /\ stage = "openDefault"
  /\ IF "snapshot" \in kind
     THEN /\ open' = {"def"}
          /\ pinned' = [part \in (IF "apart" \in kind THEN {"def"} ELSE {"def", "named"}) |-> data[part]]
     ELSE UNCHANGED <<open, pinned>>
  /\ stage' = IF "apart" \in kind THEN "openNamed" ELSE "dataset"
  /\ UNCHANGED <<data, case, kind, scope, rows, cancelled, err, written, result>>

OpenNamed ==
  /\ stage = "openNamed"
  /\ IF "snapshot" \in kind
     THEN open' = open \union {"named"} /\ pinned' = [part \in {"named"} |-> data[part]] @@ pinned
     ELSE UNCHANGED <<open, pinned>>
  /\ stage' = "dataset"
  /\ UNCHANGED <<data, case, kind, scope, rows, cancelled, err, written, result>>

\* The store refuses a snapshot: the ones already open are released.
OpenFails ==
  /\ stage \in {"openDefault", "openNamed"}
  /\ "snapshot" \in kind
  /\ Finish("store", NoAnswer)
  /\ UNCHANGED <<data, case, kind, pinned, scope, rows, cancelled, written>>

\* applyDatasetClause: the merge is a graph of its own, in memory.
Dataset ==
  /\ stage = "dataset"
  /\ LET made == applyDatasetClause(Source["def"], Source["named"], query)
     IN scope' = IF query.dataset = <<>> THEN <<>>
                 ELSE <<[part \in {"def", "named"} |-> IF part = "def" THEN made.g ELSE made.named]>>
  /\ stage' = "where"
  /\ UNCHANGED <<data, case, kind, pinned, open, rows, cancelled, err, written, result>>

\* One stage of evalQuery and evalSelect.
Stage(from, to, next) ==
  /\ stage = from
  /\ rows' = next
  /\ stage' = to
  /\ UNCHANGED <<data, case, kind, pinned, open, scope, cancelled, err, written, result>>

Where == Stage("where", "polled", Eval("whereRows", Context, Active["def"], query, case.init))

\* The poll after the WHERE clause, and the switch on the query's form.
Dispatch ==
  /\ stage = "polled"
  /\ IF cancelled THEN Finish("cancelled", NoAnswer)
     ELSE /\ stage' = CASE query.type = "SELECT" -> "group"
                        [] query.type = "ASK" -> "ask"
                        [] query.type = "CONSTRUCT" -> "order"
          /\ UNCHANGED <<open, err, result>>
  /\ UNCHANGED <<data, case, kind, pinned, scope, rows, cancelled, written>>

Group == Stage("group", "exprs", Eval("aggregated", Context, Active["def"], query, rows))

Exprs == Stage("exprs", "order", Eval("projectExprs", Context, Active["def"], query, rows))

Order == Stage("order", IF query.type = "SELECT" THEN "distinct" ELSE "construct",
               Eval("sortSolutions", Context, Active["def"], query, rows))

Distinct == Stage("distinct", "slice", distinctRows(query, rows))

SliceRows == Stage("slice", "project", sliced(Context, Active["def"], query, rows))

\* The returns of the three forms.
Answer(from, answer) ==
  /\ stage = from
  /\ Finish("", [answer EXCEPT !.answered = TRUE])
  /\ UNCHANGED <<data, case, kind, pinned, scope, rows, cancelled, written>>

Project == Answer("project", [NoAnswer EXCEPT !.rows = projectVars(query, rows)])

Ask == Answer("ask", [NoAnswer EXCEPT !.yes = askResult(Context, Active["def"], query, rows)])

Construct ==
  Answer("construct", [NoAnswer EXCEPT !.graph = evalConstruct(query, Slice(rows, query.offset, query.limit))])

\* A loop notices that it must end: the context is done, the budget is spent or
\* the store failed.  What was built is dropped.
Halt ==
  /\ stage \in {"dataset", "where", "group", "exprs", "order", "distinct", "slice", "project", "ask", "construct"}
  /\ \E e \in {"cancelled", "budget", "store"} :
       /\ e = "cancelled" => cancelled
       /\ e = "budget" => stage = "where"
       /\ Finish(e, NoAnswer)
  /\ UNCHANGED <<data, case, kind, pinned, scope, rows, cancelled, written>>

Next ==
  \/ Cancel \/ Write
  \/ Poll \/ OpenDefault \/ OpenNamed \/ OpenFails \/ Dataset
  \/ Where \/ Dispatch \/ Group \/ Exprs \/ Order \/ Distinct \/ SliceRows
  \/ Project \/ Ask \/ Construct \/ Halt

Spec == Init /\ [][Next]_vars

-----------------------------------------------------------------------------

\* The answer is right for what the evaluation read.  LIMIT, OFFSET and ASK of one
\* pattern are answered by a QueryableStore, from that pattern alone: the initial
\* bindings do not count, and LIMIT 0 is no limit (eval.go:80-88, 191-203).
Pushed == LimitPushed(Context, query) \/ (query.type = "ASK" /\ Pushes(Context, query))

Meaning(f, x) == Ref(f, Context, Active["def"], x, IF Pushed THEN Empty ELSE case.init)

Asked == IF Pushed /\ query.limit = 0 THEN [query EXCEPT !.limit = -1] ELSE query

\* A pattern that holds a variable twice binds it at the first place and matches
\* anything at the second, unless another pattern bound it before: answers are too
\* many, and how many depends on the join order, against bgp_order.go:12-14.
Repeats == /\ query.where[1] = "bgp"
           /\ \E i \in DOMAIN query.where[2] :
                LET tp == query.where[2][i] IN IsVar(tp[1]) /\ tp[1] = tp[3]

RightAnswer ==
  CASE query.type = "SELECT" /\ Repeats -> WithinBag(Meaning("RefSelect", query), result.rows)
    [] query.type = "SELECT" /\ ~Repeats ->
         RightRows(Context, Active["def"], Asked, Meaning("RefSelect", query), result.rows)
    [] query.type = "ASK" -> result.yes = (Meaning("RefPattern", query.where) # <<>>)
    [] query.type = "CONSTRUCT" ->
         RightGraph(query, evalConstruct(query, Meaning("RefPattern", query.where)), result.graph)

\* What EvalQueryContext promises: a call that returns no error returns all and
\* only the solutions the algebra gives, whatever the join order, the streaming
\* and the work pushed down to the store; all of them where a pattern repeats a
\* variable, and those of the pattern alone where Pushed.
AnswersExact == stage = "done" /\ ~written /\ err = "" => RightAnswer

\* snapshotQueryGraphs: "the whole evaluation reads from a single transaction".
\* The answer is the one for the stores as of the snapshots, however a writer's
\* commit falls among the reads of the WHERE clause, of a FROM clause and of a
\* LIMIT, COUNT or ASK pushed down.
AnswersAsOfSnapshot ==
  stage = "done" /\ written /\ "snapshot" \in kind /\ err = "" => RightAnswer

\* paths.go and store/reachability.go: the pairs of a path are those of the
\* relation it denotes, whichever end is bound, and whether a repetition is
\* pushed down to the store's own traversal or walked node by node.
PathsExact ==
  stage = "where" /\ query.where[1] = "bgp" =>
    \A i \in DOMAIN query.where[2] :
      LET tp   == query.where[2][i]
          g    == Active["def"]
          ends == {Nil} \union ToSet(AllNodes(g))
          Right(s, o) == SelectSeq(PathPairs(g, ToSet(AllNodes(g)), tp[2][2]),
                                   LAMBDA pair : Matches(s, pair[1]) /\ Matches(o, pair[2]))
      IN IsPath(tp) =>
           \A s \in {e \in ends : IsSubject(e)}, o \in {e \in ends : IsSubject(e)}, pushes \in BOOLEAN :
             SameBag(EvalPath(g, pushes, tp[2][2], s, o), Right(s, o))

\* limit.go: "The solutions are the ones evalPattern returns."  What a consumer
\* that may stop early is streamed is, when it does not stop, the whole.
StreamsSame ==
  stage = "where" =>
    SameBag(Eval("eachSolution", Context, Active["def"], query.where, Empty),
            Eval("evalPattern", Context, Active["def"], query.where, Empty))
=============================================================================
