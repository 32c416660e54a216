------------------------------ MODULE MCSparql ------------------------------
(***************************************************************************)
(* The SPARQL engine, one call per behaviour: a query (QueryEvaluation), an *)
(* update request (Update), or several goroutines at the cache of parsed   *)
(* queries (QueryCache). The variables of the first two are 0 when it is   *)
(* not their turn; the cache is then off.                                  *)
(***************************************************************************)
EXTENDS QueryEvaluation, QueryCache

CONSTANTS g1, g2, t1, t2, Triple, Graph, Default, Ops, MaxOps, MaxFaults   \* Update

VARIABLES which,
          setup, quads, named, mem, saved, pc, op, nops, todo, why, cerr, done, faults, old

update == <<setup, quads, named, mem, saved, pc, op, nops, todo, why, cerr, done, faults, old>>
all == <<which, vars, update, qcVars>>

Request == INSTANCE Update WITH err <- why
-----------------------------------------------------------------------------
(* Queries: small graphs over two nodes, two predicates and three literals,  *)
(* and queries that between them use every pattern, operator and solution    *)
(* modifier of the model.                                                    *)

a == <<"iri", 1>>
b == <<"iri", 2>>
p == <<"iri", 11>>
r == <<"iri", 12>>
n1 == <<"iri", 21>>
n2 == <<"iri", 22>>
one == <<"num", 1>>
two == <<"num", 2>>
word == <<"lit", 3>>
said == <<"tt", a, p, b>>

V(name) == <<"var", name>>
x == V("x")
y == V("y")
z == V("z")

T(s, q, o) == <<s, q, o>>
BGP(triples) == <<"bgp", triples>>
Path(s, path, o) == <<s, <<"path", path>>, o>>
E(name) == <<"v", name>>
K(t) == <<"c", t>>
Op(sym, l, e) == <<"op2", sym, l, e>>
Fn(name, args) == <<"fn", name, args>>
Exists(pattern) == <<"exists", pattern, FALSE>>
NotExists(pattern) == <<"exists", pattern, TRUE>>
Agg(name, e) == <<"agg", name, e, FALSE, FALSE>>

Select(where) ==
  [type |-> "SELECT", star |-> TRUE, vars |-> <<>>, exprs |-> <<>>, where |-> where, orderBy |-> <<>>,
   distinct |-> FALSE, limit |-> -1, offset |-> 0, groupBy |-> <<>>, having |-> Nil, construct |-> <<>>,
   dataset |-> <<>>, substitute |-> FALSE]

Of(where, names) == [Select(where) EXCEPT !.star = FALSE, !.vars = names]
As(e, name) == [e |-> e, v |-> name]
Key(e) == [e |-> e, alias |-> ""]
Asc(e) == [e |-> e, desc |-> FALSE]
Desc(e) == [e |-> e, desc |-> TRUE]

Edges == BGP(<<T(x, p, y)>>)
Values == BGP(<<T(x, r, z)>>)
Chain == BGP(<<T(x, p, y), T(y, p, z)>>)
Star(path, zero, more) == <<"mul", path, zero, more>>

\* The graph patterns, each evaluated as SELECT *.
Patterns ==
  { Edges, Chain,
    BGP(<<T(x, p, y), T(x, r, z), T(y, r, V("w"))>>),
    BGP(<<T(x, V("q"), a), T(b, V("q"), y)>>),
    BGP(<<T(x, r, z), T(z, p, y)>>),
    BGP(<<T(x, p, <<"tt", a, p, y>>), T(x, p, y)>>),
    BGP(<<T(x, p, x)>>), BGP(<<T(x, p, x), T(x, r, z)>>),
    <<"join", Edges, Values>>,
    <<"join", <<"union", Edges, Values>>, <<"values", <<"x", "z">>, <<<<a, one>>, <<b, Nil>>>>>>>>,
    <<"join", <<"bind", Values, Op("+", E("z"), K(one)), "w">>, <<"filter", Values, Op("<", E("z"), E("w"))>>>>,
    <<"optional", Edges, Values>>,
    <<"optional", Edges, <<"filter", BGP(<<T(y, r, z)>>), Op("||", Op("=", E("x"), K(a)), Op("<", E("z"), K(two)))>>>>,
    <<"optional", <<"optional", Edges, Values>>, <<"filter", <<"join", BGP(<<T(y, r, V("w"))>>), BGP(<<T(y, p, x)>>)>>,
                                                              Op("=", E("w"), E("z"))>>>>,
    <<"filter", Values, Op("&&", Op(">", E("z"), K(one)), Fn("BOUND", <<E("x")>>))>>,
    <<"filter", Values, <<"op1", "!", Op("=", E("z"), K(one))>>>>,
    <<"filter", Edges, Exists(<<"filter", BGP(<<T(y, r, z)>>), Op("!=", E("x"), E("y"))>>)>>,
    <<"filter", Edges, NotExists(<<"minus", BGP(<<T(y, p, V("u"))>>), BGP(<<T(V("u"), r, one)>>)>>)>>,
    <<"filter", <<"optional", Edges, Values>>, Op("=", Fn("COALESCE", <<E("z"), K(one)>>), K(one))>>,
    <<"bind", <<"optional", Edges, Values>>,
              Fn("IF", <<Fn("ISNUMERIC", <<E("z")>>), Op("-", E("z"), K(one)), K(word)>>), "w">>,
    <<"minus", Edges, BGP(<<T(x, r, one)>>)>>,
    <<"minus", Edges, BGP(<<T(V("u"), r, V("w"))>>)>>,
    <<"minus", <<"optional", Edges, Values>>, <<"values", <<"x", "z">>, <<<<a, Nil>>, <<b, two>>>>>>>>,
    <<"graph", V("g"), Edges>>,
    <<"join", <<"graph", V("g"), Edges>>, <<"graph", n1, BGP(<<T(y, V("q"), z)>>)>>>>,
    <<"join", <<"subquery", [Of(Chain, <<"x", "z">>) EXCEPT !.distinct = TRUE]>>, Values>>,
    <<"join", Values, <<"subquery", [Of(Edges, <<"x", "n">>) EXCEPT !.exprs = <<As(Agg("COUNT", E("y")), "n")>>,
                                                                  !.groupBy = <<Key(E("x"))>>]>>>> }

Paths ==
  { Star(p, FALSE, TRUE), Star(p, TRUE, TRUE), Star(p, TRUE, FALSE), Star(<<"inv", p>>, FALSE, TRUE),
    Star(<<"alt", <<p, r>>>>, FALSE, TRUE), Star(<<"neg", {r}>>, FALSE, TRUE), Star(<<"seq", <<p, p>>>>, FALSE, TRUE),
    <<"seq", <<Star(p, TRUE, FALSE), r>>>>, <<"alt", <<p, <<"inv", p>>>>>>, <<"neg", {p}>>, <<"inv", <<"seq", <<p, p>>>>>> }

PathPatterns ==
  UNION {{BGP(<<Path(x, path, y)>>), BGP(<<Path(a, path, y)>>), BGP(<<Path(x, path, b)>>),
          BGP(<<Path(a, path, b), T(x, p, y)>>), BGP(<<T(x, p, y), Path(y, path, x)>>)} : path \in Paths}

Modified ==
  { [Of(Edges, <<"y">>) EXCEPT !.distinct = TRUE],
    [Of(Values, <<"x", "z">>) EXCEPT !.orderBy = <<Desc(E("z")), Asc(E("x"))>>, !.offset = 1],
    [Of(<<"union", Edges, Values>>, <<"z", "x">>) EXCEPT !.orderBy = <<Asc(E("z"))>>, !.limit = 2],
    [Select(Edges) EXCEPT !.limit = 1],
    [Select(Edges) EXCEPT !.limit = 1, !.offset = 1],
    [Select(Edges) EXCEPT !.offset = 1],
    [Select(Edges) EXCEPT !.limit = 0],
    [Select(Chain) EXCEPT !.limit = 0],
    [Select(<<"optional", Edges, Values>>) EXCEPT !.limit = 2],
    [Select(<<"union", Chain, Values>>) EXCEPT !.limit = 2, !.offset = 1],
    [Of(Values, <<"x", "w">>) EXCEPT !.exprs = <<As(Op("*", E("z"), K(two)), "w"), As(Op("+", E("w"), K(one)), "u")>>],
    [Of(Edges, <<"n">>) EXCEPT !.exprs = <<As(<<"agg", "COUNT", E("x"), FALSE, TRUE>>, "n")>>],
    [Of(Edges, <<"n">>) EXCEPT !.exprs = <<As(Agg("COUNT", E("y")), "n")>>],
    [Of(Edges, <<"n">>) EXCEPT !.exprs = <<As(Agg("COUNT", E("z")), "n")>>],
    [Of(Edges, <<"n">>) EXCEPT !.exprs = <<As(<<"agg", "COUNT", E("y"), TRUE, FALSE>>, "n")>>],
    [Of(<<"filter", Values, Fn("ISNUMERIC", <<E("z")>>)>>, <<"n", "m", "l">>)
       EXCEPT !.exprs = <<As(Agg("SUM", E("z")), "n"), As(Agg("MIN", E("z")), "m"), As(Agg("MAX", E("z")), "l")>>],
    [Of(Values, <<"x", "n">>)
       EXCEPT !.exprs = <<As(Agg("SUM", E("z")), "n")>>, !.groupBy = <<Key(E("x"))>>,
              !.having = Op(">", Agg("COUNT", E("z")), K(one))] }

Asks == {[Select(where) EXCEPT !.type = "ASK"] : where \in {BGP(<<T(a, p, b)>>), Chain, <<"minus", Edges, Values>>}}

Constructs ==
  { [Select(Edges) EXCEPT !.type = "CONSTRUCT", !.construct = <<T(y, p, x), T(<<"bn", 1>>, r, x)>>],
    [Select(Values) EXCEPT !.type = "CONSTRUCT", !.construct = <<T(z, p, x), T(x, p, V("u")), T(x, r, V(".b"))>>],
    [Select(Edges) EXCEPT !.type = "CONSTRUCT", !.construct = <<T(x, p, y)>>, !.limit = 1],
    [Select(<<"join", Edges, Values>>) EXCEPT !.type = "CONSTRUCT"] }

From(where) ==
  [Select(where) EXCEPT !.dataset = <<[iri |-> n1, named |-> FALSE], [iri |-> n2, named |-> FALSE],
                                      [iri |-> n2, named |-> TRUE], [iri |-> n1, named |-> FALSE]>>]

Plain(qs) == {[query |-> q, init |-> Empty] : q \in qs}

\* Initial bindings, with and without their substitution into subqueries.
Bound1 ==
  {[query |-> Select(where), init |-> "x" :> a] : where \in
     { Chain, <<"join", Edges, Values>>, <<"optional", Edges, Values>>,
       <<"filter", BGP(<<T(y, p, z)>>), Op("=", E("y"), E("x"))>>,
       <<"bind", BGP(<<T(y, r, z)>>), Op("=", E("x"), E("y")), "w">>,
       <<"union", Edges, BGP(<<T(y, p, z)>>)>>,
       <<"filter", Edges, NotExists(BGP(<<T(y, p, x)>>))>>,
       <<"join", BGP(<<T(y, p, z)>>), <<"subquery", Of(<<"filter", Edges, Op("!=", E("x"), E("y"))>>, <<"x", "y">>)>>>>,
       <<"join", BGP(<<T(y, p, z)>>), <<"subquery", Of(Edges, <<"y">>)>>>> }}
  \union
  {[query |-> [Select(<<"join", BGP(<<T(y, p, z)>>), <<"subquery", Of(Edges, <<"y">>)>>>>) EXCEPT !.substitute = TRUE],
    init |-> "x" :> a],
   [query |-> [Of(Edges, <<"n">>) EXCEPT !.exprs = <<As(<<"agg", "COUNT", E("x"), FALSE, TRUE>>, "n")>>],
    init |-> "x" :> a]}
  \union
  {[query |-> q, init |-> "x" :> b] :
     q \in {[Select(where) EXCEPT !.limit = 1] : where \in {Edges, Chain}}
           \union {[Select(Edges) EXCEPT !.offset = 1]}
           \union {[Select(where) EXCEPT !.type = "ASK"] : where \in {BGP(<<T(x, p, b)>>), Chain}}}

MCCases ==
  Plain({Select(where) : where \in Patterns \union PathPatterns} \union Modified \union Asks \union Constructs
        \union {From(Edges), From(<<"graph", V("g"), Edges>>)})
  \union Bound1

Pool == <<T(a, p, b), T(b, p, a), T(a, r, one), T(b, r, two), T(b, r, word), T(a, p, said), T(b, p, b)>>

Part(S) == SelectSeq(Pool, LAMBDA t : t \in S)

Contents(S) == [part \in {"def", "named"} |->
                  IF part = "def" THEN Part(S)
                  ELSE [n \in {n1, n2} |-> IF n = n1 THEN Part(ToSet(Pool) \ S) ELSE Part({Pool[1], Pool[4]})]]

\* The triple that quotes another is there when the first value is, the loop when
\* the last is.
MCDatasets ==
  {Contents(S) : S \in {U \in SUBSET ToSet(Pool) :
                          Pool[1] \in U /\ (Pool[3] \in U <=> Pool[6] \in U) /\ (Pool[5] \in U <=> Pool[7] \in U)}}

MCWrites == {Contents({Pool[2], Pool[3]})}

Memory == {"cardinality", "queryable", "reachability"}
Badger == {"queryable", "snapshot"}
Remote == {}

MCStores == {Memory, Badger, Badger \union {"apart"}, Remote}

MCInternal == {".b"}
-----------------------------------------------------------------------------
(* Update requests: one operation of each kind and of each special case (a   *)
(* target that exists or not, source = target, the default graph).           *)

Block(g, ts) == [g |-> g, triples |-> ts]

MCOps ==
    {[op |-> "insertData", groups |-> <<Block(g1, {t1}), Block(g2, {t1, t2})>>],
     [op |-> "deleteData", groups |-> <<Block(g1, {t1}), Block(Default, {t1})>>],
     [op |-> "deleteWhere", g |-> g1],
     [op |-> "modify", with |-> g1, using |-> {}, into |-> g2],
     [op |-> "modify", with |-> g1, using |-> {}, into |-> g1],
     [op |-> "modify", with |-> Default, using |-> {g1, g2}, into |-> g1],
     [op |-> "create", target |-> g2]}
    \cup [op : {"clear", "drop"}, target : {"DEFAULT", "NAMED", "ALL", g1}]
    \cup [op : {"load"}, into : {g2}, triples : {{t1, t2}}, silent : BOOLEAN]
    \cup {[op |-> k, src |-> e[1], dst |-> e[2], silent |-> e[3]] :
             k \in {"add", "copy", "move"},
             e \in {<<g1, g2, FALSE>>, <<g1, g1, FALSE>>, <<g2, Default, TRUE>>,
                    <<Default, g1, FALSE>>}}
-----------------------------------------------------------------------------
NoQuery == /\ data = 0 /\ case = 0 /\ kind = 0 /\ pinned = 0 /\ open = 0 /\ scope = 0 /\ stage = 0
           /\ rows = 0 /\ cancelled = 0 /\ err = 0 /\ written = 0 /\ result = 0
NoUpdate == /\ setup = 0 /\ quads = 0 /\ named = 0 /\ mem = 0 /\ saved = 0 /\ pc = 0 /\ op = 0
            /\ nops = 0 /\ todo = 0 /\ why = 0 /\ cerr = 0 /\ done = 0 /\ faults = 0 /\ old = 0

SparqlInit ==
    \/ which = "query" /\ Init /\ NoUpdate /\ QCInit
    \/ which = "update" /\ Request!Init /\ NoQuery /\ QCInit
    \/ which = "cache" /\ QCInit /\ NoQuery /\ NoUpdate

\* A call that has returned rests; no other stops.
SparqlNext ==
    \/ which = "query" /\ Next /\ UNCHANGED <<which, update, qcVars>>
    \/ which = "query" /\ stage = "done" /\ UNCHANGED all
    \/ which = "update" /\ Request!Next /\ UNCHANGED <<which, setup, vars, qcVars>>
    \/ which = "cache" /\ QCNext /\ UNCHANGED <<which, vars, update>>

SparqlSpec == SparqlInit /\ [][SparqlNext]_all

\* Update requests alone.
RequestSpec == which = "update" /\ SparqlInit /\ [][SparqlNext]_all
-----------------------------------------------------------------------------
\* What EvalQueryContext promises: a call that returns no error returns all and
\* only the solutions the algebra gives, whatever the join order, the streaming
\* ("the solutions are the ones evalPattern returns", limit.go) and the work
\* pushed down to the store; and they are those of one moment, "the whole
\* evaluation reads from a single transaction" (snapshotQueryGraphs). Two things
\* the code does otherwise are stated as they are: a variable repeated in one
\* pattern gives every solution and further ones (against bgp_order.go:12-14), and
\* LIMIT, OFFSET and ASK of one pattern on a QueryableStore leave the initial
\* bindings out and take LIMIT 0 for no limit (eval.go:191-203).
QueryAnswersExact ==
    which = "query" => AnswersExact /\ StreamsSame /\ AnswersAsOfSnapshot

\* paths/paths.go, store/reachability.go: the pairs of a path are those of the
\* relation it denotes, whichever end is bound and whoever walks it.
QueryPathsExact == which = "query" => PathsExact

\* sparql/update.go, evalUpdateOp: an operation reported as done has had exactly
\* its effect on the dataset it found, a rejected or interrupted one none; and
\* COPY, ADD and MOVE never put a triple of the source at risk (evalTransfer).
OperationExact == which = "update" => Request!OperationExact /\ Request!SourceSurvives

\* endpoint/backend.go, commit, and endpoint/update.go: however the update ends,
\* the graphs the engine created have reached the store, unless the store itself
\* failed, and a request answered with 204 has applied its last operation to it.
UpdatesReachStore == which = "update" => Request!CreatedGraphsSaved /\ Request!AcknowledgedIsStored

\* sparql/update.go:40-45 and 52-54: a cancelled request's operation was applied
\* either completely or not at all.
CancelledAllOrNothing == which = "update" => Request!CancelledAllOrNothing
=============================================================================
