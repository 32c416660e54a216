-------------------------- MODULE ShaclValidation ---------------------------
(***************************************************************************)
(* What a validation report should say, written independently of how the     *)
(* validator walks: paths are relations; whether nodes conform to shapes is  *)
(* one table, the greatest that is consistent with the constraints, instead  *)
(* of a recursion with a guard; a report is the union of the violations of   *)
(* the (shape, node) pairs reached from the targets along sh:property.       *)
(* Nothing here models code.                                                 *)
(***************************************************************************)
EXTENDS ShaclConstraints

Join(R, S) == {<<x[1][1], x[2][2]>> : x \in {y \in R \X S : y[1][2] = y[2][1]}}

RECURSIVE Closure(_)
Closure(R) == LET next == R \union Join(R, R) IN IF next = R THEN R ELSE Closure(next)

RECURSIVE PathPairs(_, _, _), Chain(_, _, _)
PathPairs(g, path, nodes) ==
  LET identity == {<<n, n>> : n \in nodes}
  IN CASE path[1] = "predicate"   -> {<<x[1], x[3]>> : x \in With(g, path[2])}
       [] path[1] = "inverse"     -> {<<p[2], p[1]>> : p \in PathPairs(g, path[2], nodes)}
       [] path[1] = "sequence"    -> Chain(g, path[2], nodes)
       [] path[1] = "alternative" -> UNION {PathPairs(g, e, nodes) : e \in Elements(path[2])}
       [] path[1] = "zeroOrMore"  -> identity \union Closure(PathPairs(g, path[2], nodes))
       [] path[1] = "oneOrMore"   -> Closure(PathPairs(g, path[2], nodes))
       [] path[1] = "zeroOrOne"   -> identity \union PathPairs(g, path[2], nodes)
       [] OTHER                   -> {}

Chain(g, parts, nodes) ==
  IF parts = <<>> THEN {<<n, n>> : n \in nodes}
  ELSE Join(PathPairs(g, Head(parts), nodes), Chain(g, Tail(parts), nodes))

\* The nodes a validation can come to: those of the data, the named targets.
Universe(cx) ==
  allNodes(cx.data) \union UNION {{t[2] : t \in {u \in cx.shapes[s].targets : u[1] = "node"}} : s \in DOMAIN cx.shapes}

\* The value nodes of every shape at every node.
ValuesTable(cx) ==
  LET nodes == Universe(cx)
      pairs == [s \in DOMAIN cx.shapes |-> PathPairs(cx.data, cx.shapes[s].path, nodes)]
  IN [s \in DOMAIN cx.shapes |-> [n \in nodes |->
        IF cx.shapes[s].values # None THEN Objects(cx.data, n, cx.shapes[s].values)
        ELSE IF cx.shapes[s].path = NoPath THEN {n}
        ELSE {m \in nodes : <<n, m>> \in pairs[s]}]]

\* What violates constraint c of s at node n, given who conforms to what.
Bad(cx, V, T, s, c, n) ==
  LET values == V[s.id][n]
      ok(ref, v) == ref \in DOMAIN T => T[ref][v]
      known(l) == {i \in DOMAIN l : l[i] \in DOMAIN T}
      once(cond) == IF cond THEN {None} ELSE {}
      list(v) == RDFList(cx.data, v)
  IN CASE c[1] \in perValue    -> {v \in values : ~Satisfies(cx, c, n, v)}
       [] c[1] \in together    -> Together(cx, c, n, values)
       [] c[1] = "sh:and"      -> {v \in values : ~\A i \in known(c[2]) : ok(c[2][i], v)}
       [] c[1] = "sh:or"       -> {v \in values : ~\E i \in known(c[2]) : ok(c[2][i], v)}
       [] c[1] = "sh:xone"     -> {v \in values : Cardinality({i \in known(c[2]) : ok(c[2][i], v)}) # 1}
       [] c[1] = "sh:not"      -> {v \in values : ok(c[2], v)}
       [] c[1] = "sh:someValue"    -> once(\A v \in values : ~ok(c[2], v))
       [] c[1] = "sh:memberShape"  ->
            {v \in values : ~isWellFormedList(cx.data, v) \/ \E m \in Elements(list(v)) : ~ok(c[2], m)}
       [] c[1] = "sh:reifierShape" ->
            {v \in values : LET who == {x[1] : x \in {r \in cx.data.r : r[2] = <<"tt", n, s.path[2], v>>}}
                            IN (who = {} /\ c[3]) \/ \E r \in who : ~ok(c[2], r)}
       [] c[1] = "sh:sparql"       -> IF c[2][1] = "lit" THEN {n} ELSE Objects(cx.data, n, c[2])
       [] c[1] = "ask"             -> {v \in values : c[3][1] = "lit" \/ <<v, c[3], c[4]>> \notin cx.data.t}
       [] c[1] = "select"          ->
            IF c[3][1] = "lit" THEN {n} ELSE {v \in Objects(cx.data, n, c[3]) : v = c[4]}
       [] OTHER                    -> {v \in values : ~ok(c[2], v)}

Violations(cx, V, T, s, c, n) ==
  LET inner == IF c[1] = "severityOverride" THEN c[2] ELSE c
      severity == IF c[1] = "severityOverride" THEN c[3] ELSE s.severity
      result(path, v, component) == <<n, path, v, s.id, component, severity>>
      exclusive(v) == T[c[2]][v] /\ \A sib \in c[5] : ~T[sib][v]
      name == IF c[1] \in {"ask", "select"} THEN c[2][2] ELSE inner[1]
      allowed == IF c[1] = "sh:closed" THEN c[2] ELSE c[2] \union allowedByTypes(cx, s, n)
  IN CASE c[1] \in {"sh:closed", "closedByTypes"} ->
            {result(t[2], t[3], "sh:closed") : t \in {x \in About(cx.data, n) : x[2] \notin allowed}}
       [] c[1] = "sh:qualifiedValueShape" ->
            LET count == Cardinality({v \in V[s.id][n] : exclusive(v)})
            IN {result(pathToTerm(s.path), None, k) :
                  k \in {x \in {"sh:qualifiedMinCount", "sh:qualifiedMaxCount"} :
                           IF x = "sh:qualifiedMinCount" THEN count < c[3] ELSE c[4] >= 0 /\ count > c[4]}}
       [] OTHER -> {result(pathToTerm(s.path), v, name) : v \in Bad(cx, V, T, s, inner, n)}

\* The pairs of a property shape and a node that a pair is checked with.
Below(cx, V, pair) ==
  {<<p, v>> : p \in {q \in cx.shapes[pair[1]].properties : ~cx.shapes[q].deactivated}, v \in V[pair[1]][pair[2]]}

RECURSIVE Greatest(_, _, _)
Greatest(cx, V, T) ==
  LET next == [s \in DOMAIN T |-> [n \in DOMAIN T[s] |->
                 \/ cx.shapes[s].deactivated
                 \/ /\ \A c \in cx.shapes[s].constraints : Violations(cx, V, T, cx.shapes[s], c, n) = {}
                    /\ \A b \in Below(cx, V, <<s, n>>) : T[b[1]][b[2]]]]
  IN IF next = T THEN T ELSE Greatest(cx, V, next)

ConformanceTable(cx, V) ==
  Greatest(cx, V, [s \in DOMAIN cx.shapes |-> [n \in Universe(cx) |-> TRUE]])

\* The nodes a shape should be checked on.
FocusesOf(cx, T, s) ==
  LET sub == Closure({<<x[1], x[3]>> : x \in With(cx.data, IRI("rdfs:subClassOf"))})
      instance(n, k) == \E t \in Objects(cx.data, n, rdftype) : t = k \/ <<t, k>> \in sub
      selects(t, n) == CASE t[1] = "node"       -> t[2] = n
                         [] t[1] = "class"      -> instance(n, t[2])
                         [] t[1] = "subjectsOf" -> \E x \in With(cx.data, t[2]) : x[1] = n
                         [] t[1] = "objectsOf"  -> \E x \in With(cx.data, t[2]) : x[3] = n
                         [] t[1] = "sparql"     -> \E x \in With(cx.data, t[2]) : x[1] = n
                         [] t[1] = "where"      -> n \in allNodes(cx.data) /\ T[t[2]][n]
  IN {n \in Universe(cx) : \/ \E t \in s.targets : selects(t, n)
                           \/ <<n, IRI("sh:shape"), s.id>> \in cx.data.t}

RECURSIVE Reached(_, _, _)
Reached(cx, V, pairs) ==
  LET next == pairs \union UNION {Below(cx, V, p) : p \in pairs}
  IN IF next = pairs THEN pairs ELSE Reached(cx, V, next)

Truth(cx) ==
  LET V == ValuesTable(cx)
      T == ConformanceTable(cx, V)
      focuses == [s \in DOMAIN cx.shapes |->
                    IF cx.shapes[s].deactivated THEN {} ELSE FocusesOf(cx, T, cx.shapes[s])]
      start == UNION {{<<s, n>> : n \in focuses[s]} : s \in DOMAIN cx.shapes}
      at(p) == UNION {Violations(cx, V, T, cx.shapes[p[1]], c, p[2]) : c \in cx.shapes[p[1]].constraints}
  IN [table |-> T, focuses |-> focuses, results |-> UNION {at(p) : p \in Reached(cx, V, start)},
      conforms |-> \A p \in start : T[p[1]][p[2]]]
-----------------------------------------------------------------------------
(***************************************************************************)
(* A Prepared and the runs over it (prepared.go, validator.go, conforms.go,  *)
(* inspection.go, cancel.go, af_validate.go, and the loops of af_rule.go):   *)
(* the preparation reads the graphs, refuses ill-formed shapes when strict,  *)
(* and applies the rules to a copy of the data; then the caller validates,   *)
(* asks for the targets of a shape or whether a node conforms, in any order. *)
(* The context of a call may end at any time, and any query may fail.        *)
(***************************************************************************)
CONSTANTS
  Cases,      \* records: data and shapes (sets of triples), advanced, iterate, strict
  RuleLimit,  \* WithRuleIterationLimit
  MaxCalls    \* the calls a caller makes on one Prepared

ASSUME RuleLimitAssumption == RuleLimit \in Nat \ {0}

VARIABLES
  case,       \* what is validated
  phase,      \* "new", "rules", "ready" or "failed"
  data,       \* the graph validation reads: the rules' copy once they run
  shapes,     \* the parsed shapes
  done,       \* the context of the current call has ended
  pass,       \* the rule pass
  run,        \* the validation run
  cached,     \* Prepared.targets: shape -> focus nodes
  inspectErr, \* the guard of the inspector has recorded a failure
  answer,     \* what the last call returned
  calls,      \* how many calls were made
  truth       \* the report the prepared state should give

vars == <<case, phase, data, shapes, done, pass, run, cached, inspectErr, answer, calls, truth>>

Context(d) == [data |-> Indexes(d), graph |-> Indexes(case.shapes), shapes |-> shapes]

cx == Context(data)

NoPass == [at |-> "none", groups |-> <<>>, rules |-> <<>>, todo |-> {}, round |-> 0, added |-> 0, total |-> 0,
           err |-> "none", roundErr |-> FALSE]

NoRun == [at |-> "idle", left |-> <<>>, shape |-> None, focus |-> {}, results |-> {}, err |-> FALSE]

Init ==
  /\ case \in Cases
  /\ phase = "new"
  /\ data = case.data
  /\ shapes = parseShapes(Indexes(case.shapes))
  /\ done = FALSE
  /\ pass = NoPass
  /\ run = NoRun
  /\ cached = [s \in {} |-> {}]
  /\ inspectErr = FALSE
  /\ answer = <<"none">>
  /\ calls = 0
  /\ truth = [ready |-> FALSE]

\* The context of the call in progress ends.
Cancel ==
  /\ ~done
  /\ phase \in {"new", "rules"} \/ run.at # "idle"
  /\ done' = TRUE
  /\ UNCHANGED <<case, phase, data, shapes, pass, run, cached, inspectErr, answer, calls, truth>>

-----------------------------------------------------------------------------
(* prepare                                                                   *)

Fail(why) ==
  /\ phase' = "failed"
  /\ answer' = <<"error", why>>
  /\ UNCHANGED <<case, data, shapes, done, pass, run, cached, inspectErr, calls, truth>>

\* buildIndexes: a graph could not be read from its store.
PrepareStoreFails == phase = "new" /\ Fail("store")

PrepareStopped ==
  /\ phase \in {"new", "rules"}
  /\ done
  /\ Fail("cancelled")

PrepareRefuses ==
  /\ phase = "new"
  /\ ~done
  /\ case.strict
  /\ illFormedShapes(Indexes(case.shapes), shapes) # {}
  /\ Fail("ill-formed")

Accepted ==
  /\ phase = "new"
  /\ ~done
  /\ case.strict => illFormedShapes(Indexes(case.shapes), shapes) = {}

hasRules == With(Indexes(case.shapes), IRI("sh:rule")) # {}

Becomes(d, sh) ==
  /\ phase' = "ready"
  /\ data' = d
  /\ shapes' = sh
  /\ truth' = [ready |-> TRUE, of |-> Truth([data |-> Indexes(d), graph |-> Indexes(case.shapes), shapes |-> sh])]

TargetsOf == IF case.advanced THEN addAFTargets(Indexes(case.shapes), shapes) ELSE shapes

PreparePlain ==
  /\ Accepted
  /\ ~(case.advanced /\ hasRules)
  /\ Becomes(data, TargetsOf)
  /\ UNCHANGED <<case, done, pass, run, cached, inspectErr, answer, calls>>

\* Merge into a copy, and the rule pass begins.
PrepareRules ==
  /\ Accepted
  /\ case.advanced
  /\ hasRules
  /\ phase' = "rules"
  /\ shapes' = TargetsOf
  /\ pass' = [NoPass EXCEPT !.at = "group", !.groups = loadRules(Indexes(case.shapes)),
                            !.err = IF Unreadable(Indexes(case.shapes)) THEN "malformed" ELSE "none"]
  /\ UNCHANGED <<case, data, done, run, cached, inspectErr, answer, calls, truth>>

-----------------------------------------------------------------------------
(* applyRules, applyGroup, applyRule.                                        *)

RuleStep(at) == phase = "rules" /\ pass.at = at /\ ~done

Passing(p) == pass' = p /\ UNCHANGED <<case, phase, shapes, done, run, cached, inspectErr, answer, calls, truth>>

StartGroup ==
  /\ RuleStep("group")
  /\ pass.groups # <<>>
  /\ Passing([pass EXCEPT !.at = "round", !.round = 0])
  /\ UNCHANGED data

EndGroup(p) == [p EXCEPT !.at = "group", !.groups = Tail(@), !.round = 0, !.added = 0, !.roundErr = FALSE]

\* Only the first problem is kept.
Keep(err, new) == IF err = "none" THEN new ELSE err

StartRound ==
  /\ RuleStep("round")
  /\ IF pass.round >= RuleLimit
     THEN Passing([EndGroup(pass) EXCEPT !.err = Keep(@, "limit")])
     ELSE \E order \in Head(pass.groups).orders :
            Passing([pass EXCEPT !.at = "rule", !.rules = order, !.added = 0])
  /\ UNCHANGED data

StartRule ==
  /\ RuleStep("rule")
  /\ pass.rules # <<>>
  /\ Passing([pass EXCEPT !.at = "focus", !.todo = FocusNodes(cx, Head(pass.groups).shape, Head(pass.rules))])
  /\ UNCHANGED data

addTriple(new, old) == Cardinality(new \ old)

\* The triples of one focus node, read from the graph as it is by now.
ApplyRule ==
  /\ RuleStep("focus")
  /\ \E n \in pass.todo :
       LET rule == Head(pass.rules)
           new == Output(cx, rule, n)
       IN /\ data' = data \union new
          /\ Passing([pass EXCEPT !.todo = @ \ {n}, !.added = @ + addTriple(new, data),
                                  !.total = @ + addTriple(new, data),
                                  !.roundErr = @ \/ (rule.kind = "construct" /\ rule.body[1] = "lit")])

EndRule ==
  /\ RuleStep("focus")
  /\ pass.todo = {}
  /\ Passing([pass EXCEPT !.at = "rule", !.rules = Tail(@)])
  /\ UNCHANGED data

\* Mutant: the rounds end as soon as one brought fewer triples than two.
SettledEarly(p) == p.roundErr \/ p.added <= 1 \/ ~case.iterate

\* A round that brought nothing is the last; so is one in which a rule could
\* not be evaluated, and the only one without WithRuleIteration.
Settled(p) == p.roundErr \/ p.added = 0 \/ ~case.iterate

EndRound ==
  /\ RuleStep("rule")
  /\ pass.rules = <<>>
  /\ Passing(IF Settled(pass)
             THEN [EndGroup(pass) EXCEPT !.err = IF pass.roundErr THEN Keep(@, "malformed") ELSE @]
             ELSE [pass EXCEPT !.at = "round", !.round = @ + 1])
  /\ UNCHANGED data

hasQuery(rule) == rule.kind = "construct" \/ rule.conditions # {}

\* A store fails under a rule's query: the pass is given up, not reported as a
\* malformed rule.
RuleQueryFails ==
  /\ RuleStep("focus")
  /\ hasQuery(Head(pass.rules))
  /\ Fail("query")

\* What the pass inferred is kept, whatever problem was reported.
EndRules ==
  /\ RuleStep("group")
  /\ pass.groups = <<>>
  /\ pass' = [pass EXCEPT !.at = "none"]
  /\ Becomes(data, shapes)
  /\ UNCHANGED <<case, done, run, cached, inspectErr, answer, calls>>

-----------------------------------------------------------------------------
(* ValidateContext                                                           *)

Ordered(S) == {f \in [1..Cardinality(S) -> S] : \A i, j \in DOMAIN f : i < j => f[i] # f[j]}

\* shapesInOrder: the order is fixed, which one it is does not matter.
shapesInOrder ==
  One(Ordered({s \in DOMAIN shapes : /\ ~shapes[s].deactivated
                                     /\ shapes[s].targets # {} \/ Subjects(Indexes(data), IRI("sh:shape"), s) # {}}))

Running(r) == run' = r /\ UNCHANGED <<case, phase, data, shapes, pass, inspectErr, truth>>

StartRun ==
  /\ phase = "ready"
  /\ run.at = "idle"
  /\ calls < MaxCalls
  /\ calls' = calls + 1
  /\ done' = FALSE
  /\ answer' = <<"none">>
  /\ Running([NoRun EXCEPT !.at = "shapes", !.left = shapesInOrder])
  /\ UNCHANGED cached

\* A failing SPARQL target, or one cut short, selects too little.
resolved(s, ok) == IF ok THEN resolveTargets(cx, shapes[s])
                   ELSE resolveTargets(cx, [shapes[s] EXCEPT !.targets = {t \in @ : t[1] # "sparql"}])

hasSPARQLTarget(s) == \E t \in shapes[s].targets : t[1] = "sparql"

Store(c, s, focus) == [x \in DOMAIN c \union {s} |-> IF x = s THEN focus ELSE c[x]]

\* targetNodes keeps a selection only when nothing had gone wrong by then.
cacheTargets(s, focus, ended, failed) ==
  cached' = IF s \in DOMAIN cached \/ ended \/ failed THEN cached ELSE Store(cached, s, focus)

NextShape ==
  /\ run.at = "shapes"
  /\ run.focus = {}
  /\ run.left # <<>>
  /\ LET s == Head(run.left) IN
       \E ok \in IF hasSPARQLTarget(s) /\ s \notin DOMAIN cached THEN (IF done THEN {FALSE} ELSE BOOLEAN) ELSE {TRUE} :
         LET focus == IF s \in DOMAIN cached THEN cached[s] ELSE resolved(s, ok)
         IN /\ cacheTargets(s, focus, done, run.err \/ ~ok)
            /\ Running([run EXCEPT !.left = Tail(@), !.shape = s, !.focus = focus, !.err = @ \/ (~ok /\ ~done)])
  /\ UNCHANGED <<done, answer, calls>>

\* A query is asked at the focus node, or at a node it leads to.
asksQuery == \E s \in DOMAIN shapes : \E c \in shapes[s].constraints : c[1] \in {"sh:sparql", "ask", "select"}

\* A focus node; a query of its constraints may fail, and then what it would
\* have found is not known.
ValidateFocus ==
  /\ run.at = "shapes"
  /\ ~done
  /\ \E n \in run.focus : \E failed \in {x \in BOOLEAN : x => asksQuery} :
       Running([run EXCEPT !.focus = @ \ {n}, !.err = @ \/ failed,
                           !.results = IF failed THEN @
                                       ELSE @ \union validateShapeOnNode(cx, shapes[run.shape], n, {}, FALSE)])
  /\ UNCHANGED <<done, cached, answer, calls>>

Return(a) ==
  /\ answer' = a
  /\ run' = NoRun
  /\ done' = FALSE
  /\ UNCHANGED <<case, phase, data, shapes, pass, cached, inspectErr, calls, truth>>

RunStopped == run.at = "shapes" /\ done /\ Return(<<"error", "cancelled">>)

\* Mutant: the run answers without asking whether a query failed.
FinishUnchecked ==
  /\ run.at = "shapes"
  /\ run.left = <<>>
  /\ run.focus = {}
  /\ ~done
  /\ Return(<<"report", run.results, conforming(run.results)>>)

Finish ==
  /\ run.at = "shapes"
  /\ run.left = <<>>
  /\ run.focus = {}
  /\ ~done
  /\ Return(IF run.err THEN <<"error", "query">> ELSE <<"report", run.results, conforming(run.results)>>)

-----------------------------------------------------------------------------
(* Targets and Conforms.                                                     *)

\* The inspector's context is never done, and its guard is made once.
Inspect ==
  /\ phase = "ready"
  /\ run.at = "idle"
  /\ calls < MaxCalls
  /\ calls' = calls + 1
  /\ \E s \in {x \in DOMAIN shapes : shapes[x].targets # {} /\ ~shapes[x].deactivated} :
       \E ok \in IF hasSPARQLTarget(s) /\ s \notin DOMAIN cached THEN BOOLEAN ELSE {TRUE} :
         /\ cacheTargets(s, resolved(s, ok), FALSE, inspectErr \/ ~ok)
         /\ inspectErr' = (inspectErr \/ ~ok)
         /\ answer' = <<"targets", s, ok, IF s \in DOMAIN cached THEN cached[s] ELSE resolved(s, ok)>>
  /\ UNCHANGED <<case, phase, data, shapes, done, pass, run, truth>>

\* All pairs are asked at once: the answers do not depend on one another.
Conforms ==
  /\ phase = "ready"
  /\ run.at = "idle"
  /\ calls = 0
  /\ calls' = MaxCalls
  /\ answer' = <<"conforms", {p \in (DOMAIN shapes) \X Universe(cx) : nodeConforms(cx, p[1], p[2], {})}>>
  /\ UNCHANGED <<case, phase, data, shapes, done, pass, run, cached, inspectErr, truth>>

Next ==
  \/ Cancel \/ PrepareStoreFails \/ PrepareStopped \/ PrepareRefuses \/ PreparePlain \/ PrepareRules
  \/ StartGroup \/ StartRound \/ StartRule \/ ApplyRule \/ EndRule \/ EndRound \/ RuleQueryFails \/ EndRules
  \/ StartRun \/ NextShape \/ ValidateFocus \/ RunStopped \/ Finish \/ Inspect \/ Conforms

Spec == Init /\ [][Next]_vars
-----------------------------------------------------------------------------
(* What is checked.                                                          *)

\* A report says what the data and the shapes say: every violation of every
\* shape at every one of its focus nodes and nothing else, and sh:conforms
\* follows.  Of recursive shapes the report's verdict is the greatest one that
\* is consistent with the constraints (the coinductive reading of
\* recursionGuard).  It holds of every report given without an error, whatever
\* calls on the same Prepared were cancelled or failed before
\* (ValidateContext, validateShapeOnNode, resolveTargets, finished).
ReportExact ==
  answer[1] = "report" =>
    IF case.recursive THEN answer[3] = truth.of.conforms
    ELSE answer[2] = truth.of.results /\ answer[3] = conforming(truth.of.results)

\* Conforms, which stops at the first violation, agrees with the full
\* evaluation on every shape and node (nodeConforms, quick mode).
ConformsExact ==
  answer[1] = "conforms" =>
    answer[2] = {p \in (DOMAIN shapes) \X Universe(cx) : truth.of.table[p[1]][p[2]]}

\* The focus nodes kept on a Prepared, and those Targets returns without a
\* failure, are all the focus nodes (targetNodes).
TargetsWhole ==
  /\ \A s \in DOMAIN cached : cached[s] = truth.of.focuses[s]
  /\ answer[1] = "targets" /\ answer[3] => answer[4] = truth.of.focuses[answer[2]]

\* The number of triples a rule pass reports is the number it added (addTriple).
RulesCounted == pass.total = Cardinality(data \ case.data)

\* With WithRuleIteration a group whose rounds ended by themselves infers
\* nothing more from the data it left (applyGroup).
GroupStep ==
  case.iterate /\ pass.at = "rule" /\ pass'.at = "group" /\ ~pass.roundErr =>
    LET g == Head(pass.groups)
    IN \A rule \in rulesOf(Indexes(case.shapes), g.shape) : \A n \in FocusNodes(cx, g.shape, rule) :
         Output(cx, rule, n) \subseteq data
=============================================================================
