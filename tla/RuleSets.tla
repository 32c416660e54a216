------------------------------- MODULE RuleSets -------------------------------
(***************************************************************************)
(* Rule sets in the SHACL rules language: the well-formedness of a rule      *)
(* (srl_wellformed.go), Stratify (srl_stratify.go) and EvalRuleSetContext    *)
(* (srl_eval.go).  A term is <<"iri", x>>, <<"lit", n>> for a number with its *)
(* datatype, <<"var", v>> or a triple term <<"tt", s, p, o>>; the key of an   *)
(* IRI or a literal, which the evaluation works with, is the term itself.    *)
(* The text of an expression is abstracted to what the evaluation can read:  *)
(* a FILTER is <<"filter", op, v, n>> for ?v op n, or for isIRI(?v), a BIND   *)
(* <<"bind", v, w>> for BIND(?w AS ?v).                                      *)
(***************************************************************************)
EXTENDS Integers, Sequences, FiniteSets

CONSTANTS
  RuleSet,      \* the rule sets: rules, blocks (DATA) and data, sets of triples
  RoundLimit    \* the rounds a stratum is given (1000)

VARIABLES
  rs,           \* what is evaluated
  at,           \* "load", "sweep", "verify", "eval" or "done"
  strata,       \* the stratum of each rule, so far
  iter,         \* the sweeps made
  triples,      \* srlEvalEngine.triples
  stratum,      \* the stratum being evaluated
  round,        \* the rounds it has had
  cut,          \* a stratum used up its rounds while they brought something new
  answer        \* "none", "error", "panic" or "ok"

rsVars == <<rs, at, strata, iter, triples, stratum, round, cut, answer>>

n == Len(rs.rules)

RECURSIVE srlTermVars(_)
srlTermVars(t) == CASE t[1] = "var" -> {t[2]}
                    [] t[1] = "tt"  -> UNION {srlTermVars(t[i]) : i \in 2..4}
                    [] OTHER        -> {}

Vars(t) == UNION {srlTermVars(t[i]) : i \in 1..3}

\* What stands for a term in the evaluation.  The text of a variable is empty,
\* so a triple term is a constant whatever variables it has.
Empty == <<"empty">>

RECURSIVE srlTermToKey(_)
srlTermToKey(t) == CASE t[1] = "var" -> Empty
                     [] t[1] = "tt"  -> <<"tt", srlTermToKey(t[2]), srlTermToKey(t[3]), srlTermToKey(t[4])>>
                     [] OTHER        -> t

\* A triple term of the data graph has no key of its own.
termToSRLKey(t) == IF t[1] = "tt" THEN Empty ELSE t

Keyed(T, key(_)) == {[i \in 1..3 |-> key(t[i])] : t \in T}

-----------------------------------------------------------------------------
(* CheckWellformed                                                           *)

\* The variables bound after the first i elements of a body.
RECURSIVE BoundBy(_, _)
BoundBy(body, i) ==
  IF i = 0 THEN {}
  ELSE BoundBy(body, i - 1) \union CASE body[i][1] = "triple" -> Vars(body[i][2])
                                     [] body[i][1] = "bind"   -> {body[i][2]}
                                     [] OTHER                 -> {}

checkRuleWellformed(rule) ==
  /\ \A i \in DOMAIN rule.body :
       LET e == rule.body[i]
           bound == BoundBy(rule.body, i - 1)
       IN /\ e[1] = "bind" => e[2] \notin bound /\ e[3] \in bound
          /\ e[1] = "filter" => e[3] \in bound
  /\ \A i \in DOMAIN rule.head : Vars(rule.head[i]) \subseteq BoundBy(rule.body, Len(rule.body))

CheckWellformed == \A i \in DOMAIN rs.rules : checkRuleWellformed(rs.rules[i])

-----------------------------------------------------------------------------
(* Stratify                                                                  *)

termCouldMatch(a, b) == a[1] = "var" \/ b[1] = "var" \/ srlTermToKey(a) = srlTermToKey(b)

triplePatternCouldMatch(h, p) == \A i \in 1..3 : termCouldMatch(h[i], p[i])

\* A NOT inside a NOT is not looked into.
collectBodyPatterns(body, negativeOnly) ==
  LET of(elements) == {elements[i][2] : i \in {j \in DOMAIN elements : elements[j][1] = "triple"}}
  IN IF negativeOnly THEN UNION {of(body[i][2]) : i \in {j \in DOMAIN body : body[j][1] = "not"}} ELSE of(body)

\* Of two patterns only the predicates are compared.
patternsOverlap(head, body) ==
  \E h \in head, b \in body : /\ h[2][1] \in {"iri", "var"}
                              /\ b[2] = h[2] \/ h[2][1] = "var" \/ b[2][1] = "var"

patternsCouldMatch(head, negBody) == \E h \in head, p \in negBody : triplePatternCouldMatch(h, p)

Range(s) == {s[i] : i \in DOMAIN s}

\* Rule b uses what rule a infers: for a match, or for the failure of one.
dependsOn(b, a, negative) ==
  LET head == Range(rs.rules[a].head)
      patterns == collectBodyPatterns(rs.rules[b].body, negative)
  IN IF negative THEN patternsCouldMatch(head, patterns) ELSE patternsOverlap(head, patterns)

\* The edges of rule b, in order: <<to, negative>>.
deps(b) ==
  SelectSeq([i \in 1..(2 * n) |-> <<(i + 1) \div 2, i % 2 = 0>>], LAMBDA e : dependsOn(b, e[1], e[2]))

RECURSIVE raised(_, _, _)
raised(s, b, edges) ==
  IF edges = <<>> THEN s
  ELSE LET e == Head(edges)
           required == s[e[1]] + IF e[2] THEN 1 ELSE 0
       IN raised(IF s[b] < required THEN [s EXCEPT ![b] = required] ELSE s, b, Tail(edges))

\* One round over the rules from b on; a rule sees what the round already raised.
RECURSIVE sweepFrom(_, _)
sweepFrom(s, b) == IF b > n THEN s ELSE sweepFrom(raised(s, b, deps(b)), b + 1)

Init ==
  /\ rs \in RuleSet
  /\ at = "load"
  /\ strata = [i \in DOMAIN rs.rules |-> 0]
  /\ iter = 0
  /\ triples = {}
  /\ stratum = 0
  /\ round = 0
  /\ cut = FALSE
  /\ answer = "none"

Return(a) == at' = "done" /\ answer' = a

\* The data graph could not be read, or the context was done.
LoadFails ==
  /\ at = "load"
  /\ Return("error")
  /\ UNCHANGED <<rs, strata, iter, triples, stratum, round, cut>>

Given == Keyed(rs.data, termToSRLKey)

Start == Given \union Keyed(rs.blocks, srlTermToKey)

Load ==
  /\ at = "load"
  /\ triples' = Start
  /\ at' = IF n = 0 THEN "eval" ELSE "sweep"
  /\ UNCHANGED <<rs, strata, iter, stratum, round, cut, answer>>

tooHigh(s) == \E i \in DOMAIN s : s[i] > n

Sweep ==
  /\ at = "sweep"
  /\ LET next == sweepFrom(strata, 1)
     IN /\ strata' = next
        /\ iter' = iter + 1
        /\ IF next # strata /\ tooHigh(next) THEN Return("error")
           ELSE /\ at' = IF next = strata \/ iter = n THEN "verify" ELSE "sweep"
                /\ UNCHANGED answer
  /\ UNCHANGED <<rs, triples, stratum, round, cut>>

Verify ==
  /\ at = "verify"
  /\ IF \E b, a \in DOMAIN strata : dependsOn(b, a, TRUE) /\ strata[b] <= strata[a]
     THEN Return("error")
     ELSE at' = "eval" /\ UNCHANGED answer
  /\ UNCHANGED <<rs, strata, iter, triples, stratum, round, cut>>

-----------------------------------------------------------------------------
(* EvalRuleSetContext                                                        *)

Bind(b, v, key) == [x \in DOMAIN b \union {v} |-> IF x = v THEN key ELSE b[x]]

\* {} when the pattern does not match.
RECURSIVE matchFrom(_, _, _, _)
matchFrom(pattern, ground, b, i) ==
  IF i > 3 THEN {b}
  ELSE LET p == pattern[i]
       IN CASE p[1] # "var"          -> IF srlTermToKey(p) = ground[i] THEN matchFrom(pattern, ground, b, i + 1) ELSE {}
            [] p[2] \in DOMAIN b     -> IF b[p[2]] = ground[i] THEN matchFrom(pattern, ground, b, i + 1) ELSE {}
            [] OTHER                 -> matchFrom(pattern, ground, Bind(b, p[2], ground[i]), i + 1)

matchGroundTriple(pattern, ground, b) == matchFrom(pattern, ground, b, 1)

\* The value is put in as text, its datatype IRI with it: what is compared is
\* what stands left and right of the first operator found in it.  An expression
\* that cannot be evaluated lets the binding pass, and so do < and >, which are
\* found in the angle brackets of the IRI; of != the = is found.  The text of a
\* triple term is taken for an IRI.
evalFilter(e, b) ==
  LET known == e[3] \in DOMAIN b
      val == b[e[3]]
  IN IF e[2] = "isIRI" THEN known /\ val[1] \in {"iri", "tt"}
     ELSE (known /\ val[1] = "lit") => CASE e[2] = ">="          -> val[2] >= e[4]
                                         [] e[2] = "<="          -> val[2] <= e[4]
                                         [] e[2] \in {"=", "!="} -> val[2] = e[4]
                                         [] e[2] \in {"<", ">"}  -> TRUE

\* A variable without a value stays in the text.
evalBindExpr(e, b) == IF e[3] \in DOMAIN b THEN b[e[3]] ELSE <<"var", e[3]>>

RECURSIVE matchElements(_, _, _)
matchElements(T, elements, b) ==
  IF elements = <<>> THEN {b}
  ELSE LET e == Head(elements)
           rest(c) == matchElements(T, Tail(elements), c)
       IN CASE e[1] = "triple" -> UNION {rest(c) : c \in UNION {matchGroundTriple(e[2], t, b) : t \in T}}
            [] e[1] = "filter" -> IF evalFilter(e, b) THEN rest(b) ELSE {}
            [] e[1] = "not"    -> IF matchElements(T, e[2], b) = {} THEN rest(b) ELSE {}
            [] e[1] = "bind"   -> rest(Bind(b, e[2], evalBindExpr(e, b)))

NoBinding == [x \in {} |-> <<"none">>]

\* The variables that stand for a term themselves.
OwnVars(t) == {t[i][2] : i \in {j \in 1..3 : t[j][1] = "var"}}

instantiate(t, b) == [i \in 1..3 |-> IF t[i][1] = "var" THEN b[t[i][2]] ELSE srlTermToKey(t[i])]

\* What a rule infers from T; a head with a variable the body leaves open is skipped.
Inferred(T, rule) ==
  UNION {{instantiate(h, b) : h \in {t \in Range(rule.head) : OwnVars(t) \subseteq DOMAIN b}} :
           b \in matchElements(T, rule.body, NoBinding)}

Top == IF n = 0 THEN -1 ELSE CHOOSE s \in Range(strata) : \A x \in Range(strata) : x <= s

\* Mutant: all the rules run in every stratum.
rulesOfAny == DOMAIN rs.rules

rulesOfStratum == {i \in DOMAIN rs.rules : strata[i] = stratum}

\* The strata in turn, each until a round brings nothing new or the rounds are
\* used up, which is no error.
EvalRound ==
  /\ at = "eval"
  /\ stratum <= Top
  /\ LET new == UNION {Inferred(triples, rs.rules[i]) : i \in rulesOfStratum} \ triples
     IN /\ triples' = triples \union new
        /\ IF new = {} \/ round + 1 = RoundLimit
           THEN stratum' = stratum + 1 /\ round' = 0
           ELSE round' = round + 1 /\ UNCHANGED stratum
        /\ cut' = (cut \/ (new # {} /\ round + 1 = RoundLimit))
  /\ UNCHANGED <<rs, at, strata, iter, answer>>

\* What has no form of its own among the keys comes back as an IRI made of the
\* key's text, written <<"text", key>>, and so does a predicate that is none.
srlKeyToTerm(key) == IF key[1] \in {"iri", "lit"} THEN key ELSE <<"text", key>>

toURIRef(t) == IF t[1] = "lit" THEN <<"text", t>> ELSE t

result == {<<srlKeyToTerm(t[1]), toURIRef(srlKeyToTerm(t[2])), srlKeyToTerm(t[3])>> : t \in triples \ Given}

\* A literal is no subject: adding such a triple to the result panics.
Finish ==
  /\ at = "eval"
  /\ stratum > Top
  /\ Return(IF \E t \in result : t[1][1] = "lit" THEN "panic" ELSE "ok")
  /\ UNCHANGED <<rs, strata, iter, triples, stratum, round, cut>>

Next == LoadFails \/ Load \/ Sweep \/ Verify \/ EvalRound \/ Finish
-----------------------------------------------------------------------------
(* The references: dependency between predicates, and stable models.          *)

Uses(b, a, negative) ==
  \E h \in Range(rs.rules[a].head), i \in DOMAIN rs.rules[b].body :
    LET e == rs.rules[b].body[i]
        meets(p) == h[2] = p[2] \/ "var" \in {h[2][1], p[2][1]}
    IN IF negative THEN e[1] = "not" /\ \E j \in DOMAIN e[2] : meets(e[2][j][2])
       ELSE e[1] = "triple" /\ meets(e[2])

RECURSIVE UsedBy(_)
UsedBy(S) ==
  LET next == S \union {a \in DOMAIN rs.rules : \E b \in S : Uses(b, a, TRUE) \/ Uses(b, a, FALSE)}
  IN IF next = S THEN S ELSE UsedBy(next)

NegativeCycle == \E b, a \in DOMAIN rs.rules : Uses(b, a, TRUE) /\ b \in UsedBy({a})

Terms == UNION {Range(t) : t \in triples}

VarsOf(elements) == UNION {OwnVars(elements[i][2]) : i \in {j \in DOMAIN elements : elements[j][1] = "triple"}}

\* The facts that follow from T when what is absent from M counts as false:
\* over all the ways to give a rule's variables values.  A variable that only
\* occurs in triple terms has none: a BIND of it gives its name, a head triple
\* of it is no fact.
Reduct(T, M, rule) ==
  LET binds == {e \in Range(rule.body) : e[1] = "bind"}
      outer == VarsOf(rule.body) \union {e[2] : e \in binds}
      values == Terms \union {<<"var", e[3]>> : e \in {x \in binds : x[3] \notin outer}}
      holds(e, f) ==
        CASE e[1] = "triple" -> instantiate(e[2], f) \in T
          [] e[1] = "filter" -> evalFilter(e, f)
          [] e[1] = "bind"   -> f[e[2]] = IF e[3] \in outer THEN f[e[3]] ELSE <<"var", e[3]>>
          [] e[1] = "not"    ->
               LET inner == VarsOf(e[2]) \ outer
               IN ~\E g \in [inner -> Terms] : \A j \in DOMAIN e[2] :
                     instantiate(e[2][j][2], [v \in outer \union inner |-> IF v \in inner THEN g[v] ELSE f[v]]) \in M
  IN {instantiate(h, f) : h \in {t \in Range(rule.head) : OwnVars(t) \subseteq outer},
                          f \in {g \in [outer -> values] : \A e \in Range(rule.body) : holds(e, g)}}

RECURSIVE LeastModel(_, _)
LeastModel(T, M) ==
  LET next == T \union UNION {Reduct(T, M, rule) : rule \in Range(rs.rules)}
  IN IF next = T THEN T ELSE LeastModel(next, M)

-----------------------------------------------------------------------------
(* What is checked.                                                          *)

\* A rule of a set that CheckWellformed accepts never leaves a variable open:
\* every binding of its body gives every head triple, with terms and not with
\* the text of a variable (checkRuleWellformed, instantiate, evalBindExpr).  Not
\* so when a variable stands only in triple terms of the body: srlTermVars
\* counts it as bound, matchTermKey binds none (srl_wellformed.go:99).
WellformedInstantiates ==
  (at = "eval" /\ CheckWellformed) =>
    \A rule \in Range(rs.rules) :
      (\A e \in Range(rule.body) : e[1] = "triple" => Vars(e[2]) \subseteq VarsOf(rule.body)) =>
        \A b \in matchElements(triples, rule.body, NoBinding) :
          /\ \A h \in Range(rule.head) : OwnVars(h) \subseteq DOMAIN b
          /\ \A v \in DOMAIN b : b[v][1] # "var"

\* A rule set without a cycle through a negation is not refused (Stratify).
StratifiableAccepted == (answer = "error" /\ iter > 0) => NegativeCycle

\* What EvalRuleSet returns for such a set is what its stable model adds to the
\* data: it follows from the data and the rules when exactly what is absent
\* counts as false (Stratify, evalStratum, matchElements).  The rules are read as
\* the evaluation reads them: a triple term is a constant, those of the data
\* are the empty one, and a FILTER with < or > lets every number pass, against
\* "value > number, value < number" (srl_eval.go:393).  A stratum cut off after
\* its rounds comes back as if it were complete: without negations the answer
\* is then within the stable model.  With a literal for a subject in the model
\* there is no answer: "adding to it cannot fail" (srl_eval.go:88) is not so.
ResultStable ==
  (at = "done" /\ answer # "error" /\ CheckWellformed /\ ~NegativeCycle) =>
    LET model == LeastModel(Start, triples)
    IN /\ ~cut => triples = model
       /\ (\A rule \in Range(rs.rules) : \A e \in Range(rule.body) : e[1] # "not") => triples \subseteq model
       /\ ~cut => (answer = "panic" <=> \E t \in model \ Given : t[1][1] = "lit")

\* srl_stratify.go:7, "or an error if the rules contain a negative cycle
\* (unstratifiable)".
NegativeCycleRefused == answer \in {"ok", "panic"} => ~NegativeCycle
=============================================================================
