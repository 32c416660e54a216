----------------------------- MODULE QueryCache -----------------------------
(***************************************************************************)
(* sparql/cache.go and the first half of QueryContext (sparql/query.go):   *)
(* the cache of parsed queries, shared by all goroutines. Get and Put are  *)
(* one critical section each; the query is parsed between them, so two     *)
(* goroutines may parse and put the same text. A parsed query is known by  *)
(* the text it was parsed from.                                            *)
(*                                                                         *)
(* The variable that holds the cache is not guarded: it is set while no    *)
(* query runs.                                                             *)
(***************************************************************************)
EXTENDS Integers, Sequences, FiniteSets, SequencesExt

CONSTANTS Goroutine,
          Text,              \* the texts of queries
          Malformed,         \* those that do not parse
          Capacities,        \* what EnableQueryCache is called with
          DefaultCapacity,   \* 256
          MaxCached,         \* calls of QueryContext in total
          Off                \* no cache, or no parsed query

ASSUME TextsGiven == Malformed \subseteq Text
ASSUME CapacitiesGiven == Capacities \subseteq Int /\ DefaultCapacity \in Nat \ {0}
ASSUME OffIsNone == Off \notin Int

VARIABLES capacity,   \* of the cache, Off when queryCache is nil
          entries,    \* text -> parsed query
          order,      \* the texts, oldest first
          at,         \* per goroutine: "out", "parse", "put" or "eval"
          text,       \* per goroutine: what it was asked
          parsed,     \* per goroutine: the parsed query
          asked       \* calls so far

QCInit == /\ capacity = Off /\ entries = <<>> /\ order = <<>> /\ asked = 0
          /\ at = [g \in Goroutine |-> "out"]
          /\ text = [g \in Goroutine |-> Off]
          /\ parsed = [g \in Goroutine |-> Off]

AtRest == \A g \in Goroutine : at[g] = "out"
GoTo(g, l) == at' = [at EXCEPT ![g] = l]

\* EnableQueryCache and NewQueryCache: a fresh cache.
EnableQueryCache(n) ==
    /\ AtRest
    /\ capacity' = IF n <= 0 THEN DefaultCapacity ELSE n
    /\ entries' = <<>> /\ order' = <<>>
    /\ UNCHANGED <<at, text, parsed, asked>>

DisableQueryCache ==
    /\ AtRest /\ capacity # Off
    /\ capacity' = Off /\ entries' = <<>> /\ order' = <<>>
    /\ UNCHANGED <<at, text, parsed, asked>>

\* QueryContext as far as Get: a hit goes on to the evaluation.
Get(g, t) ==
    /\ at[g] = "out" /\ asked < MaxCached /\ asked' = asked + 1
    /\ text' = [text EXCEPT ![g] = t]
    /\ \/ /\ t \in DOMAIN entries
          /\ parsed' = [parsed EXCEPT ![g] = entries[t]] /\ GoTo(g, "eval")
       \/ t \notin DOMAIN entries /\ parsed' = [parsed EXCEPT ![g] = Off] /\ GoTo(g, "parse")
    /\ UNCHANGED <<capacity, entries, order>>

\* Parse; a text that does not parse ends the call and is never put.
Parse(g) ==
    /\ at[g] = "parse"
    /\ \/ text[g] \in Malformed /\ GoTo(g, "out") /\ UNCHANGED parsed
       \/ /\ text[g] \notin Malformed
          /\ parsed' = [parsed EXCEPT ![g] = text[g]]
          /\ GoTo(g, IF capacity = Off THEN "eval" ELSE "put")
    /\ UNCHANGED <<capacity, entries, order, text, asked>>

\* Mutant: Put does not look whether another goroutine was first.
PutUnchecked(g) ==
    /\ at[g] = "put" /\ GoTo(g, "eval")
    /\ LET full == Cardinality(DOMAIN entries) >= capacity
           kept == IF full THEN DOMAIN entries \ {Head(order)} ELSE DOMAIN entries
       IN /\ entries' = [t \in kept \cup {text[g]} |-> IF t = text[g] THEN parsed[g] ELSE entries[t]]
          /\ order' = Append(IF full THEN Tail(order) ELSE order, text[g])
    /\ UNCHANGED <<capacity, text, parsed, asked>>

\* Put: a text that is there already stays; at capacity the oldest goes.
Put(g) ==
    /\ at[g] = "put" /\ GoTo(g, "eval")
    /\ \/ text[g] \in DOMAIN entries /\ UNCHANGED <<entries, order>>
       \/ /\ text[g] \notin DOMAIN entries
          /\ LET full == Cardinality(DOMAIN entries) >= capacity
                 kept == IF full THEN DOMAIN entries \ {Head(order)} ELSE DOMAIN entries
             IN /\ entries' = [t \in kept \cup {text[g]} |-> IF t = text[g] THEN parsed[g] ELSE entries[t]]
                /\ order' = Append(IF full THEN Tail(order) ELSE order, text[g])
    /\ UNCHANGED <<capacity, text, parsed, asked>>

\* EvalQueryContext (QueryEvaluation), and the return.
Evaluated(g) == /\ at[g] = "eval" /\ GoTo(g, "out")
                /\ UNCHANGED <<capacity, entries, order, text, parsed, asked>>

qcVars == <<capacity, entries, order, at, text, parsed, asked>>

QCNext == \/ DisableQueryCache \/ \E n \in Capacities : EnableQueryCache(n)
          \/ \E g \in Goroutine : \/ Parse(g) \/ Put(g) \/ Evaluated(g)
                                  \/ \E t \in Text : Get(g, t)

QCSpec == QCInit /\ [][QCNext]_qcVars
-----------------------------------------------------------------------------
QCTypeOK == /\ capacity \in {Off} \cup (Nat \ {0})
            /\ DOMAIN entries \subseteq Text \ Malformed
            /\ order \in Seq(Text)
            /\ at \in [Goroutine -> {"out", "parse", "put", "eval"}]
            /\ text \in [Goroutine -> Text \cup {Off}]
            /\ parsed \in [Goroutine -> Text \cup {Off}]

\* However calls overlap, the order lists every cached text once and no other,
\* and there are never more than the capacity: Put always finds an oldest entry
\* to evict, and what it evicts leaves both.
OrderListsEntries ==
    /\ IsInjective(order) /\ ToSet(order) = DOMAIN entries
    /\ capacity # Off => Len(order) <= capacity

\* With that, QueryContext always evaluates the query it was asked, from the
\* cache or not: what is kept under a text was parsed from it.
CacheExact ==
    /\ OrderListsEntries
    /\ \A t \in DOMAIN entries : entries[t] = t
    /\ \A g \in Goroutine : at[g] = "eval" => parsed[g] = text[g]
=============================================================================
