-------------------------------- MODULE Terms --------------------------------
(***************************************************************************)
(* Triples, patterns and graph names as every store sees them. A term      *)
(* stands for its TermKey: stores compare, look up and remove by key, and  *)
(* two terms with one key are one term to them. (term/, store/store.go)    *)
(***************************************************************************)
EXTENDS Naturals

CONSTANTS Subject, Predicate, Object,  \* the terms that occur at each position
          Graph,                       \* the names of named graphs
          Default,                     \* the default graph: nil or DefaultGraph
          Any                          \* an unbound position of a pattern

ASSUME DefaultIsNoName == Default \notin Graph
ASSUME AnyIsNoTerm == Any \notin Subject \cup Predicate \cup Object

Triple == Subject \X Predicate \X Object
Pattern == (Subject \cup {Any}) \X (Predicate \cup {Any}) \X (Object \cup {Any})
GraphRef == Graph \cup {Default}
Quad == GraphRef \X Triple

\* A pattern matches a triple when it agrees with it at every bound position.
Matches(t, pat) == \A i \in 1..3 : pat[i] \in {Any, t[i]}

\* The pattern (s, p, *) of a triple, which Set clears.
SamePair(t) == <<t[1], t[2], Any>>
=============================================================================
