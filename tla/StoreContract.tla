--------------------------- MODULE StoreContract ---------------------------
(***************************************************************************)
(* What the Store interface promises (store/store.go:10-60): a store is a  *)
(* set of quads; a write changes the graph it addresses in one step and no *)
(* other; reads answer from that set. A call with a done context changes   *)
(* nothing, so it is a stuttering step.                                    *)
(***************************************************************************)
EXTENDS Terms, FiniteSets

VARIABLE quads

Contents(g) == {t \in Triple : <<g, t>> \in quads}

\* The quads of g that pat matches.
Hit(pat, g) == {q \in quads : q[1] = g /\ Matches(q[2], pat)}

Init == quads = {}

Add(t, g) == quads' = quads \cup {<<g, t>>}

\* A batch of quads, each to its own graph, in one step.
AddN(qs) == quads' = quads \cup qs

Remove(pat, g) == quads' = quads \ Hit(pat, g)

\* Readers never see the old value gone and the new one missing.
Set(t, g) == quads' = (quads \ Hit(SamePair(t), g)) \cup {<<g, t>>}

Next == \/ \E t \in Triple, g \in GraphRef : Add(t, g) \/ Set(t, g)
        \/ \E pat \in Pattern, g \in GraphRef : Remove(pat, g)
        \/ quads' \subseteq Quad /\ AddN(quads' \ quads)

Spec == Init /\ [][Next]_quads
-----------------------------------------------------------------------------
\* The answers of the read methods.
Triples(pat, g) == {t \in Contents(g) : Matches(t, pat)}
Len(g) == Cardinality(Contents(g))
Contexts == {g \in Graph : Contents(g) # {}}
ContextsWith(t) == {g \in Graph : t \in Contents(g)}
=============================================================================
