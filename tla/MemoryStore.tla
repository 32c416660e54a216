---------------------------- MODULE MemoryStore -----------------------------
(***************************************************************************)
(* store/memory_index.go: one graph of the memory store. Its triples are   *)
(* kept three times, in nested maps by (s,p,o), (p,o,s) and (o,s,p). An    *)
(* entry of the outer or the middle map holds the triple itself while      *)
(* there is one triple under it, and a map from the second on.             *)
(*                                                                         *)
(* A Go map or smallMap is a function on its keys (SmallMap shows that the *)
(* latter is one). Yielding to a consumer is returning the set yielded.    *)
(***************************************************************************)
EXTENDS Terms, FiniteSetsExt

\* Key positions of the three indexes: first, second and third key.
SPO == <<1, 2, 3>>
POS == <<2, 3, 1>>
OSP == <<3, 1, 2>>

EmptyMap == [k \in {} |-> k]
put(m, k, v) == [x \in DOMAIN m \cup {k} |-> IF x = k THEN v ELSE m[x]]
drop(m, k) == [x \in DOMAIN m \ {k} |-> m[x]]
Only(m) == m[CHOOSE k \in DOMAIN m : TRUE]

\* top and node: exactly one of the two fields is set.
One(t) == [one |-> t]
Many(m) == [many |-> m]
IsOne(e) == "one" \in DOMAIN e

newTripleIndex == [spo |-> EmptyMap, pos |-> EmptyMap, osp |-> EmptyMap,
                   count |-> 0, predCount |-> EmptyMap]
-----------------------------------------------------------------------------
\* The node under the first two keys; the zero node{} acts as an empty leaf.
pair(m, ord, k1, k2) ==
    IF k1 \notin DOMAIN m THEN Many(EmptyMap)
    ELSE IF IsOne(m[k1])
         THEN IF m[k1].one[ord[2]] = k2 THEN m[k1] ELSE Many(EmptyMap)
         ELSE IF k2 \in DOMAIN m[k1].many THEN m[k1].many[k2] ELSE Many(EmptyMap)

\* The triple under three keys, as a set of none or one. A single entry is
\* compared on both remaining keys, a leaf is asked for the third.
lookup(m, ord, k1, k2, k3) ==
    LET n == pair(m, ord, k1, k2)
    IN  IF IsOne(n) THEN {t \in {n.one} : t[ord[3]] = k3}
        ELSE {n.many[k] : k \in DOMAIN n.many \cap {k3}}

insert(m, ord, t) ==
    LET k1 == t[ord[1]]
        k2 == t[ord[2]]
        level == IF IsOne(m[k1])
                 THEN put(EmptyMap, m[k1].one[ord[2]], One(m[k1].one))
                 ELSE m[k1].many
        leaf == IF IsOne(level[k2])
                THEN put(EmptyMap, level[k2].one[ord[3]], level[k2].one)
                ELSE level[k2].many
        node == IF k2 \notin DOMAIN level THEN One(t) ELSE Many(put(leaf, t[ord[3]], t))
    IN  put(m, k1, IF k1 \notin DOMAIN m THEN One(t) ELSE Many(put(level, k2, node)))

\* A level left with one triple folds back into that triple.
fold(m) == IF Cardinality(DOMAIN m) = 1 THEN One(Only(m)) ELSE Many(m)

\* Mutant: delete folds a level as soon as one entry is left, leaf or not.
foldTopBlindly(m) ==
    IF Cardinality(DOMAIN m) # 1 THEN Many(m)
    ELSE IF IsOne(Only(m)) THEN Only(m) ELSE One(Only(Only(m).many))

foldTop(m) == IF Cardinality(DOMAIN m) = 1 /\ IsOne(Only(m)) THEN Only(m) ELSE Many(m)

delete(m, ord, t) ==
    LET k1 == t[ord[1]]
        k2 == t[ord[2]]
        n == m[k1].many[k2]
        level == IF IsOne(n) THEN drop(m[k1].many, k2)
                 ELSE put(m[k1].many, k2, fold(drop(n.many, t[ord[3]])))
    IN  IF IsOne(m[k1]) \/ level = EmptyMap THEN drop(m, k1)
        ELSE put(m, k1, foldTop(level))
-----------------------------------------------------------------------------
eachNode(n) == IF IsOne(n) THEN {n.one} ELSE {n.many[k] : k \in DOMAIN n.many}
eachTop(e) == IF IsOne(e) THEN {e.one}
              ELSE UNION {eachNode(e.many[k]) : k \in DOMAIN e.many}
under(m, k1) == IF k1 \in DOMAIN m THEN eachTop(m[k1]) ELSE {}

nodeLen(n) == IF IsOne(n) THEN 1 ELSE Cardinality(DOMAIN n.many)
topLen(m, k1) ==
    IF k1 \notin DOMAIN m THEN 0
    ELSE IF IsOne(m[k1]) THEN 1
    ELSE MapThenSumSet(LAMBDA k : nodeLen(m[k1].many[k]), DOMAIN m[k1].many)

\* The triples matching pat, each from the index whose first keys it binds.
each(x, pat) ==
    LET s == pat[1]
        p == pat[2]
        o == pat[3]
    IN  CASE s # Any /\ p # Any /\ o # Any -> lookup(x.spo, SPO, s, p, o)
          [] s # Any /\ p # Any /\ o = Any -> eachNode(pair(x.spo, SPO, s, p))
          [] s = Any /\ p # Any /\ o # Any -> eachNode(pair(x.pos, POS, p, o))
          [] s # Any /\ p = Any /\ o # Any -> eachNode(pair(x.osp, OSP, o, s))
          [] s # Any /\ p = Any /\ o = Any -> under(x.spo, s)
          [] s = Any /\ p # Any /\ o = Any -> under(x.pos, p)
          [] s = Any /\ p = Any /\ o # Any -> under(x.osp, o)
          [] OTHER -> UNION {eachTop(x.spo[k]) : k \in DOMAIN x.spo}

has(x, t) == lookup(x.spo, SPO, t[1], t[2], t[3]) # {}

\* The same cases, answered from sizes and counters.
cardinality(x, pat) ==
    LET s == pat[1]
        p == pat[2]
        o == pat[3]
    IN  CASE s # Any /\ p # Any /\ o # Any -> Cardinality(lookup(x.spo, SPO, s, p, o))
          [] s # Any /\ p # Any /\ o = Any -> nodeLen(pair(x.spo, SPO, s, p))
          [] s = Any /\ p # Any /\ o # Any -> nodeLen(pair(x.pos, POS, p, o))
          [] s # Any /\ p = Any /\ o # Any -> nodeLen(pair(x.osp, OSP, o, s))
          [] s # Any /\ p = Any /\ o = Any -> topLen(x.spo, s)
          [] s = Any /\ p # Any /\ o = Any -> IF p \in DOMAIN x.predCount THEN x.predCount[p] ELSE 0
          [] s = Any /\ p = Any /\ o # Any -> topLen(x.osp, o)
          [] OTHER -> x.count
-----------------------------------------------------------------------------
add(x, t) ==
    IF has(x, t) THEN x
    ELSE [spo |-> insert(x.spo, SPO, t), pos |-> insert(x.pos, POS, t),
          osp |-> insert(x.osp, OSP, t), count |-> x.count + 1,
          predCount |-> put(x.predCount, t[2],
                            IF t[2] \in DOMAIN x.predCount THEN x.predCount[t[2]] + 1 ELSE 1)]

\* Mutant: remove forgets the count per predicate.
removeKeepsPredCount(x, t) ==
    IF ~has(x, t) THEN x
    ELSE [x EXCEPT !.spo = delete(x.spo, SPO, t), !.pos = delete(x.pos, POS, t),
                   !.osp = delete(x.osp, OSP, t), !.count = x.count - 1]

remove(x, t) ==
    IF ~has(x, t) THEN x
    ELSE [spo |-> delete(x.spo, SPO, t), pos |-> delete(x.pos, POS, t),
          osp |-> delete(x.osp, OSP, t), count |-> x.count - 1,
          predCount |-> IF x.predCount[t[2]] = 1 THEN drop(x.predCount, t[2])
                        ELSE put(x.predCount, t[2], x.predCount[t[2]] - 1)]

\* Collected first, then removed one by one.
removeMatching(x, pat) == FoldSet(LAMBDA t, acc : remove(acc, t), x, each(x, pat))
-----------------------------------------------------------------------------
(***************************************************************************)
(* Reference: the one value a graph holding the triples T may have,        *)
(* whatever calls led there.                                               *)
(***************************************************************************)
KeysAt(T, i) == {t[i] : t \in T}
CanonLeaf(T, ord) == [k \in KeysAt(T, ord[3]) |-> CHOOSE t \in T : t[ord[3]] = k]
CanonNode(T, ord) == IF Cardinality(T) = 1 THEN One(CHOOSE t \in T : TRUE)
                     ELSE Many(CanonLeaf(T, ord))
CanonTop(T, ord) == IF Cardinality(T) = 1 THEN One(CHOOSE t \in T : TRUE)
                    ELSE Many([k \in KeysAt(T, ord[2]) |->
                                 CanonNode({t \in T : t[ord[2]] = k}, ord)])
CanonIndex(T, ord) == [k \in KeysAt(T, ord[1]) |->
                         CanonTop({t \in T : t[ord[1]] = k}, ord)]
Canon(T) == [spo |-> CanonIndex(T, SPO), pos |-> CanonIndex(T, POS),
             osp |-> CanonIndex(T, OSP), count |-> Cardinality(T),
             predCount |-> [p \in KeysAt(T, 2) |-> Cardinality({t \in T : t[2] = p})]]
-----------------------------------------------------------------------------
(***************************************************************************)
(* store/memory.go: the in-memory store, a triple index for the default    *)
(* graph and one per named graph. Every method holds the store's mutex     *)
(* from its first to its last access, so a method is one step; what        *)
(* iterators do while they hold it is in MemoryIterators. A method called  *)
(* with a done context returns at once and changes nothing.                *)
(***************************************************************************)
CONSTANTS Inputs,     \* the quads callers bring
          MaxBatch    \* the largest batch AddN is called with

ASSUME InputsAreQuads == Inputs \subseteq Quad

VARIABLE graphs       \* graphs[Default] is m.def, the rest is m.named

Init == graphs = put(EmptyMap, Default, newTripleIndex)

\* index and writeIndex: a named graph that is not there is a new, empty one.
index(gs, g) == IF g \in DOMAIN gs THEN gs[g] ELSE newTripleIndex

\* The graphs after a call, given the graphs before it.
addTo(gs, t, g) == put(gs, g, add(index(gs, g), t))

addAll(gs, qs) == FoldSet(LAMBDA q, acc : addTo(acc, q[2], q[1]), gs, qs)

setTo(gs, t, g) == put(gs, g, add(removeMatching(index(gs, g), SamePair(t)), t))

\* A named graph that lost its last triple is forgotten.
dropIfEmpty(gs, g) == IF g # Default /\ gs[g].count = 0 THEN drop(gs, g) ELSE gs

\* Mutant: Remove reaches every graph.
removeFromAll(gs, pat, g) == [h \in DOMAIN gs |-> removeMatching(gs[h], pat)]

removeFrom(gs, pat, g) ==
    IF g \in DOMAIN gs THEN dropIfEmpty(put(gs, g, removeMatching(gs[g], pat)), g) ELSE gs

Add(t, g) == graphs' = addTo(graphs, t, g)
AddN(qs) == graphs' = addAll(graphs, qs)
Set(t, g) == graphs' = setTo(graphs, t, g)
Remove(pat, g) == graphs' = removeFrom(graphs, pat, g)

Batch == UNION {kSubset(k, Inputs) : k \in 1..MaxBatch}

Next == \/ \E q \in Inputs : Add(q[2], q[1])
        \/ \E q \in Inputs : Set(q[2], q[1])
        \/ \E pat \in Pattern, g \in GraphRef : Remove(pat, g)
        \/ \E qs \in Batch : AddN(qs)

Spec == Init /\ [][Next]_graphs
-----------------------------------------------------------------------------
Everything == <<Any, Any, Any>>

QuadsOf(gs) == UNION {{<<g, t>> : t \in each(gs[g], Everything)} : g \in DOMAIN gs}
Quads == QuadsOf(graphs)

Contract == INSTANCE StoreContract WITH quads <- Quads

\* The default graph always exists; the others have names.
TypeOK == Default \in DOMAIN graphs /\ DOMAIN graphs \subseteq GraphRef

(***************************************************************************)
(* And it does so for the arguments of the call: from every state, Set     *)
(* leaves exactly the new value under (s, p), Remove takes exactly the     *)
(* matching triples and AddN puts every quad into its own graph.           *)
(* (memory.go:105-159)                                                     *)
(***************************************************************************)
CallsExact ==
    /\ \A q \in Inputs :
          /\ QuadsOf(addTo(graphs, q[2], q[1])) = Quads \cup {q}
          /\ QuadsOf(setTo(graphs, q[2], q[1])) =
                 (Quads \ Contract!Hit(SamePair(q[2]), q[1])) \cup {q}
    /\ \A pat \in Pattern, g \in GraphRef :
          QuadsOf(removeFrom(graphs, pat, g)) = Quads \ Contract!Hit(pat, g)
    /\ \A qs \in Batch : QuadsOf(addAll(graphs, qs)) = Quads \cup qs

(***************************************************************************)
(* The three indexes of a graph hold the same triples, a triple is held    *)
(* without a map exactly where it is alone, and the counters are right:    *)
(* the index of a graph depends on its triples only, never on the calls    *)
(* that led there. (memory_index.go:60-79, 165-166)                        *)
(***************************************************************************)
Canonical == \A g \in GraphRef : index(graphs, g) = Canon(Contract!Contents(g))

(***************************************************************************)
(* For every pattern, iterating yields exactly the matching triples of the *)
(* addressed graph, and the count taken from sizes and counters is their   *)
(* number. (memory_index.go:296-394)                                       *)
(***************************************************************************)
AnswersExact == \A g \in GraphRef, pat \in Pattern :
    /\ each(index(graphs, g), pat) = Contract!Triples(pat, g)
    /\ cardinality(index(graphs, g), pat) = Cardinality(Contract!Triples(pat, g))

(***************************************************************************)
(* Contexts reports exactly the graphs that hold data (memory.go:25-27),   *)
(* also after the last triple of a graph is removed or moved by Set.       *)
(***************************************************************************)
ContextsExact == DOMAIN graphs = Contract!Contexts \cup {Default}
=============================================================================
