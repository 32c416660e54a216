------------------------------ MODULE SmallMap ------------------------------
(***************************************************************************)
(* store/memory_smallmap.go: the map of the memory store's inner index     *)
(* levels. Up to smallMapMax entries are a slice, beyond that a Go map,    *)
(* and it stays a Go map when it shrinks. Shown to implement a map: a      *)
(* function from the keys it holds to values, which is how MemoryStore     *)
(* models these levels.                                                    *)
(***************************************************************************)
EXTENDS Naturals, Sequences, FiniteSets

CONSTANTS Key, Value,
          smallMapMax,
          NoMap          \* x.m = nil

ASSUME SmallMapMax == smallMapMax \in Nat
ASSUME NoMapIsNone == \A D \in SUBSET Key : NoMap \notin [D -> Value]

VARIABLES s,   \* the slice, of [k, v]
          m    \* the Go map, or NoMap

mapVars == <<s, m>>

MapInit == s = <<>> /\ m = NoMap

Entry(k, v) == [k |-> k, v |-> v]
With(f, k, v) == [x \in DOMAIN f \cup {k} |-> IF x = k THEN v ELSE f[x]]
Without(f, k) == [x \in DOMAIN f \ {k} |-> f[x]]
Index(k) == {i \in DOMAIN s : s[i].k = k}
FromSlice == [k \in {s[i].k : i \in DOMAIN s} |-> s[CHOOSE i \in Index(k) : TRUE].v]

\* len, get: what the callers see.
len == IF m # NoMap THEN Cardinality(DOMAIN m) ELSE Len(s)
holds(k) == IF m # NoMap THEN k \in DOMAIN m ELSE Index(k) # {}

fits == Len(s) < smallMapMax

\* Mutant: the entry that causes the promotion is lost.
promotedWithout(k, v) == FromSlice

promoted(k, v) == With(FromSlice, k, v)

set(k, v) ==
    \/ m # NoMap /\ m' = With(m, k, v) /\ UNCHANGED s
    \/ /\ m = NoMap /\ Index(k) # {}
       /\ s' = [i \in DOMAIN s |-> IF s[i].k = k THEN Entry(k, v) ELSE s[i]]
       /\ UNCHANGED m
    \/ m = NoMap /\ Index(k) = {} /\ fits /\ s' = Append(s, Entry(k, v)) /\ UNCHANGED m
    \/ m = NoMap /\ Index(k) = {} /\ ~fits /\ m' = promoted(k, v) /\ s' = <<>>

\* The last entry of the slice takes the place of the deleted one.
deleteKey(k) ==
    \/ m # NoMap /\ m' = Without(m, k) /\ UNCHANGED s
    \/ /\ m = NoMap
       /\ s' = IF Index(k) = {} THEN s
               ELSE LET i == CHOOSE i \in Index(k) : TRUE
                    IN  SubSeq([s EXCEPT ![i] = s[Len(s)]], 1, Len(s) - 1)
       /\ UNCHANGED m

MapNext ==
    \/ \E k \in Key, v \in Value : set(k, v)
    \/ \E k \in Key : deleteKey(k)

MapSpec == MapInit /\ [][MapNext]_mapVars
-----------------------------------------------------------------------------
MapTypeOK ==
    /\ s \in Seq([k : Key, v : Value])
    /\ m = NoMap \/ (s = <<>> /\ \E D \in SUBSET Key : m \in [D -> Value])
    /\ Len(s) <= smallMapMax

\* The map a smallMap stands for.
Abs == IF m # NoMap THEN m ELSE FromSlice

\* No key is in the slice twice, so len, get, delete and the iterators all
\* speak of the same entries, on either side of the promotion.
EntriesUnique == /\ \A i, j \in DOMAIN s : s[i].k = s[j].k => i = j
                 /\ len = Cardinality(DOMAIN Abs)
                 /\ \A k \in Key : holds(k) <=> k \in DOMAIN Abs

\* Every call is a call of a map: promotion, the swap of deletion and the
\* choice of representation are invisible.
MapStep ==
    /\ \A k \in Key, v \in Value : set(k, v) => Abs' = With(Abs, k, v)
    /\ \A k \in Key : deleteKey(k) => Abs' = Without(Abs, k)

\* memory_smallmap.go: whoever uses a smallMap uses a map.
ImplementsMap == []EntriesUnique /\ [][MapStep]_mapVars
=============================================================================
