---------------------------- MODULE MemoryProofs ----------------------------
(***************************************************************************)
(* The memory store's iterators for any number of readers and writers, any *)
(* finite graph, any pages and any nesting: an iteration sees one state of *)
(* the graph and yields exactly its page of it. And the map of its inner   *)
(* levels for any keys, values and limit: a key has one entry, and setting *)
(* and deleting do what they do to a Go map, through the promotion and the *)
(* swap of deletion.                                                       *)
(***************************************************************************)
EXTENDS MemoryIterators, SmallMap, SequenceTheorems, FiniteSetTheorems, TLAPS

\* Where an iteration stands: every triple it began with is yielded, skipped or
\* left, skipping comes first, and it yields no more than its limit.
Accounted(f) ==
    /\ f.out \subseteq f.from /\ f.left \subseteq f.from /\ f.out \cap f.left = {}
    /\ Cardinality(f.out) + f.skipped + Cardinality(f.left) = Cardinality(f.from)
    /\ f.skipped <= f.offset
    /\ Cardinality(f.out) > 0 => f.skipped = f.offset
    /\ f.limit > 0 => Cardinality(f.out) <= f.limit

\* The iterations that may run while the graph is d.
Running(d) == {f \in Frame : f.from = d /\ Accounted(f)}

\* PageExact speaks of iterations that have ended: it needs to know how the
\* running ones stand. IterationSeesOneState is kept by the lock alone.
IterInv ==
    /\ data \subseteq Triple
    /\ frames \in [Reader -> Seq(Running(data))]
    /\ asks \in [Reader -> BOOLEAN]
    /\ wpc \in [Writer -> {"idle", "waiting"}]
    /\ page \in [Reader -> [out : SUBSET Triple, from : SUBSET Triple,
                            limit : Nat, offset : Nat, whole : BOOLEAN]]
    /\ PageExact

LEMMA Counts ==
    ASSUME NEW A \in SUBSET Triple
    PROVE  /\ IsFiniteSet(A) /\ Cardinality(A) \in Nat
           /\ Cardinality(A) = 0 <=> A = {}
BY GraphFinite, FS_Subset, FS_CardinalityType, FS_EmptySet

\* The innermost iteration, and the others.
LEMMA Innermost ==
    ASSUME NEW S, NEW q \in Seq(S), q # <<>>, NEW f \in S
    PROVE  Last(q) \in S /\ Front(q) \in Seq(S) /\ Append(Front(q), f) \in Seq(S)
<1>1. Len(q) \in Nat /\ Len(q) > 0 /\ \A i \in 1..Len(q) : q[i] \in S
  OBVIOUS
<1>2. \A i \in 1..(Len(q) - 1) : q[i] \in S
  BY <1>1
<1>3. Front(q) \in Seq(S)
  BY <1>1, <1>2, SubSeqProperties DEF Front
<1>4. Last(q) \in S
  BY <1>1 DEF Last
<1>. QED
  BY <1>3, <1>4, AppendProperties

\* An iteration that has just begun is in order.
LEMMA BegunAccounted ==
    ASSUME NEW d \in SUBSET Triple, NEW p \in Pages
    PROVE  [left |-> d, out |-> {}, from |-> d, limit |-> p[1], offset |-> p[2],
            skipped |-> 0, body |-> FALSE] \in Running(d)
<1>. DEFINE f == [left |-> d, out |-> {}, from |-> d, limit |-> p[1], offset |-> p[2],
                  skipped |-> 0, body |-> FALSE]
<1>1. p[1] \in Nat /\ p[2] \in Nat
  BY PagesAreCounts
<1>2. f \in Frame
  BY <1>1 DEF Frame
<1>3. Cardinality({}) = 0 /\ Cardinality(d) \in Nat
  BY Counts, FS_EmptySet
<1>4. Accounted(f)
  BY <1>1, <1>3 DEF Accounted
<1>. QED
  BY <1>2, <1>4 DEF Running

\* Looking at one more triple, to skip or to yield it.
LEMMA PassesAccounted ==
    ASSUME NEW d \in SUBSET Triple, NEW f \in Running(d), ~full(f), NEW t \in f.left
    PROVE  passes([f EXCEPT !.left = @ \ {t}], t) \in Running(d)
<1>. DEFINE g == passes([f EXCEPT !.left = @ \ {t}], t)
<1>1. f \in Frame /\ f.from = d /\ Accounted(f)
  BY DEF Running
<1>2. /\ f.left \in SUBSET Triple /\ f.out \in SUBSET Triple /\ f.limit \in Nat
      /\ f.offset \in Nat /\ f.skipped \in Nat /\ f.from \in SUBSET Triple
  BY <1>1 DEF Frame
<1>3. /\ Cardinality(f.out) \in Nat /\ Cardinality(f.left) \in Nat
      /\ Cardinality(f.from) \in Nat /\ IsFiniteSet(f.left) /\ IsFiniteSet(f.out)
  BY <1>2, Counts
<1>4. Cardinality(f.left \ {t}) = Cardinality(f.left) - 1
  BY <1>3, FS_RemoveElement
<1>5. t \notin f.out /\ t \in f.from /\ t \in Triple
  BY <1>1, <1>2 DEF Accounted
<1>6. Cardinality(f.out \cup {t}) = Cardinality(f.out) + 1
  BY <1>3, <1>5, FS_AddElement
<1>7. CASE f.skipped < f.offset
  <2>1. g = [left |-> f.left \ {t}, out |-> f.out, from |-> f.from, limit |-> f.limit,
             offset |-> f.offset, skipped |-> f.skipped + 1, body |-> f.body]
    BY <1>1, <1>7 DEF passes, Frame
  <2>. HIDE DEF g
  <2>2. /\ g \in Frame /\ g.left = f.left \ {t} /\ g.skipped = f.skipped + 1
        /\ g.out = f.out /\ g.from = f.from /\ g.limit = f.limit /\ g.offset = f.offset
    BY <1>1, <1>2, <2>1 DEF Frame
  <2>3. Cardinality(f.out) = 0
    BY <1>1, <1>2, <1>3, <1>7 DEF Accounted
  <2>4. Accounted(g)
    BY <1>1, <1>2, <1>3, <1>4, <1>7, <2>2, <2>3 DEF Accounted
  <2>. QED
    BY <1>1, <2>2, <2>4 DEF Running, g
<1>8. CASE ~(f.skipped < f.offset)
  <2>1. g = [left |-> f.left \ {t}, out |-> f.out \cup {t}, from |-> f.from,
             limit |-> f.limit, offset |-> f.offset, skipped |-> f.skipped, body |-> TRUE]
    BY <1>1, <1>8 DEF passes, Frame
  <2>. HIDE DEF g
  <2>2. /\ g \in Frame /\ g.left = f.left \ {t} /\ g.skipped = f.skipped
        /\ g.out = f.out \cup {t} /\ g.from = f.from /\ g.limit = f.limit
        /\ g.offset = f.offset
    BY <1>1, <1>2, <1>5, <2>1 DEF Frame
  <2>3. f.skipped = f.offset
    BY <1>1, <1>2, <1>8 DEF Accounted
  <2>4. f.limit > 0 => Cardinality(f.out) < f.limit
    BY <1>2, <1>3 DEF full
  <2>5. /\ g.out \subseteq g.from /\ g.left \subseteq g.from /\ g.out \cap g.left = {}
    BY <1>1, <1>5, <2>2 DEF Accounted
  <2>6. Cardinality(g.out) = Cardinality(f.out) + 1 /\ Cardinality(g.left) = Cardinality(f.left) - 1
    BY <1>4, <1>6, <2>2
  <2>7. Accounted(g)
    BY <1>1, <1>2, <1>3, <2>2, <2>3, <2>4, <2>5, <2>6 DEF Accounted
  <2>. QED
    BY <1>1, <2>2, <2>7 DEF Running, g
<1>. QED
  BY <1>7, <1>8

\* What an iteration that is through has yielded.
LEMMA ThroughIsPage ==
    ASSUME NEW d \in SUBSET Triple, NEW f \in Running(d), full(f) \/ f.left = {}
    PROVE  LET rest == IF Cardinality(f.from) > f.offset
                       THEN Cardinality(f.from) - f.offset ELSE 0
           IN  /\ f.out \subseteq f.from
               /\ Cardinality(f.out) =
                      IF f.limit > 0 /\ f.limit < rest THEN f.limit ELSE rest
<1>1. f \in Frame /\ Accounted(f)
  BY DEF Running
<1>2. /\ f.left \in SUBSET Triple /\ f.out \in SUBSET Triple /\ f.limit \in Nat
      /\ f.offset \in Nat /\ f.skipped \in Nat /\ f.from \in SUBSET Triple
  BY <1>1 DEF Frame
<1>3. /\ Cardinality(f.out) \in Nat /\ Cardinality(f.left) \in Nat
      /\ Cardinality(f.from) \in Nat /\ (f.left = {} => Cardinality(f.left) = 0)
  BY <1>2, Counts
<1>. DEFINE o == Cardinality(f.out)
            l == Cardinality(f.left)
            n == Cardinality(f.from)
<1>4. /\ o + f.skipped + l = n /\ f.skipped <= f.offset
      /\ o > 0 => f.skipped = f.offset
      /\ f.limit > 0 => o <= f.limit
      /\ (f.limit > 0 /\ o >= f.limit) \/ l = 0
      /\ o \in Nat /\ l \in Nat /\ n \in Nat
  BY <1>1, <1>3 DEF Accounted, full
<1>5. f.out \subseteq f.from
  BY <1>1 DEF Accounted
<1>. HIDE DEF o, l, n
<1>6. LET rest == IF n > f.offset THEN n - f.offset ELSE 0
      IN  o = IF f.limit > 0 /\ f.limit < rest THEN f.limit ELSE rest
  BY <1>2, <1>4
<1>. QED
  BY <1>5, <1>6 DEF o, n

LEMMA IterInitially == IterInit => IterInv
<1>. SUFFICES ASSUME IterInit PROVE IterInv
  OBVIOUS
<1>1. NoPage \in [out : SUBSET Triple, from : SUBSET Triple, limit : Nat, offset : Nat,
                  whole : BOOLEAN] /\ NoPage.whole = FALSE
  BY DEF NoPage
<1>. QED
  BY <1>1 DEF IterInit, IterInv, PageExact

\* A step that leaves the graph and the pages alone.
LEMMA SamePages ==
    ASSUME IterInv, UNCHANGED <<data, page>>,
           frames' \in [Reader -> Seq(Running(data))], asks' \in [Reader -> BOOLEAN],
           wpc' \in [Writer -> {"idle", "waiting"}]
    PROVE  IterInv'
<1>1. Running(data)' = Running(data)
  BY DEF Running, Accounted
<1>2. PageExact'
  BY DEF IterInv, PageExact
<1>. QED
  BY <1>1, <1>2 DEF IterInv

LEMMA ReaderStep ==
    ASSUME IterInv, NEW r \in Reader,
           BeginRange(r) \/ BeginNested(r) \/ RLock(r) \/ Yield(r)
    PROVE  IterInv'
<1>1. frames[r] \in Seq(Running(data)) /\ data \in SUBSET Triple
  BY DEF IterInv
<1>2. CASE BeginRange(r)
  BY <1>2, SamePages DEF BeginRange, IterInv
<1>3. CASE BeginNested(r)
  <2>1. Top(r) \in Running(data)
    BY <1>1, <1>3, Innermost DEF BeginNested, Top
  <2>2. [Top(r) EXCEPT !.body = FALSE] \in Running(data)
    BY <2>1 DEF Running, Accounted, Frame
  <2>3. Append(Front(frames[r]), [Top(r) EXCEPT !.body = FALSE]) \in Seq(Running(data))
    BY <1>1, <1>3, <2>2, Innermost DEF BeginNested
  <2>. QED
    BY <1>3, <2>3, SamePages DEF BeginNested, SetTop, IterInv
<1>4. CASE RLock(r)
  <2>1. PICK p \in Pages : frames' = [frames EXCEPT ![r] =
            Append(@, [left |-> data, out |-> {}, from |-> data, limit |-> p[1],
                       offset |-> p[2], skipped |-> 0, body |-> FALSE])]
    BY <1>4 DEF RLock
  <2>2. Append(frames[r], [left |-> data, out |-> {}, from |-> data, limit |-> p[1],
                           offset |-> p[2], skipped |-> 0, body |-> FALSE])
            \in Seq(Running(data))
    BY <1>1, BegunAccounted, AppendProperties
  <2>. QED
    BY <1>4, <2>1, <2>2, SamePages DEF RLock, IterInv
<1>5. CASE Yield(r)
  <2>1. Top(r) \in Running(data) /\ ~full(Top(r))
    BY <1>1, <1>5, Innermost DEF Yield, Top
  <2>2. PICK t \in Top(r).left :
            SetTop(r, passes([Top(r) EXCEPT !.left = @ \ {t}], t))
    BY <1>5 DEF Yield
  <2>3. passes([Top(r) EXCEPT !.left = @ \ {t}], t) \in Running(data)
    BY <1>1, <2>1, <2>2, PassesAccounted
  <2>4. Append(Front(frames[r]), passes([Top(r) EXCEPT !.left = @ \ {t}], t))
            \in Seq(Running(data))
    BY <1>1, <1>5, <2>3, Innermost DEF Yield
  <2>. QED
    BY <1>5, <2>2, <2>4, SamePages DEF Yield, SetTop, IterInv
<1>. QED
  BY <1>2, <1>3, <1>4, <1>5

LEMMA EndStep ==
    ASSUME IterInv, NEW r \in Reader, End(r)
    PROVE  IterInv'
<1>. DEFINE f == Top(r)
            pg == [out |-> f.out, from |-> f.from, limit |-> f.limit,
                   offset |-> f.offset, whole |-> full(f) \/ f.left = {}]
<1>1. frames[r] \in Seq(Running(data)) /\ data \in SUBSET Triple /\ frames[r] # <<>>
  BY DEF IterInv, End
<1>2. f \in Running(data) /\ Front(frames[r]) \in Seq(Running(data))
  BY <1>1, Innermost DEF Top
<1>3. f \in Frame
  BY <1>2 DEF Running
<1>4. page' = [page EXCEPT ![r] = pg]
  BY DEF End
<1>. HIDE DEF f
<1>5. pg \in [out : SUBSET Triple, from : SUBSET Triple, limit : Nat, offset : Nat,
              whole : BOOLEAN]
  BY <1>3 DEF Frame, full
<1>6. /\ pg.out = f.out /\ pg.from = f.from /\ pg.limit = f.limit /\ pg.offset = f.offset
      /\ pg.whole => full(f) \/ f.left = {}
  OBVIOUS
<1>. HIDE DEF pg
<1>7. PageExact'
  <2>. SUFFICES ASSUME NEW x \in Reader, page'[x].whole
                PROVE  LET rest == IF Cardinality(page'[x].from) > page'[x].offset
                                   THEN Cardinality(page'[x].from) - page'[x].offset ELSE 0
                       IN  /\ page'[x].out \subseteq page'[x].from
                           /\ Cardinality(page'[x].out) =
                                  IF page'[x].limit > 0 /\ page'[x].limit < rest
                                  THEN page'[x].limit ELSE rest
    BY DEF PageExact
  <2>1. CASE x = r
    <3>1. page'[x] = pg
      BY <1>4, <2>1 DEF IterInv
    <3>2. full(f) \/ f.left = {}
      BY <1>6, <3>1
    <3>. QED
      BY <1>1, <1>2, <1>6, <3>1, <3>2, ThroughIsPage
  <2>2. CASE x # r
    <3>1. page'[x] = page[x]
      BY <1>4, <2>2 DEF IterInv
    <3>. QED
      BY <3>1 DEF IterInv, PageExact
  <2>. QED
    BY <2>1, <2>2
<1>8. Running(data)' = Running(data)
  BY DEF Running, Accounted, End
<1>9. frames' \in [Reader -> Seq(Running(data))]
  BY <1>2 DEF End, IterInv
<1>. QED
  BY <1>4, <1>5, <1>7, <1>8, <1>9 DEF IterInv, End

LEMMA WriterStep ==
    ASSUME IterInv, NEW w \in Writer, CallWrite(w) \/ Write(w)
    PROVE  IterInv'
<1>1. CASE CallWrite(w)
  BY <1>1, SamePages DEF CallWrite, IterInv
<1>2. CASE Write(w)
  <2>1. \A r \in Reader : frames'[r] = <<>>
    BY <1>2 DEF Write, Reading
  <2>2. frames' \in [Reader -> Seq(Running(data'))]
    BY <1>2, <2>1 DEF Write, IterInv
  <2>3. PageExact'
    BY <1>2 DEF Write, IterInv, PageExact
  <2>4. Running(data)' = Running(data')
    BY DEF Running, Accounted
  <2>. QED
    BY <1>2, <2>2, <2>3, <2>4 DEF Write, IterInv
<1>. QED
  BY <1>1, <1>2

LEMMA IterInductive ==
    ASSUME IterInv, [IterNext]_iterVars
    PROVE  IterInv'
<1>1. CASE UNCHANGED iterVars
  BY <1>1, SamePages DEF iterVars, IterInv
<1>. QED
  BY <1>1, ReaderStep, EndStep, WriterStep DEF IterNext

\* store/memory.go, Triples and TriplesWithLimit: for every graph, page and
\* nesting, no write comes between the triples of an iteration, and one that
\* was not abandoned has yielded its page exactly.
THEOREM IterationsCorrect == IterSpec => []IterationsExact
<1>1. IterInv => IterationsExact
  <2>. SUFFICES ASSUME IterInv, NEW r \in Reader, NEW i \in DOMAIN frames[r]
                PROVE  frames[r][i].from = data
    BY DEF IterationsExact, IterationSeesOneState, IterInv
  <2>1. frames[r] \in Seq(Running(data))
    BY DEF IterInv
  <2>2. frames[r][i] \in Running(data)
    BY <2>1
  <2>. QED
    BY <2>2 DEF Running
<1>. QED
  BY <1>1, IterInitially, IterInductive, PTL DEF IterSpec
-----------------------------------------------------------------------------
Pair == [k : Key, v : Value]

\* The keys of a slice, and that none is there twice.
Keys(t) == {t[i].k : i \in DOMAIN t}
OnePerKey(t) == \A i, j \in DOMAIN t : t[i].k = t[j].k => i = j

\* What FromSlice makes of any slice.
MapOf(t) == [k \in Keys(t) |-> t[CHOOSE i \in {i \in DOMAIN t : t[i].k = k} : TRUE].v]

MapInv == MapTypeOK /\ OnePerKey(s)

LEMMA FromSliceIsMapOf == FromSlice = MapOf(s) /\ FromSlice' = MapOf(s')
BY DEF FromSlice, MapOf, Keys, Index

\* With one entry per key, the order of the slice does not show.
LEMMA MapOfValues ==
    ASSUME NEW t \in Seq(Pair), OnePerKey(t), NEW i \in DOMAIN t
    PROVE  t[i].k \in Keys(t) /\ MapOf(t)[t[i].k] = t[i].v
<1>1. {j \in DOMAIN t : t[j].k = t[i].k} = {i}
  BY DEF OnePerKey
<1>2. (CHOOSE j \in {j \in DOMAIN t : t[j].k = t[i].k} : TRUE) = i
  BY <1>1
<1>. QED
  BY <1>2 DEF MapOf, Keys

LEMMA MapOfType ==
    ASSUME NEW t \in Seq(Pair), OnePerKey(t)
    PROVE  Keys(t) \subseteq Key /\ DOMAIN MapOf(t) = Keys(t) /\ MapOf(t) \in [Keys(t) -> Value]
<1>1. \A i \in DOMAIN t : t[i].k \in Key /\ t[i].v \in Value
  <2>1. \A i \in DOMAIN t : t[i] \in Pair
    OBVIOUS
  <2>. QED
    BY <2>1 DEF Pair
<1>2. Keys(t) \subseteq Key
  BY <1>1 DEF Keys
<1>3. ASSUME NEW k \in Keys(t) PROVE MapOf(t)[k] \in Value
  <2>1. PICK i \in DOMAIN t : k = t[i].k
    BY DEF Keys
  <2>. QED
    BY <1>1, <2>1, MapOfValues
<1>. QED
  BY <1>2, <1>3 DEF MapOf

\* A function that has a slice's keys and values is what the slice stands for.
LEMMA MapOfEquals ==
    ASSUME NEW t \in Seq(Pair), OnePerKey(t), NEW f, f = [x \in Keys(t) |-> f[x]],
           \A i \in DOMAIN t : f[t[i].k] = t[i].v
    PROVE  MapOf(t) = f
<1>1. ASSUME NEW k \in Keys(t) PROVE MapOf(t)[k] = f[k]
  <2>1. PICK i \in DOMAIN t : k = t[i].k
    BY DEF Keys
  <2>. QED
    BY <2>1, MapOfValues
<1>2. MapOf(t) = [x \in Keys(t) |-> MapOf(t)[x]]
  BY DEF MapOf
<1>. QED
  BY <1>1, <1>2

\* A slice with one entry per key has as many keys as entries.
LEMMA KeysCounted ==
    ASSUME NEW t \in Seq(Pair), OnePerKey(t)
    PROVE  Cardinality(Keys(t)) = Len(t)
<1>. DEFINE f == [i \in 1..Len(t) |-> t[i].k]
<1>1. DOMAIN t = 1..Len(t) /\ Len(t) \in Nat
  OBVIOUS
<1>2. f \in Bijection(1..Len(t), Keys(t))
  BY <1>1 DEF Bijection, Injection, Surjection, IsInjective, Keys, OnePerKey
<1>. QED
  BY <1>1, <1>2, FS_CountingElements DEF ExistsBijection

LEMMA MapInitially == MapInit => MapInv
BY SmallMapMax DEF MapInit, MapInv, MapTypeOK, OnePerKey

\* The slice in its own right: its entries, and what it stands for.
LEMMA Slice ==
    ASSUME MapInv
    PROVE  /\ s \in Seq(Pair) /\ OnePerKey(s) /\ Len(s) \in Nat /\ DOMAIN s = 1..Len(s)
           /\ \A i \in DOMAIN s : s[i] \in Pair /\ s[i].k \in Key /\ s[i].v \in Value
           /\ m = NoMap => Abs = MapOf(s)
<1>1. s \in Seq(Pair) /\ OnePerKey(s)
  BY DEF MapInv, MapTypeOK, Pair
<1>2. \A i \in DOMAIN s : s[i] \in Pair
  BY <1>1
<1>. QED
  BY <1>1, <1>2, FromSliceIsMapOf DEF Pair, Abs

LEMMA SetStep ==
    ASSUME MapInv, NEW k \in Key, NEW v \in Value, set(k, v)
    PROVE  MapInv' /\ Abs' = With(Abs, k, v)
<1>1. CASE m # NoMap /\ m' = With(m, k, v) /\ UNCHANGED s
  <2>1. PICK D \in SUBSET Key : m \in [D -> Value]
    BY <1>1 DEF MapInv, MapTypeOK
  <2>2. m' \in [D \cup {k} -> Value]
    BY <1>1, <2>1 DEF With
  <2>3. D \cup {k} \in SUBSET Key /\ m' # NoMap
    BY <2>2, NoMapIsNone
  <2>. QED
    BY <1>1, <2>2, <2>3 DEF MapInv, MapTypeOK, OnePerKey, Abs
<1>2. CASE /\ m = NoMap /\ Index(k) # {}
           /\ s' = [i \in DOMAIN s |-> IF s[i].k = k THEN Entry(k, v) ELSE s[i]]
           /\ UNCHANGED m
  <2>1. Entry(k, v) \in Pair /\ Entry(k, v).k = k /\ Entry(k, v).v = v
    BY DEF Entry, Pair
  <2>2. s' \in Seq(Pair) /\ DOMAIN s' = DOMAIN s /\ Len(s') = Len(s)
    BY <1>2, <2>1, Slice
  <2>3. \A i \in DOMAIN s : s'[i].k = s[i].k /\ s'[i].v = IF s[i].k = k THEN v ELSE s[i].v
    BY <1>2, <2>1
  <2>4. OnePerKey(s') /\ Keys(s') = Keys(s) /\ k \in Keys(s)
    BY <1>2, <2>2, <2>3, Slice DEF OnePerKey, Keys, Index
  <2>5. MapInv'
    BY <1>2, <2>2, <2>4 DEF MapInv, MapTypeOK, Pair
  <2>6. MapOf(s') = With(MapOf(s), k, v)
    <3>1. DOMAIN MapOf(s) = Keys(s) /\ \A i \in DOMAIN s : MapOf(s)[s[i].k] = s[i].v
      BY Slice, MapOfType, MapOfValues
    <3>2. With(MapOf(s), k, v) = [x \in Keys(s') |-> IF x = k THEN v ELSE MapOf(s)[x]]
      BY <2>4, <3>1 DEF With
    <3>3. With(MapOf(s), k, v) = [x \in Keys(s') |-> With(MapOf(s), k, v)[x]]
      BY <3>2
    <3>4. \A i \in DOMAIN s' : With(MapOf(s), k, v)[s'[i].k] = s'[i].v
      BY <2>2, <2>3, <2>4, <3>1, <3>2 DEF Keys
    <3>. QED
      BY <2>2, <2>4, <3>3, <3>4, MapOfEquals
  <2>. QED
    BY <1>2, <2>5, <2>6, Slice, FromSliceIsMapOf DEF Abs
<1>3. CASE /\ m = NoMap /\ Index(k) = {} /\ fits /\ s' = Append(s, Entry(k, v))
           /\ UNCHANGED m
  <2>1. Entry(k, v) \in Pair /\ Entry(k, v).k = k /\ Entry(k, v).v = v
    BY DEF Entry, Pair
  <2>2. /\ s' \in Seq(Pair) /\ Len(s') = Len(s) + 1 /\ DOMAIN s' = 1..(Len(s) + 1)
        /\ \A i \in 1..Len(s) : s'[i] = s[i]
        /\ s'[Len(s) + 1] = Entry(k, v)
    BY <1>3, <2>1, Slice
  <2>3. DOMAIN s' = DOMAIN s \cup {Len(s) + 1} /\ Len(s) + 1 \notin DOMAIN s
    BY <2>2, Slice
  <2>4. \A i \in DOMAIN s : s[i].k # k
    BY <1>3 DEF Index
  <2>5. OnePerKey(s') /\ Keys(s') = Keys(s) \cup {k} /\ k \notin Keys(s)
    BY <2>1, <2>2, <2>3, <2>4, Slice DEF OnePerKey, Keys
  <2>6. MapInv'
    BY <1>3, <2>2, <2>5, Slice, SmallMapMax DEF MapInv, MapTypeOK, Pair, fits
  <2>7. MapOf(s') = With(MapOf(s), k, v)
    <3>1. DOMAIN MapOf(s) = Keys(s) /\ \A i \in DOMAIN s : MapOf(s)[s[i].k] = s[i].v
      BY Slice, MapOfType, MapOfValues
    <3>2. With(MapOf(s), k, v) = [x \in Keys(s') |-> IF x = k THEN v ELSE MapOf(s)[x]]
      BY <2>5, <3>1 DEF With
    <3>3. \A i \in DOMAIN s' : With(MapOf(s), k, v)[s'[i].k] = s'[i].v
      BY <2>1, <2>2, <2>3, <2>4, <3>1, <3>2, Slice DEF Keys
    <3>4. With(MapOf(s), k, v) = [x \in Keys(s') |-> With(MapOf(s), k, v)[x]]
      BY <3>2
    <3>5. s' \in Seq(Pair) /\ OnePerKey(s')
      BY <2>2, <2>5
    <3>. QED
      BY <3>3, <3>4, <3>5, MapOfEquals
  <2>. QED
    BY <1>3, <2>6, <2>7, Slice, FromSliceIsMapOf DEF Abs
<1>4. CASE m = NoMap /\ Index(k) = {} /\ ~fits /\ m' = promoted(k, v) /\ s' = <<>>
  <2>1. m' = With(MapOf(s), k, v)
    BY <1>4, FromSliceIsMapOf DEF promoted
  <2>2. m' \in [Keys(s) \cup {k} -> Value] /\ m' # NoMap
    <3>1. Keys(s) \in SUBSET Key /\ MapOf(s) \in [Keys(s) -> Value]
      BY Slice, MapOfType
    <3>2. m' \in [Keys(s) \cup {k} -> Value] /\ Keys(s) \cup {k} \in SUBSET Key
      BY <2>1, <3>1 DEF With
    <3>. QED
      BY <3>2, NoMapIsNone
  <2>3. MapInv'
    <3>1. Keys(s) \cup {k} \in SUBSET Key
      BY Slice, MapOfType
    <3>2. s' \in Seq(Pair) /\ Len(s') <= smallMapMax /\ OnePerKey(s')
      BY <1>4, SmallMapMax DEF OnePerKey
    <3>. QED
      BY <1>4, <2>2, <3>1, <3>2 DEF MapInv, MapTypeOK, Pair
  <2>. QED
    BY <1>4, <2>1, <2>2, <2>3, Slice DEF Abs
<1>. QED
  BY <1>1, <1>2, <1>3, <1>4 DEF set

LEMMA DeleteStep ==
    ASSUME MapInv, NEW k \in Key, deleteKey(k)
    PROVE  MapInv' /\ Abs' = Without(Abs, k)
<1>1. CASE m # NoMap /\ m' = Without(m, k) /\ UNCHANGED s
  <2>1. PICK D \in SUBSET Key : m \in [D -> Value]
    BY <1>1 DEF MapInv, MapTypeOK
  <2>2. m' \in [D \ {k} -> Value] /\ m' # NoMap
    BY <1>1, <2>1, NoMapIsNone DEF Without
  <2>. QED
    BY <1>1, <2>2 DEF MapInv, MapTypeOK, OnePerKey, Abs
<1>2. CASE m = NoMap /\ Index(k) = {} /\ s' = s /\ UNCHANGED m
  <2>1. k \notin Keys(s)
    BY <1>2 DEF Index, Keys
  <2>2. MapOf(s) = Without(MapOf(s), k)
    BY <2>1 DEF MapOf, Without
  <2>. QED
    BY <1>2, <2>2, Slice, FromSliceIsMapOf DEF MapInv, MapTypeOK, OnePerKey, Abs
<1>3. ASSUME NEW i \in Index(k), m = NoMap, UNCHANGED m,
             s' = SubSeq([s EXCEPT ![i] = s[Len(s)]], 1, Len(s) - 1)
      PROVE  MapInv' /\ Abs' = Without(Abs, k)
  <2>. DEFINE n == Len(s)
              u == [s EXCEPT ![i] = s[n]]
  <2>1. i \in 1..n /\ n \in Nat /\ n > 0 /\ n \in 1..n /\ s[i].k = k
    BY <1>3, Slice DEF Index
  <2>2. \A j \in 1..(n - 1) : j \in 1..n /\ u[j] = (IF j = i THEN s[n] ELSE s[j]) /\ u[j] \in Pair
    BY <2>1, Slice
  <2>3. /\ s' \in Seq(Pair) /\ Len(s') = n - 1 /\ DOMAIN s' = 1..(n - 1)
        /\ \A j \in 1..(n - 1) : s'[j] = IF j = i THEN s[n] ELSE s[j]
    <3>. HIDE DEF u
    <3>1. /\ SubSeq(u, 1, n - 1) \in Seq(Pair)
          /\ Len(SubSeq(u, 1, n - 1)) = IF 1 <= n - 1 THEN n - 1 - 1 + 1 ELSE 0
          /\ \A j \in 1..(n - 1 - 1 + 1) : SubSeq(u, 1, n - 1)[j] = u[1 + j - 1]
      BY <2>1, <2>2, SubSeqProperties
    <3>2. s' = SubSeq(u, 1, n - 1)
      BY <1>3 DEF u
    <3>3. Len(s') = n - 1 /\ s' \in Seq(Pair)
      <4>1. n \in Nat /\ n >= 1
        BY <2>1
      <4>. HIDE DEF n
      <4>2. Len(SubSeq(u, 1, n - 1)) = n - 1
        <5>. DEFINE z == Len(SubSeq(u, 1, n - 1))
        <5>1. z = IF 1 <= n - 1 THEN n - 1 - 1 + 1 ELSE 0
          BY <3>1, Zenon
        <5>. HIDE DEF z
        <5>2. z = n - 1
          BY <4>1, <5>1
        <5>. QED
          BY <5>2 DEF z
      <4>. QED
        BY <3>1, <3>2, <4>2, Zenon
    <3>4. DOMAIN s' = 1..(n - 1)
      BY <3>3
    <3>5. ASSUME NEW j \in 1..(n - 1) PROVE s'[j] = IF j = i THEN s[n] ELSE s[j]
      <4>1. j \in 1..(n - 1 - 1 + 1) /\ 1 + j - 1 = j
        BY <2>1
      <4>. QED
        BY <2>2, <3>1, <3>2, <4>1
    <3>. QED
      BY <3>3, <3>4, <3>5
  <2>. HIDE DEF n, u
  <2>4. OnePerKey(s')
    BY <2>1, <2>3, Slice DEF OnePerKey, n
  <2>5. Keys(s') = Keys(s) \ {k}
    <3>1. \A j \in 1..(n - 1) : s'[j].k \in Keys(s) \ {k}
      BY <2>1, <2>3, Slice DEF OnePerKey, Keys, n
    <3>2. ASSUME NEW j \in 1..n, s[j].k # k PROVE s[j].k \in Keys(s')
      <4>1. CASE j = n
        BY <2>1, <2>3, <3>2, <4>1 DEF Keys
      <4>2. CASE j # n
        <5>1. j \in 1..(n - 1) /\ j # i
          BY <2>1, <3>2, <4>2
        <5>. QED
          BY <2>3, <5>1 DEF Keys
      <4>. QED
        BY <4>1, <4>2
    <3>3. /\ \A x \in Keys(s) : \E j \in 1..n : x = s[j].k
          /\ \A x \in Keys(s') : \E j \in 1..(n - 1) : x = s'[j].k
      BY <2>3, Slice DEF Keys, n
    <3>. QED
      BY <3>1, <3>2, <3>3
  <2>6. MapInv'
    BY <1>3, <2>1, <2>3, <2>4, SmallMapMax DEF MapInv, MapTypeOK, Pair, n
  <2>7. MapOf(s') = Without(MapOf(s), k)
    <3>1. DOMAIN MapOf(s) = Keys(s) /\ \A j \in DOMAIN s : MapOf(s)[s[j].k] = s[j].v
      BY Slice, MapOfType, MapOfValues
    <3>2. Without(MapOf(s), k) = [x \in Keys(s') |-> MapOf(s)[x]]
      BY <2>5, <3>1 DEF Without
    <3>3. \A j \in 1..(n - 1) : MapOf(s)[s'[j].k] = s'[j].v /\ s'[j].k \in Keys(s')
      <4>1. \A j \in 1..(n - 1) : \E q \in DOMAIN s : s'[j] = s[q]
        BY <2>1, <2>3, Slice DEF n
      <4>. QED
        BY <2>3, <3>1, <4>1 DEF Keys
    <3>4. Without(MapOf(s), k) = [x \in Keys(s') |-> Without(MapOf(s), k)[x]]
      BY <3>2
    <3>5. \A j \in DOMAIN s' : Without(MapOf(s), k)[s'[j].k] = s'[j].v
      BY <2>3, <3>2, <3>3
    <3>. QED
      BY <2>3, <2>4, <3>4, <3>5, MapOfEquals
  <2>. QED
    BY <1>3, <2>6, <2>7, Slice, FromSliceIsMapOf DEF Abs
<1>. QED
  <2>1. Index(k) # {} => (CHOOSE i \in Index(k) : TRUE) \in Index(k)
    OBVIOUS
  <2>. QED
    BY <1>1, <1>2, <1>3, <2>1 DEF deleteKey

LEMMA MapInvMeans == MapInv => EntriesUnique
<1>. SUFFICES ASSUME MapInv PROVE EntriesUnique
  OBVIOUS
<1>1. CASE m # NoMap
  BY <1>1 DEF EntriesUnique, MapInv, OnePerKey, len, holds, Abs
<1>2. CASE m = NoMap
  <2>1. DOMAIN Abs = Keys(s) /\ Cardinality(Keys(s)) = Len(s)
    BY <1>2, Slice, MapOfType, KeysCounted
  <2>2. \A k \in Key : Index(k) # {} <=> k \in Keys(s)
    BY DEF Index, Keys
  <2>. QED
    BY <1>2, <2>1, <2>2, Slice DEF EntriesUnique, OnePerKey, len, holds
<1>. QED
  BY <1>1, <1>2

LEMMA MapInductive ==
    ASSUME MapInv, [MapNext]_mapVars
    PROVE  MapInv'
<1>1. CASE UNCHANGED mapVars
  BY <1>1 DEF mapVars, MapInv, MapTypeOK, OnePerKey
<1>. QED
  BY <1>1, SetStep, DeleteStep DEF MapNext

\* memory_smallmap.go: through promotion, replacement and deletion by swapping,
\* every key has one entry and every call is the call of a map.
THEOREM SmallMapIsMap == MapSpec => ImplementsMap
<1>1. ASSUME MapInv PROVE MapStep
  BY <1>1, SetStep, DeleteStep DEF MapStep
<1>2. MapSpec => []MapInv
  BY MapInitially, MapInductive, PTL DEF MapSpec
<1>3. MapSpec => []EntriesUnique
  BY <1>2, MapInvMeans, PTL
<1>4. MapSpec => [][MapStep]_mapVars
  BY <1>1, <1>2, PTL
<1>. QED
  BY <1>3, <1>4, PTL DEF ImplementsMap
=============================================================================
