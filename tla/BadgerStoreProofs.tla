-------------------------- MODULE BadgerStoreProofs --------------------------
(***************************************************************************)
(* The Badger store for any callers, calls and terms, as long as a batch   *)
(* fits into one transaction: the three indexes never come apart, so every *)
(* read is exact whichever of them answers; Set replaces what it saw and   *)
(* two Sets that replaced a value are never both kept; Remove takes what   *)
(* it saw and nothing else.                                                *)
(***************************************************************************)
EXTENDS BadgerStore, FiniteSetTheorems, TLAPS

Held(db) == {q \in Quad : spoKey(q[1], q[2]) \in DOMAIN db}

\* An index key with its triple, a named graph, or a name.
KeyKnown(db, k) ==
    \/ \E q \in Quad : k \in IndexKeys({q}) /\ db[k] = q[2]
    \/ \E g \in Graph : k = ctxKey(g)
    \/ k[1] \in {"n", "u"} /\ k = <<k[1], k[2]>>

\* The keys of a triple are there together, with the one of its graph.
Sound(db) ==
    /\ IsFiniteSet(DOMAIN db)
    /\ \A k \in DOMAIN db : KeyKnown(db, k)
    /\ \A q \in Held(db) : AllKeys({q}) \subseteq DOMAIN db
    /\ \A q \in Quad : IndexKeys({q}) \cap DOMAIN db # {} => q \in Held(db)

\* What a transaction sets: the keys of quads, or names.
Adds(sets, qs) ==
    /\ DOMAIN sets = AllKeys(qs)
    /\ \A q \in qs : \A k \in IndexKeys({q}) : sets[k] = q[2]
Binds(sets) ==
    /\ IsFiniteSet(DOMAIN sets)
    /\ \A k \in DOMAIN sets : k[1] \in {"n", "u"} /\ k = <<k[1], k[2]>>

Targets(g, pat) == {q \in Quad : q[1] = g /\ Matches(q[2], pat)}

\* The quads a transaction deletes.
Old(r) == {q \in Quad : spoKey(q[1], q[2]) \in r.dels}

AddKnown(r) ==
    r.x[1] = "add" /\ r.dels = {} /\ (DOMAIN r.sets = {} \/ Adds(r.sets, {<<r.x[2], r.x[3]>>}))
SetKnown(r) ==
    /\ r.x[1] = "set"
    /\ Adds(r.sets, {<<r.x[2], r.x[3]>>})
    /\ Old(r) \subseteq Targets(r.x[2], SamePair(r.x[3]))
    /\ r.dels = IndexKeys(Old(r))
    /\ r.reads = {spoKey(q[1], q[2]) : q \in Old(r)}
BindKnown(r) ==
    /\ r.x[1] = "bind" /\ r.dels = {}
    /\ r.sets = [k \in {nsKey(r.x[2]), nuKey(r.x[3])} |-> IF k[1] = "n" THEN r.x[3] ELSE r.x[2]]

RecordKnown(r) ==
    \/ r = Idle
    \/ /\ r.state = "batch" /\ r = Batch(r.x, 0)
       /\ r.x \in Calls /\ r.x[1] = "addn"
    \/ /\ r.state = "scanned" /\ r = Scanned(r.x, r.found, r.fresh)
       /\ r.x \in Calls /\ r.x[1] = "remove"
       /\ r.found \subseteq Targets(r.x[2], r.x[3])
       /\ r.fresh \subseteq Quad \X {"insert", "replace"}
    \/ /\ r.state = "txn" /\ r = Txn(r.x, r.reads, r.sets, r.dels, r.stale, r.fresh)
       /\ r.x \in Calls /\ (AddKnown(r) \/ SetKnown(r) \/ BindKnown(r))
       /\ r.stale \in BOOLEAN
       /\ r.fresh \subseteq Quad \X {"insert", "replace"}

CallsKnown ==
    /\ call = [c \in Callers |-> call[c]]
    /\ \A c \in Callers : RecordKnown(call[c])

Setting(r) == r.state = "txn" /\ r.x[1] = "set"
Live(r) == Setting(r) /\ ~r.stale
Seen(r) == {f[1] : f \in r.fresh}
Pair(r) == Targets(r.x[2], SamePair(r.x[3]))

\* What matches now, the call saw or another wrote since.
Tracked(r, db) ==
    /\ Setting(r) => Held(db) \cap Pair(r) \subseteq Old(r) \cup Seen(r)
    /\ r.state = "scanned" => Held(db) \cap Targets(r.x[2], r.x[3]) \subseteq r.found \cup Seen(r)

\* A Set that can still commit: what it saw is there, and no other replaced a
\* value of the pair unless it saw none.
Current(r, db) == Live(r) =>
    /\ Old(r) \subseteq Held(db)
    /\ \A q \in Pair(r) : <<q, "replace">> \in r.fresh => Old(r) = {}

\* Of two that can still commit, one saw all the other saw.
Nested(r, u) == Live(r) /\ Live(u) /\ Pair(r) = Pair(u) => Old(r) \subseteq Old(u) \/ Old(u) \subseteq Old(r)

BadgerInv ==
    /\ Sound(kv)
    /\ CallsKnown
    /\ \A c \in Callers : Tracked(call[c], kv) /\ Current(call[c], kv)
    /\ \A c, d \in Callers : c # d => Nested(call[c], call[d])
-----------------------------------------------------------------------------
\* Keys of different indexes differ, and the keys of a quad tell it.
LEMMA KeysTell ==
    ASSUME NEW q \in Quad, NEW r \in Quad
    PROVE  /\ spoKey(q[1], q[2]) = spoKey(r[1], r[2]) => q = r
           /\ posKey(q[1], q[2]) = posKey(r[1], r[2]) => q = r
           /\ ospKey(q[1], q[2]) = ospKey(r[1], r[2]) => q = r
           /\ spoKey(q[1], q[2]) # posKey(r[1], r[2])
           /\ spoKey(q[1], q[2]) # ospKey(r[1], r[2])
           /\ posKey(q[1], q[2]) # ospKey(r[1], r[2])
BY DEF Quad, Triple, spoKey, posKey, ospKey

LEMMA IndexKeysOf ==
    ASSUME NEW qs, NEW k
    PROVE  k \in IndexKeys(qs) <=>
              \E q \in qs : k \in {spoKey(q[1], q[2]), posKey(q[1], q[2]), ospKey(q[1], q[2])}
BY DEF IndexKeys

LEMMA AllKeysOf ==
    ASSUME NEW qs, NEW k
    PROVE  k \in AllKeys(qs) <=>
              k \in IndexKeys(qs) \/ \E q \in qs : q[1] # Default /\ k = ctxKey(q[1])
BY DEF AllKeys

\* A key of one quad is a key of a set of quads only if the quad is in it.
LEMMA KeysOfOne ==
    ASSUME NEW q \in Quad, NEW qs \in SUBSET Quad, NEW k \in IndexKeys({q})
    PROVE  /\ k \in IndexKeys(qs) <=> q \in qs
           /\ k \in AllKeys(qs) <=> q \in qs
           /\ \A g : k # ctxKey(g)
           /\ k[1] \notin {"n", "u"}
<1>1. k \in {spoKey(q[1], q[2]), posKey(q[1], q[2]), ospKey(q[1], q[2])}
  BY IndexKeysOf
<1>2. k \in IndexKeys(qs) <=> q \in qs
  BY <1>1, KeysTell, IndexKeysOf
<1>3. /\ \A g : k # ctxKey(g)
      /\ k[1] \notin {"n", "u"}
  BY <1>1 DEF spoKey, posKey, ospKey, ctxKey
<1>4. QED
  BY <1>2, <1>3, AllKeysOf

\* The graph keys.
LEMMA GraphKeys ==
    ASSUME NEW qs \in SUBSET Quad, NEW g
    PROVE  /\ ctxKey(g) \notin IndexKeys(qs)
           /\ ctxKey(g) \in AllKeys(qs) <=> g # Default /\ \E q \in qs : q[1] = g
           /\ ctxKey(g)[1] \notin {"n", "u"}
<1>1. ctxKey(g) \notin IndexKeys(qs)
  BY IndexKeysOf DEF ctxKey, spoKey, posKey, ospKey
<1>2. \A h : ctxKey(h) = ctxKey(g) <=> h = g
  BY DEF ctxKey
<1>3. ctxKey(g)[1] \notin {"n", "u"}
  BY DEF ctxKey
<1>4. QED
  BY <1>1, <1>2, <1>3, AllKeysOf

LEMMA OwnKeys ==
    ASSUME NEW q \in Quad
    PROVE  /\ {spoKey(q[1], q[2]), posKey(q[1], q[2]), ospKey(q[1], q[2])} = IndexKeys({q})
           /\ q[1] \in GraphRef /\ q[2] \in Triple /\ q = <<q[1], q[2]>>
<1>1. q[1] \in GraphRef /\ q[2] \in Triple /\ q = <<q[1], q[2]>>
  BY DEF Quad
<1>2. QED
  BY <1>1, IndexKeysOf

LEMMA FiniteKeys ==
    ASSUME NEW qs, IsFiniteSet(qs)
    PROVE  IsFiniteSet(AllKeys(qs))
<1> DEFINE spo == [q \in qs |-> spoKey(q[1], q[2])]
           pos == [q \in qs |-> posKey(q[1], q[2])]
           osp == [q \in qs |-> ospKey(q[1], q[2])]
           ctx == [q \in qs |-> ctxKey(q[1])]
           Image(f) == {f[q] : q \in qs}
<1>1. /\ spo \in Surjection(qs, Image(spo)) /\ pos \in Surjection(qs, Image(pos))
      /\ osp \in Surjection(qs, Image(osp)) /\ ctx \in Surjection(qs, Image(ctx))
  BY DEF Surjection
<1>2. /\ IsFiniteSet(Image(spo)) /\ IsFiniteSet(Image(pos))
      /\ IsFiniteSet(Image(osp)) /\ IsFiniteSet(Image(ctx))
  BY <1>1, FS_Surjection
<1>3. IsFiniteSet(((Image(spo) \cup Image(pos)) \cup Image(osp)) \cup Image(ctx))
  BY <1>2, FS_Union, Zenon
<1>4. AllKeys(qs) \in SUBSET (((Image(spo) \cup Image(pos)) \cup Image(osp)) \cup Image(ctx))
  BY AllKeysOf, IndexKeysOf
<1>5. QED
  BY <1>3, <1>4, FS_Subset
-----------------------------------------------------------------------------
\* The keys under a prefix of one to four parts.
LEMMA Prefix1 ==
    ASSUME NEW db, NEW k, NEW a
    PROVE  k \in iteratePrefix(db, <<a>>) <=> k \in DOMAIN db /\ 1 <= Len(k) /\ k[1] = a
<1>1. Len(<<a>>) = 1 /\ DOMAIN <<a>> = {1}
  OBVIOUS
<1>2. <<a>>[1] = a
  OBVIOUS
<1>3. QED
  BY <1>1, <1>2, Zenon DEF iteratePrefix

LEMMA Prefix2 ==
    ASSUME NEW db, NEW k, NEW a, NEW b
    PROVE  k \in iteratePrefix(db, <<a, b>>) <=> k \in DOMAIN db /\ 2 <= Len(k) /\ k[1] = a /\ k[2] = b
<1>1. Len(<<a, b>>) = 2 /\ DOMAIN <<a, b>> = {1, 2}
  OBVIOUS
<1>2. <<a, b>>[1] = a /\ <<a, b>>[2] = b
  OBVIOUS
<1>3. QED
  BY <1>1, <1>2, Zenon DEF iteratePrefix

LEMMA Prefix3 ==
    ASSUME NEW db, NEW k, NEW a, NEW b, NEW c
    PROVE  k \in iteratePrefix(db, <<a, b, c>>) <=> k \in DOMAIN db /\ 3 <= Len(k) /\ k[1] = a /\ k[2] = b /\ k[3] = c
<1>1. Len(<<a, b, c>>) = 3 /\ DOMAIN <<a, b, c>> = {1, 2, 3}
  OBVIOUS
<1>2. <<a, b, c>>[1] = a /\ <<a, b, c>>[2] = b /\ <<a, b, c>>[3] = c
  OBVIOUS
<1>3. QED
  BY <1>1, <1>2, Zenon DEF iteratePrefix

LEMMA Prefix4 ==
    ASSUME NEW db, NEW k, NEW a, NEW b, NEW c, NEW d
    PROVE  k \in iteratePrefix(db, <<a, b, c, d>>) <=> k \in DOMAIN db /\ 4 <= Len(k) /\ k[1] = a /\ k[2] = b /\ k[3] = c /\ k[4] = d
<1>1. Len(<<a, b, c, d>>) = 4 /\ DOMAIN <<a, b, c, d>> = {1, 2, 3, 4}
  OBVIOUS
<1>2. <<a, b, c, d>>[1] = a /\ <<a, b, c, d>>[2] = b /\ <<a, b, c, d>>[3] = c /\ <<a, b, c, d>>[4] = d
  OBVIOUS
<1>3. QED
  BY <1>1, <1>2, Zenon DEF iteratePrefix

\* In a sound database the first index holds the quads.
LEMMA FirstIndex ==
    ASSUME NEW db, Sound(db), NEW k \in DOMAIN db, k[1] \in {"s", "p", "o"}
    PROVE  \E q \in Held(db) :
              /\ db[k] = q[2]
              /\ k = IF k[1] = "s" THEN spoKey(q[1], q[2])
                     ELSE IF k[1] = "p" THEN posKey(q[1], q[2]) ELSE ospKey(q[1], q[2])
<1>1. PICK q \in Quad : k \in IndexKeys({q}) /\ db[k] = q[2]
  <2>1. KeyKnown(db, k)
    BY DEF Sound
  <2>2. \A g : ctxKey(g)[1] = "c"
    BY DEF ctxKey
  <2>3. QED
    BY <2>1, <2>2 DEF KeyKnown
<1>2. q \in Held(db)
  BY <1>1 DEF Sound
<1>3. k \in {spoKey(q[1], q[2]), posKey(q[1], q[2]), ospKey(q[1], q[2])}
  BY <1>1, OwnKeys
<1>4. QED
  BY <1>1, <1>2, <1>3 DEF spoKey, posKey, ospKey

LEMMA HeldKeys ==
    ASSUME NEW db, Sound(db), NEW q \in Held(db)
    PROVE  \A k \in {spoKey(q[1], q[2]), posKey(q[1], q[2]), ospKey(q[1], q[2])} :
              k \in DOMAIN db /\ db[k] = q[2]
<1>1. q \in Quad
  BY DEF Held
<1> SUFFICES ASSUME NEW k \in IndexKeys({q})
             PROVE  k \in DOMAIN db /\ db[k] = q[2]
  BY <1>1, OwnKeys
<1>2. k \in DOMAIN db
  BY AllKeysOf DEF Sound
<1>3. \A g : k # ctxKey(g)
  BY <1>1, KeysOfOne
<1>4. k[1] \notin {"n", "u"}
  BY <1>1, KeysOfOne
<1>5. PICK r \in Quad : k \in IndexKeys({r}) /\ db[k] = r[2]
  BY <1>2, <1>3, <1>4 DEF Sound, KeyKnown
<1>6. r \in {q}
  BY <1>1, <1>5, KeysOfOne
<1>7. QED
  BY <1>2, <1>5, <1>6

\* The parts of an index key.
LEMMA KeyParts ==
    ASSUME NEW q \in Quad
    PROVE  /\ q[1] \in GraphRef /\ q[2] \in Triple /\ q = <<q[1], q[2]>>
           /\ q[2] = <<q[2][1], q[2][2], q[2][3]>>
           /\ q[2][1] \in Subject /\ q[2][2] \in Predicate /\ q[2][3] \in Object
           /\ \A k : k = spoKey(q[1], q[2]) =>
                 Len(k) = 5 /\ k[1] = "s" /\ k[2] = q[1] /\ k[3] = q[2][1] /\ k[4] = q[2][2] /\ k[5] = q[2][3]
           /\ \A k : k = posKey(q[1], q[2]) =>
                 Len(k) = 5 /\ k[1] = "p" /\ k[2] = q[1] /\ k[3] = q[2][2] /\ k[4] = q[2][3] /\ k[5] = q[2][1]
           /\ \A k : k = ospKey(q[1], q[2]) =>
                 Len(k) = 5 /\ k[1] = "o" /\ k[2] = q[1] /\ k[3] = q[2][3] /\ k[4] = q[2][1] /\ k[5] = q[2][2]
BY DEF Quad, Triple, spoKey, posKey, ospKey

LEMMA QuadsAreHeld ==
    ASSUME NEW db, Sound(db)
    PROVE  QuadsIn(db) = Held(db)
<1>1. ASSUME NEW k \in iteratePrefix(db, <<"s">>)
      PROVE  <<k[2], db[k]>> \in Held(db)
  <2>1. k \in DOMAIN db /\ k[1] = "s"
    BY <1>1, Prefix1
  <2>2. PICK q \in Held(db) : db[k] = q[2] /\ k = spoKey(q[1], q[2])
    BY <2>1, FirstIndex
  <2>3. k[2] = q[1] /\ q = <<q[1], q[2]>>
    BY <2>2, KeyParts DEF Held
  <2>4. QED
    BY <2>2, <2>3
<1>2. ASSUME NEW q \in Held(db)
      PROVE  q \in QuadsIn(db)
  <2> DEFINE k == spoKey(q[1], q[2])
  <2>1. k \in DOMAIN db /\ db[k] = q[2]
    BY <1>2, HeldKeys
  <2>2. Len(k) = 5 /\ k[1] = "s" /\ k[2] = q[1] /\ q = <<q[1], q[2]>>
    BY KeyParts DEF Held
  <2> HIDE DEF k
  <2>3. k \in iteratePrefix(db, <<"s">>)
    <3>1. 1 <= Len(k) /\ k[1] = "s"
      BY <2>2
    <3>2. QED
      BY <2>1, <3>1, Prefix1, Zenon
  <2>4. QED
    BY <2>1, <2>2, <2>3 DEF QuadsIn
<1>3. QED
  BY <1>1, <1>2 DEF QuadsIn
-----------------------------------------------------------------------------
\* The quads of a graph that match, and the keys they have in one index.
Hits(db, pat, g) == Held(db) \cap Targets(g, pat)
SPO(qs) == {spoKey(q[1], q[2]) : q \in qs}
POS(qs) == {posKey(q[1], q[2]) : q \in qs}
OSP(qs) == {ospKey(q[1], q[2]) : q \in qs}

LEMMA MatchParts ==
    \A t, pat : Matches(t, pat) <=> pat[1] \in {Any, t[1]} /\ pat[2] \in {Any, t[2]} /\ pat[3] \in {Any, t[3]}
BY DEF Matches

\* To know which keys of an index a scan visits it is enough to know it of the
\* keys of quads.
LEMMA VisitedByIndex ==
    ASSUME NEW db, Sound(db), NEW V, V \subseteq DOMAIN db, NEW H \in SUBSET Held(db)
    PROVE  /\ /\ \A k \in V : k[1] = "s"
              /\ \A q \in Held(db) : spoKey(q[1], q[2]) \in V <=> q \in H
              => V = SPO(H)
           /\ /\ \A k \in V : k[1] = "p"
              /\ \A q \in Held(db) : posKey(q[1], q[2]) \in V <=> q \in H
              => V = POS(H)
           /\ /\ \A k \in V : k[1] = "o"
              /\ \A q \in Held(db) : ospKey(q[1], q[2]) \in V <=> q \in H
              => V = OSP(H)
<1>1. \A k \in V : k[1] = "s" => \E q \in Held(db) : k = spoKey(q[1], q[2])
  BY FirstIndex
<1>2. \A k \in V : k[1] = "p" => \E q \in Held(db) : k = posKey(q[1], q[2])
  BY FirstIndex
<1>3. \A k \in V : k[1] = "o" => \E q \in Held(db) : k = ospKey(q[1], q[2])
  BY FirstIndex
<1>4. QED
  BY <1>1, <1>2, <1>3 DEF SPO, POS, OSP

\* The index scanPrefix chooses and the prefix it builds.
LEMMA Chosen ==
    ASSUME NEW pat, NEW g
    PROVE  /\ pat[1] # Any /\ pat[2] # Any => scanPrefix(pat, g) = <<"s", g, pat[1], pat[2]>>
           /\ pat[1] # Any /\ pat[2] = Any /\ pat[3] # Any => scanPrefix(pat, g) = <<"o", g, pat[3], pat[1]>>
           /\ pat[1] # Any /\ pat[2] = Any /\ pat[3] = Any => scanPrefix(pat, g) = <<"s", g, pat[1]>>
           /\ pat[1] = Any /\ pat[2] # Any /\ pat[3] # Any => scanPrefix(pat, g) = <<"p", g, pat[2], pat[3]>>
           /\ pat[1] = Any /\ pat[2] # Any /\ pat[3] = Any => scanPrefix(pat, g) = <<"p", g, pat[2]>>
           /\ pat[1] = Any /\ pat[2] = Any /\ pat[3] # Any => scanPrefix(pat, g) = <<"o", g, pat[3]>>
           /\ pat[1] = Any /\ pat[2] = Any /\ pat[3] = Any => scanPrefix(pat, g) = <<"s", g>>
BY DEF scanPrefix

LEMMA VisitedAre ==
    ASSUME NEW db, Sound(db), NEW pat \in Pattern, NEW g
    PROVE  LET H == Hits(db, pat, g)
           IN  Visited(db, pat, g) \in {SPO(H), POS(H), OSP(H)}
<1> DEFINE H == Hits(db, pat, g)
           V == Visited(db, pat, g)
<1>1. H \in SUBSET Held(db)
  BY DEF Hits
<1>2. V \subseteq DOMAIN db
  BY DEF Visited, iteratePrefix
<1>3. \A q \in Held(db) :
         q \in H <=> /\ q[1] = g /\ pat[1] \in {Any, q[2][1]}
                     /\ pat[2] \in {Any, q[2][2]} /\ pat[3] \in {Any, q[2][3]}
  BY MatchParts DEF Hits, Targets, Held
<1>4. \A q \in Held(db) :
         /\ spoKey(q[1], q[2]) \in DOMAIN db /\ posKey(q[1], q[2]) \in DOMAIN db /\ ospKey(q[1], q[2]) \in DOMAIN db
         /\ q[2][1] # Any /\ q[2][2] # Any /\ q[2][3] # Any
  BY HeldKeys, KeyParts, AnyIsNoTerm DEF Held
<1>5. \A q \in Held(db) : \A k :
         /\ k = spoKey(q[1], q[2]) =>
               4 <= Len(k) /\ k[1] = "s" /\ k[2] = q[1] /\ k[3] = q[2][1] /\ k[4] = q[2][2]
         /\ k = posKey(q[1], q[2]) =>
               4 <= Len(k) /\ k[1] = "p" /\ k[2] = q[1] /\ k[3] = q[2][2] /\ k[4] = q[2][3]
         /\ k = ospKey(q[1], q[2]) =>
               4 <= Len(k) /\ k[1] = "o" /\ k[2] = q[1] /\ k[3] = q[2][3] /\ k[4] = q[2][1]
  BY KeyParts DEF Held
<1>6. CASE Bound(pat)
  <2>1. pat[1] # Any /\ pat[2] # Any /\ pat[3] # Any
    BY <1>6 DEF Bound
  <2>2. V = {spoKey(g, pat)} \cap DOMAIN db
    BY <1>6 DEF Visited
  <2>3. spoKey(g, pat)[1] = "s"
    BY DEF spoKey
  <2>4. \A q \in Held(db) : spoKey(q[1], q[2]) = spoKey(g, pat) <=>
           q[1] = g /\ q[2][1] = pat[1] /\ q[2][2] = pat[2] /\ q[2][3] = pat[3]
    BY DEF spoKey
  <2>5. \A q \in Held(db) : spoKey(q[1], q[2]) \in V <=> q \in H
    BY <1>3, <1>4, <2>1, <2>2, <2>4
  <2> HIDE DEF H, V
  <2>6. V = SPO(H)
    <3>1. \A k \in V : k[1] = "s"
      BY <2>2, <2>3
    <3>2. QED
      BY <1>1, <1>2, <2>5, <3>1, VisitedByIndex, Zenon
  <2>7. QED
    BY <2>6 DEF H, V
<1>7. CASE ~Bound(pat)
  <2>1. V = iteratePrefix(db, scanPrefix(pat, g))
    BY <1>7 DEF Visited
  <2>2. ~(pat[1] # Any /\ pat[2] # Any /\ pat[3] # Any)
    BY <1>7 DEF Bound
  <2> HIDE DEF H, V
  <2>3. CASE pat[1] # Any /\ pat[2] # Any
    <3>1. \A k : k \in V <=> k \in DOMAIN db /\ 4 <= Len(k) /\ k[1] = "s" /\ k[2] = g /\ k[3] = pat[1] /\ k[4] = pat[2]
      <4>1. V = iteratePrefix(db, <<"s", g, pat[1], pat[2]>>)
        BY <2>1, <2>3, Chosen, Zenon
      <4>2. QED
        BY <4>1, Prefix4
    <3>2. \A q \in Held(db) : spoKey(q[1], q[2]) \in V <=> q \in H
      BY <1>3, <1>4, <1>5, <2>2, <2>3, <3>1
    <3>3. QED
      BY <1>1, <1>2, <3>1, <3>2, VisitedByIndex DEF H, V
  <2>4. CASE pat[1] # Any /\ pat[2] = Any /\ pat[3] # Any
    <3>1. \A k : k \in V <=> k \in DOMAIN db /\ 4 <= Len(k) /\ k[1] = "o" /\ k[2] = g /\ k[3] = pat[3] /\ k[4] = pat[1]
      <4>1. V = iteratePrefix(db, <<"o", g, pat[3], pat[1]>>)
        BY <2>1, <2>4, Chosen, Zenon
      <4>2. QED
        BY <4>1, Prefix4
    <3>2. \A q \in Held(db) : ospKey(q[1], q[2]) \in V <=> q \in H
      BY <1>3, <1>4, <1>5, <2>4, <3>1
    <3>3. QED
      BY <1>1, <1>2, <3>1, <3>2, VisitedByIndex DEF H, V
  <2>5. CASE pat[1] # Any /\ pat[2] = Any /\ pat[3] = Any
    <3>1. \A k : k \in V <=> k \in DOMAIN db /\ 3 <= Len(k) /\ k[1] = "s" /\ k[2] = g /\ k[3] = pat[1]
      <4>1. V = iteratePrefix(db, <<"s", g, pat[1]>>)
        BY <2>1, <2>5, Chosen, Zenon
      <4>2. QED
        BY <4>1, Prefix3
    <3>2. \A q \in Held(db) : spoKey(q[1], q[2]) \in V <=> q \in H
      BY <1>3, <1>4, <1>5, <2>5, <3>1, KeyParts DEF Held
    <3>3. QED
      BY <1>1, <1>2, <3>1, <3>2, VisitedByIndex DEF H, V
  <2>6. CASE pat[1] = Any /\ pat[2] # Any /\ pat[3] # Any
    <3>1. \A k : k \in V <=> k \in DOMAIN db /\ 4 <= Len(k) /\ k[1] = "p" /\ k[2] = g /\ k[3] = pat[2] /\ k[4] = pat[3]
      <4>1. V = iteratePrefix(db, <<"p", g, pat[2], pat[3]>>)
        BY <2>1, <2>6, Chosen, Zenon
      <4>2. QED
        BY <4>1, Prefix4
    <3>2. \A q \in Held(db) : posKey(q[1], q[2]) \in V <=> q \in H
      BY <1>3, <1>4, <1>5, <2>6, <3>1
    <3>3. QED
      BY <1>1, <1>2, <3>1, <3>2, VisitedByIndex DEF H, V
  <2>7. CASE pat[1] = Any /\ pat[2] # Any /\ pat[3] = Any
    <3>1. \A k : k \in V <=> k \in DOMAIN db /\ 3 <= Len(k) /\ k[1] = "p" /\ k[2] = g /\ k[3] = pat[2]
      <4>1. V = iteratePrefix(db, <<"p", g, pat[2]>>)
        BY <2>1, <2>7, Chosen, Zenon
      <4>2. QED
        BY <4>1, Prefix3
    <3>2. \A q \in Held(db) : posKey(q[1], q[2]) \in V <=> q \in H
      BY <1>3, <1>4, <1>5, <2>7, <3>1, KeyParts DEF Held
    <3>3. QED
      BY <1>1, <1>2, <3>1, <3>2, VisitedByIndex DEF H, V
  <2>8. CASE pat[1] = Any /\ pat[2] = Any /\ pat[3] # Any
    <3>1. \A k : k \in V <=> k \in DOMAIN db /\ 3 <= Len(k) /\ k[1] = "o" /\ k[2] = g /\ k[3] = pat[3]
      <4>1. V = iteratePrefix(db, <<"o", g, pat[3]>>)
        BY <2>1, <2>8, Chosen, Zenon
      <4>2. QED
        BY <4>1, Prefix3
    <3>2. \A q \in Held(db) : ospKey(q[1], q[2]) \in V <=> q \in H
      BY <1>3, <1>4, <1>5, <2>8, <3>1, KeyParts DEF Held
    <3>3. QED
      BY <1>1, <1>2, <3>1, <3>2, VisitedByIndex DEF H, V
  <2>9. CASE pat[1] = Any /\ pat[2] = Any /\ pat[3] = Any
    <3>1. \A k : k \in V <=> k \in DOMAIN db /\ 2 <= Len(k) /\ k[1] = "s" /\ k[2] = g
      <4>1. V = iteratePrefix(db, <<"s", g>>)
        BY <2>1, <2>9, Chosen, Zenon
      <4>2. QED
        BY <4>1, Prefix2
    <3>2. \A q \in Held(db) : spoKey(q[1], q[2]) \in V <=> q \in H
      BY <1>3, <1>4, <1>5, <2>9, <3>1, KeyParts DEF Held
    <3>3. QED
      BY <1>1, <1>2, <3>1, <3>2, VisitedByIndex DEF H, V
  <2>10. QED
    BY <2>3, <2>4, <2>5, <2>6, <2>7, <2>8, <2>9
<1>8. QED
  BY <1>6, <1>7

\* The visited keys and the matching triples of a graph are one to one.
LEMMA ScanExact ==
    ASSUME NEW db, Sound(db), NEW pat \in Pattern, NEW g
    PROVE  LET H == Hits(db, pat, g)
               V == Visited(db, pat, g)
           IN  /\ scanTriples(db, pat, g) = {q[2] : q \in H}
               /\ IsFiniteSet({q[2] : q \in H})
               /\ Cardinality(V) = Cardinality({q[2] : q \in H})
<1> DEFINE H == Hits(db, pat, g)
           V == Visited(db, pat, g)
           T == {q[2] : q \in H}
           f == [k \in V |-> db[k]]
<1>1. \A q \in H : /\ q \in Held(db) /\ q \in Quad /\ q[1] = g
  BY DEF Hits, Targets
<1>2. \A q \in H :
         /\ db[spoKey(q[1], q[2])] = q[2] /\ db[posKey(q[1], q[2])] = q[2] /\ db[ospKey(q[1], q[2])] = q[2]
         /\ q = <<g, q[2]>>
  BY <1>1, HeldKeys, KeyParts
<1>3. V \in {SPO(H), POS(H), OSP(H)}
  BY VisitedAre
<1>4. V \in SUBSET DOMAIN db
  BY DEF Visited, iteratePrefix
<1>5. scanTriples(db, pat, g) = {db[k] : k \in V}
  BY DEF scanTriples
<1> HIDE DEF V, H
<1>6. {db[k] : k \in V} = T
  BY <1>2, <1>3 DEF SPO, POS, OSP
<1>7. \A k, l \in V : db[k] = db[l] => k = l
  BY <1>2, <1>3 DEF SPO, POS, OSP
<1>8. IsFiniteSet(V)
  BY <1>4, FS_Subset DEF Sound
<1>9. f \in Bijection(V, T)
  BY <1>6, <1>7, Zenon DEF Bijection, Injection, Surjection, IsInjective
<1>10. IsFiniteSet(T) /\ Cardinality(T) = Cardinality(V)
  BY <1>8, <1>9, FS_Bijection DEF ExistsBijection
<1>11. QED
  BY <1>5, <1>6, <1>10, Zenon DEF V, H

\* What a sound database answers, and that its indexes agree.
LEMMA SoundAgrees ==
    ASSUME Sound(kv)
    PROVE  IndexesAgree
<1>1. ASSUME NEW k \in DOMAIN kv, k[1] \in {"s", "p", "o"}
      PROVE  IndexKeys({<<k[2], kv[k]>>}) \subseteq DOMAIN kv
  <2>1. PICK q \in Held(kv) :
              /\ kv[k] = q[2]
              /\ k = IF k[1] = "s" THEN spoKey(q[1], q[2])
                     ELSE IF k[1] = "p" THEN posKey(q[1], q[2]) ELSE ospKey(q[1], q[2])
    BY <1>1, FirstIndex
  <2>2. q \in Quad
    BY DEF Held
  <2>3. k[2] = q[1] /\ q = <<q[1], q[2]>>
    BY <2>1, <2>2, KeyParts
  <2>4. IndexKeys({q}) \subseteq DOMAIN kv
    BY AllKeysOf DEF Sound
  <2>5. QED
    BY <2>1, <2>3, <2>4
<1>2. ASSUME NEW q \in Quads
      PROVE  q[1] \in Contexts(kv) \cup {Default}
  <2>1. q \in Held(kv) /\ q \in Quad
    BY QuadsAreHeld DEF Quads, Held
  <2> SUFFICES ASSUME q[1] # Default
               PROVE  q[1] \in Contexts(kv)
    OBVIOUS
  <2> DEFINE k == ctxKey(q[1])
  <2>2. k \in DOMAIN kv
    BY <2>1, AllKeysOf, Zenon DEF Sound
  <2>3. 1 <= Len(k) /\ k[1] = "c" /\ k[2] = q[1]
    BY DEF ctxKey
  <2> HIDE DEF k
  <2>4. k \in iteratePrefix(kv, <<"c">>)
    BY <2>2, <2>3, Prefix1, Zenon
  <2>5. QED
    BY <2>3, <2>4 DEF Contexts
<1>3. QED
  BY <1>1, <1>2 DEF IndexesAgree

LEMMA SoundReads ==
    ASSUME Sound(kv)
    PROVE  ReadsExact
<1> SUFFICES ASSUME NEW g \in GraphRef, NEW pat \in Pattern
             PROVE  LET hits == {q[2] : q \in {q \in Quads : q[1] = g /\ Matches(q[2], pat)}}
                        n == Cardinality(hits)
                    IN  /\ scanTriples(kv, pat, g) = hits
                        /\ Count(kv, pat, g) = n
                        /\ Exists(kv, pat, g) <=> n > 0
                        /\ pat = <<Any, Any, Any>> => LenOf(kv, g) = n
                        /\ n = TriplesWithLimit(kv, pat, g, 1, 0) + TriplesWithLimit(kv, pat, g, 0, 1)
                        /\ Bound(pat) /\ g # Default => (g \in ContextsWith(kv, pat) <=> n > 0)
  BY DEF ReadsExact
<1> DEFINE hits == {q[2] : q \in {q \in Quads : q[1] = g /\ Matches(q[2], pat)}}
           n == Cardinality(hits)
           V == Visited(kv, pat, g)
<1>1. {q \in Quads : q[1] = g /\ Matches(q[2], pat)} = Hits(kv, pat, g)
  BY QuadsAreHeld DEF Quads, Hits, Targets, Held
<1>2. hits = {q[2] : q \in Hits(kv, pat, g)}
  BY <1>1
<1>3. scanTriples(kv, pat, g) = hits /\ IsFiniteSet(hits) /\ Cardinality(V) = n
  BY <1>2, ScanExact
<1>4. Count(kv, pat, g) = n /\ n \in Nat
  BY <1>3, FS_CardinalityType DEF Count
<1>5. n > 0 <=> hits # {}
  BY <1>3, <1>4, FS_EmptySet
<1>6. Exists(kv, pat, g) <=> n > 0
  BY <1>3, <1>5 DEF Exists, scanTriples
<1>7. ASSUME pat = <<Any, Any, Any>>
      PROVE  LenOf(kv, g) = n
  <2>1. pat[1] = Any /\ pat[2] = Any /\ pat[3] = Any
    BY <1>7
  <2>2. V = iteratePrefix(kv, <<"s", g>>)
    BY <2>1, Chosen DEF Visited, Bound
  <2>3. QED
    BY <1>3, <2>2 DEF LenOf
<1>8. n = TriplesWithLimit(kv, pat, g, 1, 0) + TriplesWithLimit(kv, pat, g, 0, 1)
  <2> HIDE DEF n
  <2>1. QED
    BY <1>4 DEF TriplesWithLimit
<1>9. ASSUME Bound(pat), g # Default
      PROVE  g \in ContextsWith(kv, pat) <=> n > 0
  <2>1. V = {spoKey(g, pat)} \cap DOMAIN kv
    BY <1>9 DEF Visited
  <2>2. spoKey(g, pat) \in DOMAIN kv <=> n > 0
    BY <1>6, <2>1 DEF Exists
  <2>3. hits # {} => \E q \in Quads : q[1] = g
    OBVIOUS
  <2>4. n > 0 => g \in Contexts(kv)
    BY <1>5, <1>9, <2>3, SoundAgrees DEF IndexesAgree
  <2>5. QED
    BY <2>2, <2>4 DEF ContextsWith, hasKey
<1>10. QED
  BY <1>3, <1>4, <1>6, <1>7, <1>8, <1>9
-----------------------------------------------------------------------------
\* Writing the keys of quads and deleting the index keys of others does to the
\* quads what it says.
LEMMA WriteSound ==
    ASSUME NEW db, Sound(db), NEW qs \in SUBSET Quad, IsFiniteSet(qs), NEW ds \in SUBSET Quad,
           NEW sets, Adds(sets, qs), NEW dels, dels = IndexKeys(ds)
    PROVE  /\ Sound(Write(db, sets, dels))
           /\ Held(Write(db, sets, dels)) = (Held(db) \ ds) \cup qs
<1> DEFINE after == Write(db, sets, dels)
<1>1. DOMAIN after = (DOMAIN db \ IndexKeys(ds)) \cup AllKeys(qs)
  BY DEF Write, Adds
<1>2. \A k \in DOMAIN after : after[k] = IF k \in AllKeys(qs) THEN sets[k] ELSE db[k]
  BY DEF Write, Adds
<1> HIDE DEF after
<1>3. \A q \in Quad : \A k \in IndexKeys({q}) : k \in DOMAIN after <=> (k \in DOMAIN db /\ q \notin ds) \/ q \in qs
  BY <1>1, KeysOfOne
<1>4. \A q \in Quad : spoKey(q[1], q[2]) \in IndexKeys({q})
  BY OwnKeys
<1>5. Held(after) = (Held(db) \ ds) \cup qs
  BY <1>3, <1>4, Zenon DEF Held
<1>6. IsFiniteSet(DOMAIN after)
  <2>1. IsFiniteSet(AllKeys(qs))
    BY FiniteKeys
  <2>2. IsFiniteSet(DOMAIN db \cup AllKeys(qs))
    BY <2>1, FS_Union, Zenon DEF Sound
  <2>3. QED
    BY <1>1, <2>2, FS_Subset
<1>7. ASSUME NEW k \in DOMAIN after
      PROVE  KeyKnown(after, k)
  <2>1. CASE k \in IndexKeys(qs)
    <3>1. PICK q \in qs : k \in IndexKeys({q})
      BY <2>1, IndexKeysOf
    <3>2. after[k] = q[2]
      BY <1>2, <2>1, <3>1, AllKeysOf DEF Adds
    <3>3. QED
      BY <3>1, <3>2, Zenon DEF KeyKnown
  <2>2. CASE k \in AllKeys(qs) /\ k \notin IndexKeys(qs)
    <3>1. PICK q \in qs : q[1] # Default /\ k = ctxKey(q[1])
      BY <2>2, AllKeysOf
    <3>2. q[1] \in Graph
      BY <3>1, OwnKeys, Zenon DEF GraphRef
    <3>3. QED
      BY <3>1, <3>2 DEF KeyKnown
  <2>3. CASE k \notin AllKeys(qs)
    <3>1. k \in DOMAIN db /\ after[k] = db[k]
      BY <1>1, <1>2, <2>3
    <3>2. QED
      BY <3>1, Zenon DEF Sound, KeyKnown
  <2>4. QED
    BY <2>1, <2>2, <2>3
<1>8. ASSUME NEW q \in Held(after)
      PROVE  AllKeys({q}) \subseteq DOMAIN after
  <2>1. q \in Quad /\ q \in (Held(db) \ ds) \cup qs
    BY <1>5 DEF Held
  <2>2. CASE q \in qs
    BY <1>1, <2>2, AllKeysOf, IndexKeysOf
  <2>3. CASE q \in Held(db) /\ q \notin ds
    <3>1. AllKeys({q}) \subseteq DOMAIN db
      BY <2>3 DEF Sound
    <3>2. ctxKey(q[1]) \notin IndexKeys(ds)
      BY GraphKeys
    <3>3. ASSUME NEW k \in AllKeys({q})
          PROVE  k \in DOMAIN after
      <4>1. k \in DOMAIN db
        BY <3>1
      <4>2. CASE k \in IndexKeys({q})
        BY <1>3, <2>1, <2>3, <4>1, <4>2
      <4>3. CASE k = ctxKey(q[1])
        BY <1>1, <3>2, <4>1, <4>3
      <4>4. QED
        BY <4>2, <4>3, AllKeysOf
    <3>4. QED
      BY <3>3
  <2>4. QED
    BY <2>1, <2>2, <2>3
<1>9. ASSUME NEW q \in Quad, IndexKeys({q}) \cap DOMAIN after # {}
      PROVE  q \in Held(after)
  <2>1. PICK k \in IndexKeys({q}) : k \in DOMAIN after
    BY <1>9
  <2>2. (k \in DOMAIN db /\ q \notin ds) \/ q \in qs
    BY <1>3, <2>1
  <2>3. k \in DOMAIN db => q \in Held(db)
    BY DEF Sound
  <2>4. QED
    BY <1>5, <2>2, <2>3
<1>10. QED
  BY <1>5, <1>6, <1>7, <1>8, <1>9 DEF Sound, after

\* Writing names does nothing to them.
LEMMA WriteNames ==
    ASSUME NEW db, Sound(db), NEW sets, Binds(sets)
    PROVE  Sound(Write(db, sets, {})) /\ Held(Write(db, sets, {})) = Held(db)
<1> DEFINE after == Write(db, sets, {})
<1>1. DOMAIN after = DOMAIN db \cup DOMAIN sets
  BY DEF Write
<1>2. \A k \in DOMAIN after : after[k] = IF k \in DOMAIN sets THEN sets[k] ELSE db[k]
  BY DEF Write
<1> HIDE DEF after
<1>3. \A q \in Quad : \A k \in IndexKeys({q}) : k \notin DOMAIN sets
  BY KeysOfOne DEF Binds
<1>4. \A q \in Quad : spoKey(q[1], q[2]) \in IndexKeys({q})
  BY OwnKeys, Zenon
<1>5. Held(after) = Held(db)
  BY <1>1, <1>3, <1>4, Zenon DEF Held
<1>6. IsFiniteSet(DOMAIN after)
  <2>1. IsFiniteSet(DOMAIN db) /\ IsFiniteSet(DOMAIN sets)
    BY DEF Sound, Binds
  <2>2. QED
    BY <1>1, <2>1, FS_Union, Zenon
<1>7. \A k \in DOMAIN after : KeyKnown(after, k)
  <2>1. ASSUME NEW k \in DOMAIN sets
        PROVE  KeyKnown(after, k)
    BY Zenon DEF KeyKnown, Binds
  <2>2. ASSUME NEW k \in DOMAIN db, k \notin DOMAIN sets
        PROVE  KeyKnown(after, k)
    <3>1. after[k] = db[k] /\ KeyKnown(db, k)
      BY <1>1, <1>2, <2>2 DEF Sound
    <3>2. QED
      BY <3>1 DEF KeyKnown
  <2>3. QED
    BY <1>1, <2>1, <2>2
<1>8. \A q \in Held(after) : AllKeys({q}) \subseteq DOMAIN after
  BY <1>1, <1>5 DEF Sound
<1>9. \A q \in Quad : IndexKeys({q}) \cap DOMAIN after # {} => q \in Held(after)
  BY <1>1, <1>3, <1>5 DEF Sound
<1>10. QED
  BY <1>5, <1>6, <1>7, <1>8, <1>9 DEF Sound, after

\* The keys of a quad, one after the other.
LEMMA KeyOrder ==
    ASSUME NEW q
    PROVE  /\ DOMAIN QuadKeys(q) = IF q[1] = Default THEN 1..3 ELSE 1..4
           /\ {QuadKeys(q)[j] : j \in DOMAIN QuadKeys(q)} = AllKeys({q})
<1> DEFINE three == <<spoKey(q[1], q[2]), posKey(q[1], q[2]), ospKey(q[1], q[2])>>
<1>1. CASE q[1] = Default
  <2>1. QuadKeys(q) = three
    BY <1>1 DEF QuadKeys
  <2>2. DOMAIN three = {1, 2, 3}
    OBVIOUS
  <2>3. {three[j] : j \in {1, 2, 3}} = IndexKeys({q})
    BY IndexKeysOf
  <2>4. AllKeys({q}) = IndexKeys({q})
    BY <1>1 DEF AllKeys
  <2>5. QED
    BY <1>1, <2>1, <2>2, <2>3, <2>4
<1>2. CASE q[1] # Default
  <2> DEFINE four == <<spoKey(q[1], q[2]), posKey(q[1], q[2]), ospKey(q[1], q[2]), ctxKey(q[1])>>
  <2>1. QuadKeys(q) = four
    BY <1>2 DEF QuadKeys
  <2>2. DOMAIN four = {1, 2, 3, 4}
    OBVIOUS
  <2>3. {four[j] : j \in {1, 2, 3, 4}} = IndexKeys({q}) \cup {ctxKey(q[1])}
    BY IndexKeysOf
  <2>4. AllKeys({q}) = IndexKeys({q}) \cup {ctxKey(q[1])}
    BY <1>2, AllKeysOf
  <2>5. QED
    BY <1>2, <2>1, <2>2, <2>3, <2>4
<1>3. QED
  BY <1>1, <1>2

\* A batch that fits into a transaction is written by its first commit.
LEMMA BatchIsWhole ==
    ASSUME NEW s \in Seq(Quad), TxnKeys \in Nat, KeyCount(s, Len(s)) <= TxnKeys
    PROVE  /\ BatchKeys(s, 0, 0 + TxnKeys) = AllKeys({s[i] : i \in DOMAIN s})
           /\ {s[i] : i \in DOMAIN s} \in SUBSET Quad
           /\ IsFiniteSet({s[i] : i \in DOMAIN s})
<1> DEFINE Named(n) == {i \in 1..n : s[i][1] # Default}
<1>1. \A n \in Nat : IsFiniteSet(Named(n)) /\ Cardinality(Named(n)) \in Nat
  <2> SUFFICES ASSUME NEW n \in Nat
               PROVE  IsFiniteSet(Named(n)) /\ Cardinality(Named(n)) \in Nat
    OBVIOUS
  <2>1. IsFiniteSet(1..n)
    BY FS_Interval
  <2>2. IsFiniteSet(Named(n))
    BY <2>1, FS_Subset
  <2>3. QED
    BY <2>2, FS_CardinalityType
<1>2. \A n \in Nat : KeyCount(s, n) = 3 * n + Cardinality(Named(n))
  BY DEF KeyCount
<1>3. Len(s) \in Nat /\ DOMAIN s = 1..Len(s)
  OBVIOUS
<1>4. ASSUME NEW i \in DOMAIN s, NEW j \in DOMAIN QuadKeys(s[i])
      PROVE  KeyCount(s, i - 1) + j \in (0 + 1)..(0 + TxnKeys)
  <2>1. i \in 1..Len(s) /\ i - 1 \in Nat /\ i \in Nat
    BY <1>3
  <2>2. Cardinality(Named(i)) <= Cardinality(Named(Len(s)))
    <3>1. Named(i) \in SUBSET Named(Len(s))
      BY <1>3, <2>1
    <3> HIDE DEF Named
    <3>2. QED
      BY <1>1, <1>3, <3>1, FS_Subset
  <2>3. s[i][1] # Default => Cardinality(Named(i)) = Cardinality(Named(i - 1)) + 1
    <3>1. s[i][1] # Default => Named(i) = Named(i - 1) \cup {i} /\ i \notin Named(i - 1)
      BY <2>1
    <3> HIDE DEF Named
    <3>2. QED
      BY <1>1, <2>1, <3>1, FS_AddElement, Zenon
  <2>4. s[i][1] = Default => Named(i) = Named(i - 1)
    BY <2>1
  <2>5. j \in 1..4 /\ (s[i][1] = Default => j \in 1..3)
    <3>1. DOMAIN QuadKeys(s[i]) = IF s[i][1] = Default THEN 1..3 ELSE 1..4
      BY KeyOrder, Zenon
    <3>2. QED
      BY <3>1
  <2>6. /\ Cardinality(Named(i)) \in Nat /\ Cardinality(Named(i - 1)) \in Nat
        /\ Cardinality(Named(Len(s))) \in Nat
    BY <1>1, <1>3, <2>1, Zenon
  <2>7. /\ KeyCount(s, i - 1) = 3 * (i - 1) + Cardinality(Named(i - 1))
        /\ KeyCount(s, Len(s)) = 3 * Len(s) + Cardinality(Named(Len(s)))
    BY <1>2, <1>3, <2>1
  <2> HIDE DEF Named
  <2>8. Cardinality(Named(i - 1)) + j <= Cardinality(Named(i)) + 3
    <3>1. CASE s[i][1] = Default
      BY <2>4, <2>5, <2>6, <3>1
    <3>2. CASE s[i][1] # Default
      BY <2>3, <2>5, <2>6, <3>2
    <3>3. QED
      BY <3>1, <3>2
  <2>9. 3 * (i - 1) + 3 <= 3 * Len(s) /\ 3 * (i - 1) \in Nat
    BY <1>3, <2>1
  <2>10. KeyCount(s, i - 1) \in Nat /\ KeyCount(s, Len(s)) \in Nat
    BY <1>3, <2>6, <2>7, <2>9
  <2>11. KeyCount(s, i - 1) + j <= KeyCount(s, Len(s))
    <3>1. \A a, b, c, k, m, n \in Nat :
             a + n <= b + 3 /\ b <= c /\ k + 3 <= m => (k + a) + n <= m + c
      OBVIOUS
    <3>2. j \in Nat /\ 3 * Len(s) \in Nat
      BY <1>3, <2>5
    <3>3. QED
      BY <2>2, <2>6, <2>7, <2>8, <2>9, <3>1, <3>2
  <2>12. QED
    BY <2>5, <2>10, <2>11
<1>5. \A k : k \in BatchKeys(s, 0, 0 + TxnKeys) <=> \E i \in DOMAIN s : k \in AllKeys({s[i]})
  <2>1. \A k : k \in BatchKeys(s, 0, 0 + TxnKeys) <=>
           \E i \in DOMAIN s : k \in {QuadKeys(s[i])[j] : j \in DOMAIN QuadKeys(s[i])}
    BY <1>4 DEF BatchKeys
  <2>2. \A i \in DOMAIN s : {QuadKeys(s[i])[j] : j \in DOMAIN QuadKeys(s[i])} = AllKeys({s[i]})
    BY KeyOrder, Zenon
  <2>3. QED
    BY <2>1, <2>2, Zenon
<1>6. \A k : k \in AllKeys({s[i] : i \in DOMAIN s}) <=> \E i \in DOMAIN s : k \in AllKeys({s[i]})
  <2> TAKE k
  <2> DEFINE IsKey(q) == \/ k \in {spoKey(q[1], q[2]), posKey(q[1], q[2]), ospKey(q[1], q[2])}
                         \/ q[1] # Default /\ k = ctxKey(q[1])
  <2>1. \A qs : k \in AllKeys(qs) <=> \E q \in qs : IsKey(q)
    BY AllKeysOf, IndexKeysOf
  <2> HIDE DEF IsKey
  <2>2. QED
    BY <2>1, Zenon
<1>7. {s[i] : i \in DOMAIN s} \in SUBSET Quad
  BY <1>3
<1>9. IsFiniteSet({s[i] : i \in DOMAIN s})
  <2>1. s \in Surjection(1..Len(s), {s[i] : i \in DOMAIN s})
    BY <1>3 DEF Surjection
  <2>2. IsFiniteSet(1..Len(s))
    BY <1>3, FS_Interval
  <2>3. QED
    BY <2>1, <2>2, FS_Surjection
<1>10. QED
  BY <1>5, <1>6, <1>7, <1>9, Zenon

\* Every index key is set to its triple.
LEMMA EntriesAdd ==
    ASSUME NEW qs \in SUBSET Quad
    PROVE  Adds(Entries(AllKeys(qs)), qs)
<1>1. ASSUME NEW q \in Quad, NEW k \in IndexKeys({q})
      PROVE  ValueOf(k) = q[2]
  <2>1. q[2] = <<q[2][1], q[2][2], q[2][3]>>
    BY KeyParts
  <2>2. CASE k = spoKey(q[1], q[2])
    <3>1. /\ k[1] = "s" /\ k[1] # "p" /\ k[1] # "o" /\ k[1] # "c"
          /\ k[3] = q[2][1] /\ k[4] = q[2][2] /\ k[5] = q[2][3]
      BY <2>2, KeyParts
    <3>2. ValueOf(k) = <<k[3], k[4], k[5]>>
      BY <3>1, Zenon DEF ValueOf
    <3>3. QED
      BY <2>1, <3>1, <3>2
  <2>3. CASE k = posKey(q[1], q[2])
    <3>1. /\ k[1] = "p" /\ k[1] # "s" /\ k[1] # "o" /\ k[1] # "c"
          /\ k[3] = q[2][2] /\ k[4] = q[2][3] /\ k[5] = q[2][1]
      BY <2>3, KeyParts
    <3>2. ValueOf(k) = <<k[5], k[3], k[4]>>
      BY <3>1, Zenon DEF ValueOf
    <3>3. QED
      BY <2>1, <3>1, <3>2
  <2>4. CASE k = ospKey(q[1], q[2])
    <3>1. /\ k[1] = "o" /\ k[1] # "s" /\ k[1] # "p" /\ k[1] # "c"
          /\ k[3] = q[2][3] /\ k[4] = q[2][1] /\ k[5] = q[2][2]
      BY <2>4, KeyParts
    <3>2. ValueOf(k) = <<k[4], k[5], k[3]>>
      BY <3>1, Zenon DEF ValueOf
    <3>3. QED
      BY <2>1, <3>1, <3>2
  <2>5. QED
    BY <2>2, <2>3, <2>4, OwnKeys
<1>2. \A q \in qs : \A k \in IndexKeys({q}) : k \in AllKeys(qs)
  BY KeysOfOne
<1>3. QED
  BY <1>1, <1>2 DEF Adds, Entries
-----------------------------------------------------------------------------
\* Nothing is claimed of a caller that is idle.
LEMMA IdleIsFine ==
    /\ RecordKnown(Idle) /\ ~Live(Idle)
    /\ \A db : Tracked(Idle, db) /\ Current(Idle, db)
    /\ \A r : Nested(Idle, r) /\ Nested(r, Idle)
BY DEF Idle, RecordKnown, Live, Setting, Tracked, Current, Nested

\* A caller takes up or drops a call while the database stays as it is.
LEMMA CallerMoves ==
    ASSUME BadgerInv, NEW c \in Callers, NEW r,
           RecordKnown(r), Tracked(r, kv), Current(r, kv),
           \A d \in Callers \ {c} : Nested(r, call[d]) /\ Nested(call[d], r),
           kv' = kv, call' = [call EXCEPT ![c] = r]
    PROVE  BadgerInv'
<1>1. call' = [d \in Callers |-> IF d = c THEN r ELSE call[d]]
  BY DEF BadgerInv, CallsKnown
<1>2. Sound(kv')
  BY DEF BadgerInv
<1>3. CallsKnown'
  BY <1>1 DEF BadgerInv, CallsKnown
<1>4. \A d \in Callers : Tracked(call'[d], kv') /\ Current(call'[d], kv')
  BY <1>1 DEF BadgerInv
<1>5. \A d, e \in Callers : d # e => Nested(call'[d], call'[e])
  BY <1>1 DEF BadgerInv
<1>6. QED
  BY <1>2, <1>3, <1>4, <1>5 DEF BadgerInv

\* What is known of a call by its state.
LEMMA RecordsByState ==
    ASSUME NEW r, RecordKnown(r)
    PROVE  /\ r.state \in {"idle", "batch", "scanned", "txn"}
           /\ r.state = "idle" => r = Idle
           /\ r.state = "batch" => r = Batch(r.x, 0) /\ r.x \in Calls /\ r.x[1] = "addn"
           /\ r.state = "scanned" =>
                 /\ r.x \in Calls /\ r.x[1] = "remove"
                 /\ r.found \subseteq Targets(r.x[2], r.x[3])
                 /\ r.fresh \subseteq Quad \X {"insert", "replace"}
           /\ r.state = "txn" =>
                 /\ r.x \in Calls /\ (AddKnown(r) \/ SetKnown(r) \/ BindKnown(r))
                 /\ r.stale \in BOOLEAN
                 /\ r.fresh \subseteq Quad \X {"insert", "replace"}
           /\ Setting(r) => r.x \in Calls /\ SetKnown(r)
<1>1. Idle.state = "idle"
  BY DEF Idle
<1>2. \/ r = Idle
      \/ /\ r.state = "batch" /\ r = Batch(r.x, 0)
         /\ r.x \in Calls /\ r.x[1] = "addn"
      \/ /\ r.state = "scanned"
         /\ r.x \in Calls /\ r.x[1] = "remove"
         /\ r.found \subseteq Targets(r.x[2], r.x[3])
         /\ r.fresh \subseteq Quad \X {"insert", "replace"}
      \/ /\ r.state = "txn"
         /\ r.x \in Calls /\ (AddKnown(r) \/ SetKnown(r) \/ BindKnown(r))
         /\ r.stale \in BOOLEAN
         /\ r.fresh \subseteq Quad \X {"insert", "replace"}
  BY DEF RecordKnown
<1>3. (AddKnown(r) \/ SetKnown(r) \/ BindKnown(r)) /\ r.x[1] = "set" => SetKnown(r)
  BY DEF AddKnown, BindKnown
<1>4. QED
  BY <1>1, <1>2, <1>3 DEF Setting

\* What a commit that wrote w and added news makes of the record of another call.
Followed(r, w, news, u) ==
    /\ u.state = r.state
    /\ r.state \notin {"txn", "scanned"} => u = r
    /\ r.state = "scanned" => u = Scanned(r.x, r.found, r.fresh \cup news)
    /\ r.state = "txn" => /\ u.x = r.x /\ u.reads = r.reads /\ u.sets = r.sets
                          /\ u.dels = r.dels /\ u.fresh = r.fresh \cup news
                          /\ u = Txn(u.x, u.reads, u.sets, u.dels, u.stale, u.fresh)
                          /\ u.stale \in BOOLEAN
                          /\ ~u.stale => ~r.stale /\ r.reads \cap w = {}

LEMMA NoticedParts ==
    ASSUME NEW r, RecordKnown(r), NEW w, NEW news
    PROVE  Followed(r, w, news, Noticed(r, w, news))
BY Zenon DEF RecordKnown, Noticed, Followed, Txn, Scanned, Batch, Idle

\* The pair of a Set is decided by its graph, subject and predicate.
LEMMA SamePairs ==
    ASSUME NEW r, NEW u, NEW q, q = <<u.x[2], u.x[3]>>, q \in Pair(r), u.x[3] \in Triple, r.x[3] \in Triple
    PROVE  Pair(r) = Pair(u)
<1>1. SamePair(r.x[3]) = <<r.x[3][1], r.x[3][2], Any>> /\ SamePair(u.x[3]) = <<u.x[3][1], u.x[3][2], Any>>
  BY DEF SamePair
<1>2. /\ r.x[3][1] # Any /\ r.x[3][2] # Any
  BY AnyIsNoTerm DEF Triple
<1>3. /\ q[1] = r.x[2] /\ q[2][1] = r.x[3][1] /\ q[2][2] = r.x[3][2]
  BY <1>1, <1>2, MatchParts DEF Pair, Targets
<1>4. QED
  BY <1>1, <1>3 DEF Pair, Targets

\* c commits: it takes ds out and puts qs in, and is idle again. If it replaces
\* a value, it is a Set that was still current.
LEMMA CallerCommits ==
    ASSUME CallsGiven, BadgerInv, NEW c \in Callers, NEW sets, NEW dels, Apply(c, sets, dels, Idle),
           NEW qs \in SUBSET Quad, NEW ds \in SUBSET Quad,
           Sound(Write(kv, sets, dels)), Held(Write(kv, sets, dels)) = (Held(kv) \ ds) \cup qs,
           dels = IndexKeys(ds),
           call[c].x[1] = "set" /\ dels # {} =>
               /\ Live(call[c]) /\ ds = Old(call[c])
               /\ qs = {<<call[c].x[2], call[c].x[3]>>} /\ call[c].x \in Calls
    PROVE  BadgerInv'
<1> DEFINE w == DOMAIN sets \cup dels
           news == News(c, sets, dels)
           new == Held(kv') \ Held(kv)
<1>1. /\ kv' = Write(kv, sets, dels)
      /\ call' = [d \in Callers |-> IF d = c THEN Idle ELSE Noticed(call[d], w, news)]
  BY DEF Apply, Committed
<1>2. Sound(kv') /\ Held(kv') = (Held(kv) \ ds) \cup qs /\ Sound(kv)
  BY <1>1, Zenon DEF BadgerInv
<1>3. news = {<<q, IF call[c].x[1] = "set" /\ dels # {} THEN "replace" ELSE "insert">> : q \in new}
  BY <1>1, <1>2, QuadsAreHeld DEF News
<1>4. /\ news \subseteq Quad \X {"insert", "replace"}
      /\ {f[1] : f \in news} = new
  <2>1. new \subseteq Quad
    BY DEF Held
  <2> HIDE DEF new, news
  <2>2. PICK kind \in {"insert", "replace"} : news = {<<q, kind>> : q \in new}
    BY <1>3
  <2>3. news \subseteq Quad \X {"insert", "replace"}
    BY <2>1, <2>2
  <2>4. {f[1] : f \in news} = new
    <3>1. \A f \in news : f[1] \in new
      BY <2>2
    <3>2. \A q \in new : <<q, kind>> \in news /\ <<q, kind>>[1] = q
      BY <2>2
    <3>3. QED
      BY <3>1, <3>2, Zenon
  <2>5. QED
    BY <2>3, <2>4
<1>5. \A q : <<q, "replace">> \in news =>
         /\ Live(call[c]) /\ ds = Old(call[c]) /\ ds # {} /\ call[c].x \in Calls
         /\ q = <<call[c].x[2], call[c].x[3]>>
  <2> SUFFICES ASSUME NEW q, <<q, "replace">> \in news
               PROVE  /\ Live(call[c]) /\ ds = Old(call[c]) /\ ds # {} /\ call[c].x \in Calls
                      /\ q = <<call[c].x[2], call[c].x[3]>>
    OBVIOUS
  <2>1. call[c].x[1] = "set" /\ dels # {} /\ q \in new
    BY <1>3
  <2>2. q \in qs
    BY <1>2, <2>1
  <2>3. ds # {}
    BY <2>1, IndexKeysOf
  <2>4. QED
    BY <2>1, <2>2, <2>3
<1> HIDE DEF w, news, new
<1>6. \A d \in Callers : d # c => RecordKnown(call[d]) /\ Followed(call[d], w, news, call'[d])
  BY <1>1, NoticedParts, Zenon DEF BadgerInv, CallsKnown
<1>7. ASSUME NEW d \in Callers, d # c, Live(call'[d])
      PROVE  /\ Live(call[d]) /\ Old(call'[d]) = Old(call[d]) /\ Pair(call'[d]) = Pair(call[d])
             /\ call'[d].fresh = call[d].fresh \cup news
             /\ call[d].x \in Calls /\ call[d].x[1] = "set"
             /\ Old(call[d]) \cap ds = {}
  <2>1. /\ call[d].state = "txn" /\ call'[d].x = call[d].x /\ call'[d].dels = call[d].dels
        /\ call'[d].fresh = call[d].fresh \cup news
        /\ ~call[d].stale /\ call[d].reads \cap w = {} /\ call[d].x[1] = "set"
    BY <1>6, <1>7, Zenon DEF Followed, Live, Setting
  <2>2. call[d].reads = {spoKey(q[1], q[2]) : q \in Old(call[d])} /\ call[d].x \in Calls
    <3>1. RecordKnown(call[d]) /\ Setting(call[d])
      BY <1>6, <1>7, <2>1 DEF Setting
    <3>2. QED
      BY <3>1, RecordsByState, Zenon DEF SetKnown
  <2>3. \A q \in ds : spoKey(q[1], q[2]) \in w
    BY OwnKeys, IndexKeysOf, Zenon DEF w
  <2>4. QED
    BY <2>1, <2>2, <2>3 DEF Live, Setting, Old, Pair
<1>8. CallsKnown'
  <2>1. ASSUME NEW d \in Callers
        PROVE  RecordKnown(call'[d])
    <3>1. CASE d = c
      BY <1>1, <3>1, IdleIsFine, Zenon
    <3>2. CASE d # c /\ call[d].state = "txn"
      <4> DEFINE r == call[d]  u == call'[d]
      <4>1. /\ u.state = "txn" /\ u.x = r.x /\ u.reads = r.reads /\ u.sets = r.sets /\ u.dels = r.dels
            /\ u.fresh = r.fresh \cup news /\ u.stale \in BOOLEAN
            /\ u = Txn(u.x, u.reads, u.sets, u.dels, u.stale, u.fresh)
        BY <1>6, <3>2, Zenon DEF Followed
      <4>2. /\ r.x \in Calls /\ (AddKnown(r) \/ SetKnown(r) \/ BindKnown(r))
            /\ r.fresh \subseteq Quad \X {"insert", "replace"}
        BY <1>6, <3>2, RecordsByState
      <4> HIDE DEF r, u
      <4>3. AddKnown(u) \/ SetKnown(u) \/ BindKnown(u)
        BY <4>1, <4>2, Zenon DEF AddKnown, SetKnown, BindKnown, Old
      <4>4. RecordKnown(u)
        BY <1>4, <4>1, <4>2, <4>3, Zenon DEF RecordKnown
      <4>5. QED
        BY <4>4 DEF u
    <3>3. CASE d # c /\ call[d].state = "scanned"
      <4> DEFINE r == call[d]  u == call'[d]
      <4>1. u = Scanned(r.x, r.found, r.fresh \cup news) /\ RecordKnown(r) /\ r.state = "scanned"
        BY <1>6, <3>3, Zenon DEF Followed
      <4> HIDE DEF r, u
      <4>2. /\ r.x \in Calls /\ r.x[1] = "remove"
            /\ r.found \subseteq Targets(r.x[2], r.x[3])
            /\ r.fresh \subseteq Quad \X {"insert", "replace"}
        BY <4>1, RecordsByState, Zenon
      <4>3. /\ u.state = "scanned" /\ u.x = r.x /\ u.found = r.found /\ u.fresh = r.fresh \cup news
            /\ u = Scanned(u.x, u.found, u.fresh)
        BY <4>1, Zenon DEF Scanned
      <4>4. RecordKnown(u)
        BY <1>4, <4>2, <4>3 DEF RecordKnown
      <4>5. QED
        BY <4>4 DEF u
    <3>4. CASE d # c /\ call[d].state \notin {"txn", "scanned"}
      BY <1>6, <3>4, Zenon DEF Followed
    <3>5. QED
      BY <3>1, <3>2, <3>3, <3>4, Zenon
  <2>2. QED
    BY <1>1, <2>1 DEF CallsKnown
<1>9. ASSUME NEW d \in Callers
      PROVE  Tracked(call'[d], kv')
  <2>1. CASE d = c
    BY <1>1, <2>1, IdleIsFine, Zenon
  <2>2. CASE d # c /\ call[d].state = "txn"
    <3>1. /\ call'[d].state = "txn" /\ call'[d].x = call[d].x /\ call'[d].dels = call[d].dels
          /\ call'[d].fresh = call[d].fresh \cup news
      BY <1>6, <2>2, Zenon DEF Followed
    <3>2. Setting(call[d]) => Held(kv) \cap Pair(call[d]) \subseteq Old(call[d]) \cup Seen(call[d])
      BY Zenon DEF BadgerInv, Tracked
    <3>3. Seen(call'[d]) = Seen(call[d]) \cup new
      BY <1>4, <3>1, Zenon DEF Seen
    <3>4. QED
      BY <2>2, <3>1, <3>2, <3>3 DEF Tracked, Setting, Old, Pair, new
  <2>3. CASE d # c /\ call[d].state = "scanned"
    <3>1. /\ call'[d].state = "scanned" /\ call'[d].x = call[d].x /\ call'[d].found = call[d].found
          /\ call'[d].fresh = call[d].fresh \cup news
      <4>1. call'[d] = Scanned(call[d].x, call[d].found, call[d].fresh \cup news)
        BY <1>6, <2>3, Zenon DEF Followed
      <4>2. QED
        BY <4>1 DEF Scanned
    <3>2. Held(kv) \cap Targets(call[d].x[2], call[d].x[3]) \subseteq call[d].found \cup Seen(call[d])
      BY <2>3, Zenon DEF BadgerInv, Tracked
    <3>3. Seen(call'[d]) = Seen(call[d]) \cup new
      BY <1>4, <3>1 DEF Seen
    <3>4. QED
      BY <2>3, <3>1, <3>2, <3>3, Zenon DEF Tracked, Setting, new
  <2>4. CASE d # c /\ call[d].state \notin {"txn", "scanned"}
    BY <1>6, <2>4, Zenon DEF Followed, Tracked, Setting
  <2>5. QED
    BY <2>1, <2>2, <2>3, <2>4, Zenon
<1>10. ASSUME NEW d \in Callers, Live(call'[d])
       PROVE  /\ Old(call'[d]) \subseteq Held(kv')
              /\ \A q \in Pair(call'[d]) : <<q, "replace">> \in call'[d].fresh => Old(call'[d]) = {}
  <2>1. d # c
    BY <1>1, <1>10, IdleIsFine, Zenon
  <2>2. /\ Live(call[d]) /\ Old(call'[d]) = Old(call[d]) /\ Pair(call'[d]) = Pair(call[d])
        /\ call'[d].fresh = call[d].fresh \cup news
        /\ call[d].x \in Calls /\ call[d].x[1] = "set"
        /\ Old(call[d]) \cap ds = {}
    BY <1>7, <1>10, <2>1, Zenon
  <2>3. /\ Old(call[d]) \subseteq Held(kv)
        /\ \A q \in Pair(call[d]) : <<q, "replace">> \in call[d].fresh => Old(call[d]) = {}
    BY <2>2, Zenon DEF BadgerInv, Current
  <2>4. ASSUME NEW q \in Pair(call[d]), <<q, "replace">> \in news
        PROVE  Old(call[d]) = {}
    <3>1. /\ Live(call[c]) /\ ds = Old(call[c]) /\ ds # {} /\ call[c].x \in Calls
          /\ q = <<call[c].x[2], call[c].x[3]>>
      BY <1>5, <2>4, Zenon
    <3>2. call[c].x[3] \in Triple /\ call[d].x[3] \in Triple
      BY <2>2, <3>1, Zenon DEF CallsGiven, Live, Setting
    <3>3. Pair(call[d]) = Pair(call[c])
      BY <2>4, <3>1, <3>2, SamePairs, Zenon
    <3>4. Nested(call[d], call[c])
      BY <2>1 DEF BadgerInv
    <3>5. QED
      BY <2>2, <3>1, <3>3, <3>4, Zenon DEF Nested
  <2>5. QED
    BY <1>2, <2>2, <2>3, <2>4, Zenon
<1>11. ASSUME NEW d \in Callers, NEW e \in Callers, d # e
       PROVE  Nested(call'[d], call'[e])
  <2> SUFFICES ASSUME Live(call'[d]), Live(call'[e]), Pair(call'[d]) = Pair(call'[e])
               PROVE  Old(call'[d]) \subseteq Old(call'[e]) \/ Old(call'[e]) \subseteq Old(call'[d])
    BY Zenon DEF Nested
  <2>1. d # c /\ e # c
    BY <1>1, IdleIsFine, Zenon
  <2>2. /\ Live(call[d]) /\ Old(call'[d]) = Old(call[d]) /\ Pair(call'[d]) = Pair(call[d])
        /\ Live(call[e]) /\ Old(call'[e]) = Old(call[e]) /\ Pair(call'[e]) = Pair(call[e])
    BY <1>7, <2>1
  <2>3. QED
    BY <1>11, <2>2, Zenon DEF BadgerInv, Nested
<1>12. QED
  BY <1>2, <1>8, <1>9, <1>10, <1>11, Zenon DEF BadgerInv, Current
-----------------------------------------------------------------------------
\* The calls.

LEMMA CallTypes ==
    ASSUME CallsGiven, NEW x \in Calls
    PROVE  /\ x[1] \in {"add", "set"} => x[2] \in GraphRef /\ x[3] \in Triple /\ <<x[2], x[3]>> \in Quad
                                            /\ SamePair(x[3]) \in Pattern
           /\ x[1] = "remove" => x[2] \in GraphRef /\ x[3] \in Pattern
           /\ x[1] = "addn" => x[2] \in Seq(Quad)
BY DEF CallsGiven, Quad, SamePair, Pattern, Triple

\* A call that is neither a Set nor a Remove is only known.
LEMMA OthersAreFine ==
    ASSUME NEW r, ~Setting(r), r.state # "scanned"
    PROVE  /\ \A db : Tracked(r, db) /\ Current(r, db)
           /\ \A u : Nested(r, u) /\ Nested(u, r)
BY DEF Tracked, Current, Nested, Live

\* The quads a scan finds.
LEMMA Found ==
    ASSUME NEW db, Sound(db), NEW pat \in Pattern, NEW g
    PROVE  {<<g, t>> : t \in scanTriples(db, pat, g)} = Hits(db, pat, g)
<1>1. scanTriples(db, pat, g) = {q[2] : q \in Hits(db, pat, g)}
  BY ScanExact, Zenon
<1>2. \A q \in Hits(db, pat, g) : q = <<g, q[2]>>
  BY KeyParts DEF Hits, Targets
<1>3. QED
  BY <1>1, <1>2

LEMMA AddKeeps ==
    ASSUME CallsGiven, BadgerInv, NEW c \in Callers, NEW x \in Calls, Add(c, x)
    PROVE  BadgerInv'
<1> DEFINE q == <<x[2], x[3]>>
           sets == IF hasKey(kv, spoKey(x[2], x[3])) THEN <<>> ELSE Entries(AllKeys({q}))
           r == Txn(x, {spoKey(x[2], x[3])}, sets, {}, FALSE, {})
<1>1. x[1] = "add" /\ Begin(c, x, r)
  BY Zenon DEF Add
<1>2. q \in Quad
  BY <1>1, CallTypes
<1>3. DOMAIN sets = {} \/ Adds(sets, {q})
  BY <1>2, EntriesAdd
<1> HIDE DEF sets, q
<1>4. r.x = x /\ r.dels = {} /\ r.sets = sets /\ r.stale = FALSE /\ r.fresh = {} /\ r.state = "txn"
      /\ r.reads = {spoKey(x[2], x[3])}
  BY DEF Txn
<1>5. AddKnown(r)
  BY <1>1, <1>3, <1>4, Zenon DEF AddKnown, q
<1>6. r = Txn(r.x, r.reads, r.sets, r.dels, r.stale, r.fresh)
  BY <1>4, Zenon
<1> HIDE DEF r
<1>7. RecordKnown(r)
  BY <1>4, <1>5, <1>6, Zenon DEF RecordKnown
<1>8. ~Setting(r) /\ r.state # "scanned"
  BY <1>1, <1>4 DEF Setting
<1>9. QED
  BY <1>1, <1>7, <1>8, OthersAreFine, CallerMoves, Zenon DEF Begin

LEMMA BindKeeps ==
    ASSUME BadgerInv, NEW c \in Callers, NEW x \in Calls, Bind(c, x)
    PROVE  BadgerInv'
<1> DEFINE sets == [k \in {nsKey(x[2]), nuKey(x[3])} |-> IF k[1] = "n" THEN x[3] ELSE x[2]]
           r == Txn(x, {}, sets, {}, FALSE, {})
<1>1. x[1] = "bind" /\ Begin(c, x, r)
  BY Zenon DEF Bind
<1>2. r.x = x /\ r.dels = {} /\ r.sets = sets /\ r.stale = FALSE /\ r.fresh = {} /\ r.state = "txn"
      /\ r.reads = {}
  BY DEF Txn
<1>3. BindKnown(r)
  BY <1>1, <1>2, Zenon DEF BindKnown
<1>4. r = Txn(r.x, r.reads, r.sets, r.dels, r.stale, r.fresh)
  BY <1>2, Zenon
<1> HIDE DEF r, sets
<1>5. RecordKnown(r)
  BY <1>2, <1>3, <1>4, Zenon DEF RecordKnown
<1>6. ~Setting(r) /\ r.state # "scanned"
  BY <1>1, <1>2 DEF Setting
<1>7. QED
  BY <1>1, <1>5, <1>6, OthersAreFine, CallerMoves, Zenon DEF Begin

LEMMA AddNKeeps ==
    ASSUME BadgerInv, NEW c \in Callers, NEW x \in Calls, AddN(c, x)
    PROVE  BadgerInv'
<1> DEFINE r == IF x[2] = <<>> THEN Idle ELSE Batch(x, 0)
<1>1. x[1] = "addn" /\ Begin(c, x, r)
  BY DEF AddN
<1>2. r = Idle \/ (r = Batch(x, 0) /\ r.state = "batch" /\ r.x = x)
  BY Zenon DEF Batch
<1> HIDE DEF r
<1>3. RecordKnown(r)
  BY <1>1, <1>2 DEF RecordKnown
<1>4. ~Setting(r) /\ r.state # "scanned"
  BY <1>2 DEF Setting, Idle
<1>5. QED
  BY <1>1, <1>3, <1>4, OthersAreFine, CallerMoves, Zenon DEF Begin

\* Set starts from all that is there, so that it saw at least what any other Set
\* of the pair that can still commit saw.
LEMMA SetKeeps ==
    ASSUME CallsGiven, BadgerInv, NEW c \in Callers, NEW x \in Calls, Set(c, x)
    PROVE  BadgerInv'
<1> DEFINE g == x[2]  t == x[3]
           old == {<<g, u>> : u \in scanTriples(kv, SamePair(t), g)}
           reads == {spoKey(g, q[2]) : q \in old}
           sets == Entries(AllKeys({<<g, t>>}))
           r == Txn(x, reads, sets, IndexKeys(old), FALSE, {})
<1>1. x[1] = "set" /\ Begin(c, x, r)
  BY Zenon DEF Set
<1>2. <<g, t>> \in Quad /\ SamePair(t) \in Pattern
  BY <1>1, CallTypes, Zenon
<1>3. old = Hits(kv, SamePair(t), g)
  BY <1>2, Found DEF BadgerInv
<1>4. Adds(sets, {<<g, t>>})
  BY <1>2, EntriesAdd
<1> HIDE DEF old, reads, sets
<1>5. /\ r.x = x /\ r.dels = IndexKeys(old) /\ r.sets = sets /\ r.stale = FALSE /\ r.fresh = {}
      /\ r.state = "txn" /\ r.reads = reads
  BY DEF Txn
<1>6. r = Txn(r.x, r.reads, r.sets, r.dels, r.stale, r.fresh)
  BY <1>5, Zenon
<1> HIDE DEF r
<1>7. old \in SUBSET Quad /\ \A q \in old : q[1] = g
  BY <1>3, Zenon DEF Hits, Held, Targets
<1>8. Old(r) = old
  <2>1. \A q \in Quad : spoKey(q[1], q[2]) \in IndexKeys({q})
    BY OwnKeys
  <2>2. \A q \in Quad : spoKey(q[1], q[2]) \in IndexKeys(old) <=> q \in old
    BY <1>7, <2>1, KeysOfOne, Zenon
  <2>3. QED
    BY <1>5, <1>7, <2>2 DEF Old
<1>9. Pair(r) = Targets(g, SamePair(t)) /\ old = Held(kv) \cap Pair(r)
  BY <1>3, <1>5 DEF Pair, Hits
<1>10. SetKnown(r)
  <2>1. reads = {spoKey(q[1], q[2]) : q \in old}
    BY <1>7 DEF reads
  <2>2. QED
    BY <1>1, <1>4, <1>5, <1>8, <1>9, <2>1 DEF SetKnown
<1>11. RecordKnown(r)
  BY <1>5, <1>6, <1>10, Zenon DEF RecordKnown
<1>12. Tracked(r, kv) /\ Current(r, kv)
  BY <1>5, <1>8, <1>9 DEF Tracked, Current
<1>13. ASSUME NEW d \in Callers
       PROVE  Nested(r, call[d]) /\ Nested(call[d], r)
  <2>1. Live(call[d]) => Old(call[d]) \subseteq Held(kv) /\ Old(call[d]) \subseteq Pair(call[d])
    BY RecordsByState, Zenon DEF BadgerInv, CallsKnown, Current, Live, SetKnown, Pair
  <2>2. QED
    BY <1>8, <1>9, <2>1 DEF Nested
<1>14. QED
  BY <1>1, <1>11, <1>12, <1>13, CallerMoves, Zenon DEF Begin

LEMMA RemoveScanKeeps ==
    ASSUME CallsGiven, BadgerInv, NEW c \in Callers, NEW x \in Calls, RemoveScan(c, x)
    PROVE  BadgerInv'
<1> DEFINE found == {<<x[2], t>> : t \in scanTriples(kv, x[3], x[2])}
           r == IF found = {} THEN Idle ELSE Scanned(x, found, {})
<1>1. x[1] = "remove" /\ Begin(c, x, r)
  BY DEF RemoveScan
<1>2. found = Hits(kv, x[3], x[2])
  BY <1>1, CallTypes, Found, Zenon DEF BadgerInv
<1> HIDE DEF found
<1>3. CASE r = Idle
  BY <1>1, <1>3, IdleIsFine, CallerMoves DEF Begin
<1>4. CASE r = Scanned(x, found, {})
  <2>1. /\ r.state = "scanned" /\ r.x = x /\ r.found = found /\ r.fresh = {}
        /\ r = Scanned(r.x, r.found, r.fresh)
    BY <1>4 DEF Scanned
  <2> HIDE DEF r
  <2>2. RecordKnown(r)
    BY <1>1, <1>2, <2>1 DEF RecordKnown, Hits
  <2>3. Tracked(r, kv)
    BY <1>2, <2>1 DEF Tracked, Setting, Hits
  <2>4. ~Setting(r)
    BY <2>1 DEF Setting
  <2>5. Current(r, kv) /\ \A u : Nested(r, u) /\ Nested(u, r)
    BY <2>4 DEF Current, Nested, Live
  <2>6. QED
    BY <1>1, <2>2, <2>3, <2>5, CallerMoves, Zenon DEF Begin
<1>5. QED
  BY <1>3, <1>4, Zenon
-----------------------------------------------------------------------------
\* The commits.

\* What a transaction that may commit does to the quads.
LEMMA CommitDoes ==
    ASSUME CallsGiven, BadgerInv, NEW c \in Callers, Commit(c)
    PROVE  LET r == call[c]
               after == Write(kv, r.sets, r.dels)
           IN  /\ Sound(after)
               /\ r.x[1] = "set" => /\ Live(r) /\ r.x \in Calls /\ r.dels = IndexKeys(Old(r))
                                    /\ Old(r) \in SUBSET Quad /\ <<r.x[2], r.x[3]>> \in Quad
                                    /\ Held(after) = (Held(kv) \ Old(r)) \cup {<<r.x[2], r.x[3]>>}
               /\ r.x[1] # "set" => /\ r.dels = {}
                                    /\ \E qs \in SUBSET Quad : Held(after) = Held(kv) \cup qs
<1> DEFINE r == call[c]
           q == <<r.x[2], r.x[3]>>
           after == Write(kv, r.sets, r.dels)
<1>1. RecordKnown(r) /\ r.state = "txn" /\ (r.stale => DOMAIN r.sets = {}) /\ Sound(kv)
  BY DEF Commit, BadgerInv, CallsKnown
<1> HIDE DEF r
<1>2. r.x \in Calls /\ (AddKnown(r) \/ SetKnown(r) \/ BindKnown(r)) /\ r.stale \in BOOLEAN
  BY <1>1, RecordsByState, Zenon
<1>3. \A p : IsFiniteSet({p})
  BY FS_Singleton, Zenon
<1>4. IndexKeys({}) = {} /\ AllKeys({}) = {} /\ IsFiniteSet({})
  BY FS_EmptySet, Zenon DEF IndexKeys, AllKeys
<1>5. CASE SetKnown(r)
  <2>1. r.x[1] = "set" /\ Adds(r.sets, {q}) /\ r.dels = IndexKeys(Old(r))
    BY <1>5 DEF SetKnown
  <2>2. q \in Quad
    BY <1>2, <2>1, CallTypes
  <2>3. Old(r) \in SUBSET Quad
    BY DEF Old
  <2>4. DOMAIN r.sets # {}
    <3>1. spoKey(q[1], q[2]) \in AllKeys({q})
      BY <2>2, OwnKeys, AllKeysOf, Zenon
    <3>2. QED
      BY <2>1, <3>1 DEF Adds
  <2>5. Live(r)
    BY <1>1, <2>1, <2>4, Zenon DEF Live, Setting
  <2> HIDE DEF q
  <2>6. Sound(after) /\ Held(after) = (Held(kv) \ Old(r)) \cup {q}
    <3>1. {q} \in SUBSET Quad /\ IsFiniteSet({q})
      BY <1>3, <2>2, Zenon
    <3>2. QED
      BY <1>1, <2>1, <2>3, <3>1, WriteSound
  <2>7. QED
    BY <1>2, <2>1, <2>2, <2>3, <2>5, <2>6, Zenon DEF r, q
<1>6. CASE AddKnown(r) /\ DOMAIN r.sets = {}
  <2>1. r.x[1] = "add" /\ r.dels = IndexKeys({}) /\ Adds(r.sets, {})
    BY <1>4, <1>6 DEF AddKnown, Adds
  <2>2. Sound(after) /\ Held(after) = (Held(kv) \ {}) \cup {}
    <3> DEFINE none == {}
    <3>1. /\ none \in SUBSET Quad /\ IsFiniteSet(none)
          /\ r.dels = IndexKeys(none) /\ Adds(r.sets, none)
      BY <1>4, <2>1, Zenon
    <3> HIDE DEF none
    <3>2. Sound(after) /\ Held(after) = (Held(kv) \ none) \cup none
      BY <1>1, <3>1, WriteSound
    <3>3. QED
      BY <3>2 DEF none
  <2>3. QED
    BY <1>4, <2>1, <2>2, Zenon DEF r
<1>7. CASE AddKnown(r) /\ Adds(r.sets, {q})
  <2>1. r.x[1] = "add" /\ r.dels = IndexKeys({})
    BY <1>4, <1>7 DEF AddKnown
  <2>2. q \in Quad
    BY <1>2, <2>1, CallTypes, Zenon
  <2> HIDE DEF q
  <2>3. Sound(after) /\ Held(after) = (Held(kv) \ {}) \cup {q}
    <3>1. {q} \in SUBSET Quad /\ IsFiniteSet({q}) /\ {} \in SUBSET Quad
      BY <1>3, <2>2, Zenon
    <3>2. QED
      BY <1>1, <1>7, <2>1, <3>1, WriteSound
  <2>4. {q} \in SUBSET Quad
    BY <2>2, Zenon
  <2>5. QED
    BY <1>4, <2>1, <2>3, <2>4, Zenon DEF r
<1>8. CASE BindKnown(r)
  <2>1. r.x[1] = "bind" /\ r.dels = {} /\ DOMAIN r.sets = {nsKey(r.x[2]), nuKey(r.x[3])}
    BY <1>8 DEF BindKnown
  <2>2. \A k \in DOMAIN r.sets : k[1] \in {"n", "u"} /\ k = <<k[1], k[2]>>
    BY <2>1 DEF nsKey, nuKey
  <2>3. IsFiniteSet({nsKey(r.x[2])} \cup {nuKey(r.x[3])})
    BY <1>3, FS_Union, Zenon
  <2>4. {nsKey(r.x[2])} \cup {nuKey(r.x[3])} = DOMAIN r.sets
    BY <2>1, Zenon
  <2>5. Binds(r.sets)
    BY <2>2, <2>3, <2>4, Zenon DEF Binds
  <2>6. Sound(after) /\ Held(after) = Held(kv) \cup {}
    BY <1>1, <2>1, <2>5, WriteNames
  <2>7. QED
    BY <2>1, <2>6 DEF r
<1>9. QED
  BY <1>2, <1>5, <1>6, <1>7, <1>8, Zenon DEF AddKnown

LEMMA CommitKeeps ==
    ASSUME CallsGiven, BadgerInv, NEW c \in Callers, Commit(c)
    PROVE  BadgerInv'
<1> DEFINE sets == call[c].sets  dels == call[c].dels
<1>1. Apply(c, sets, dels, Idle)
  BY DEF Commit
<1>2. CASE call[c].x[1] = "set"
  <2> DEFINE qs == {<<call[c].x[2], call[c].x[3]>>}
             ds == Old(call[c])
  <2>1. /\ Live(call[c]) /\ call[c].x \in Calls /\ dels = IndexKeys(ds) /\ Sound(Write(kv, sets, dels))
        /\ ds \in SUBSET Quad /\ qs \in SUBSET Quad
        /\ Held(Write(kv, sets, dels)) = (Held(kv) \ ds) \cup qs
    BY <1>2, CommitDoes
  <2>2. QED
    BY <1>1, <2>1, CallerCommits, Zenon
<1>3. CASE call[c].x[1] # "set"
  <2>1. dels = {} /\ Sound(Write(kv, sets, dels))
    BY <1>3, CommitDoes, Zenon
  <2>2. PICK qs \in SUBSET Quad : Held(Write(kv, sets, dels)) = (Held(kv) \ {}) \cup qs
    BY <1>3, CommitDoes, Zenon
  <2>3. dels = IndexKeys({})
    BY <2>1, Zenon DEF IndexKeys
  <2>4. QED
    BY <1>1, <1>3, <2>1, <2>2, <2>3, CallerCommits, Zenon
<1>4. QED
  BY <1>2, <1>3

\* What the second transaction of Remove does to the quads.
LEMMA RemoveDoes ==
    ASSUME BadgerInv, NEW c \in Callers, RemoveDelete(c)
    PROVE  LET after == Write(kv, <<>>, IndexKeys(call[c].found))
           IN  /\ Sound(after) /\ Held(after) = Held(kv) \ call[c].found
               /\ call[c].found \in SUBSET Quad
               /\ call[c].found \subseteq Targets(call[c].x[2], call[c].x[3])
               /\ call[c].x \in Calls /\ call[c].x[1] = "remove"
<1>1. RecordKnown(call[c]) /\ call[c].state = "scanned" /\ Sound(kv)
  BY Zenon DEF RemoveDelete, BadgerInv, CallsKnown
<1>2. /\ call[c].found \subseteq Targets(call[c].x[2], call[c].x[3])
      /\ call[c].x \in Calls /\ call[c].x[1] = "remove"
  BY <1>1, RecordsByState
<1>3. call[c].found \in SUBSET Quad
  BY <1>2, Zenon DEF Targets
<1>4. Adds(<<>>, {})
  BY DEF Adds, AllKeys, IndexKeys
<1>5. IsFiniteSet({})
  BY FS_EmptySet, Zenon
<1> DEFINE after == Write(kv, <<>>, IndexKeys(call[c].found))
<1>6. Sound(after) /\ Held(after) = (Held(kv) \ call[c].found) \cup {}
  BY <1>1, <1>3, <1>4, <1>5, WriteSound
<1>7. QED
  BY <1>2, <1>3, <1>6

LEMMA RemoveKeeps ==
    ASSUME CallsGiven, BadgerInv, NEW c \in Callers, RemoveDelete(c)
    PROVE  BadgerInv'
<1>1. Apply(c, <<>>, IndexKeys(call[c].found), Idle)
  BY DEF RemoveDelete
<1>2. /\ Sound(Write(kv, <<>>, IndexKeys(call[c].found)))
      /\ Held(Write(kv, <<>>, IndexKeys(call[c].found))) = (Held(kv) \ call[c].found) \cup {}
      /\ call[c].found \in SUBSET Quad /\ call[c].x[1] # "set"
  BY RemoveDoes
<1>3. QED
  BY <1>1, <1>2, CallerCommits, Zenon

LEMMA BatchKeeps ==
    ASSUME CallsGiven, BatchesFit, BadgerInv, NEW c \in Callers, BatchCommit(c)
    PROVE  BadgerInv'
<1> DEFINE s == call[c].x[2]
           qs == {s[i] : i \in DOMAIN s}
           sets == Entries(AllKeys(qs))
<1>1. RecordKnown(call[c]) /\ call[c].state = "batch" /\ Sound(kv)
  BY Zenon DEF BatchCommit, BadgerInv, CallsKnown
<1>2. call[c] = Batch(call[c].x, 0) /\ call[c].x \in Calls /\ call[c].x[1] = "addn"
  BY <1>1, RecordsByState, Zenon
<1>3. call[c].done = 0
  BY <1>2 DEF Batch
<1>4. s \in Seq(Quad) /\ KeyCount(s, Len(s)) <= TxnKeys /\ TxnKeys \in Nat
  BY <1>2, Zenon DEF CallsGiven, BatchesFit
<1>5. BatchKeys(s, 0, 0 + TxnKeys) = AllKeys(qs) /\ qs \in SUBSET Quad /\ IsFiniteSet(qs)
  BY <1>4, BatchIsWhole, Zenon
<1>6. Apply(c, Entries(BatchKeys(s, 0, 0 + TxnKeys)), {}, Idle)
  <2>1. 0 + TxnKeys = TxnKeys
    BY <1>4
  <2>2. QED
    BY <1>3, <1>4, <2>1 DEF BatchCommit
<1> HIDE DEF s, qs
<1>7. Adds(sets, qs)
  BY <1>5, EntriesAdd
<1>8. IndexKeys({}) = {}
  BY Zenon DEF IndexKeys
<1>9. Sound(Write(kv, sets, {})) /\ Held(Write(kv, sets, {})) = (Held(kv) \ {}) \cup qs
  <2>1. {} \in SUBSET Quad
    OBVIOUS
  <2>2. QED
    BY <1>1, <1>5, <1>7, <1>8, <2>1, WriteSound
<1>10. Apply(c, sets, {}, Idle)
  BY <1>5, <1>6
<1> HIDE DEF sets
<1>11. QED
  BY <1>5, <1>8, <1>9, <1>10, CallerCommits, Zenon
-----------------------------------------------------------------------------
LEMMA InitSound == Init => BadgerInv
<1> SUFFICES ASSUME Init
             PROVE  BadgerInv
  OBVIOUS
<1>1. kv = <<>> /\ DOMAIN kv = {} /\ call = [c \in Callers |-> Idle]
  BY DEF Init
<1>2. Sound(kv)
  BY <1>1, FS_EmptySet DEF Sound, Held
<1>3. QED
  BY <1>1, <1>2, IdleIsFine DEF BadgerInv, CallsKnown

LEMMA AbandonKeeps ==
    ASSUME BadgerInv, NEW c \in Callers, Abandon(c)
    PROVE  BadgerInv'
BY IdleIsFine, CallerMoves, Zenon DEF Abandon

LEMMA NextKeeps ==
    ASSUME CallsGiven, BatchesFit, BadgerInv, [Next]_vars
    PROVE  BadgerInv'
<1>1. CASE UNCHANGED vars
  BY <1>1 DEF vars, BadgerInv, CallsKnown
<1>2. ASSUME NEW c \in Callers, NEW x \in Calls,
             Add(c, x) \/ Set(c, x) \/ Bind(c, x) \/ RemoveScan(c, x) \/ AddN(c, x)
      PROVE  BadgerInv'
  BY <1>2, AddKeeps, SetKeeps, BindKeeps, RemoveScanKeeps, AddNKeeps
<1>3. ASSUME NEW c \in Callers, Commit(c) \/ RemoveDelete(c) \/ BatchCommit(c)
      PROVE  BadgerInv'
  BY <1>3, CommitKeeps, RemoveKeeps, BatchKeeps
<1>4. ASSUME NEW c \in Callers, Conflict(c) \/ TooBig(c) \/ RemoveStop(c) \/ BatchStop(c)
      PROVE  BadgerInv'
  BY <1>4, AbandonKeeps DEF Conflict, TooBig, RemoveStop, BatchStop
<1>5. CASE Crash
  <2>1. kv' = kv /\ call' = [c \in Callers |-> Idle]
    BY <1>5 DEF Crash
  <2>2. QED
    BY <2>1, IdleIsFine DEF BadgerInv, CallsKnown
<1>6. QED
  BY <1>1, <1>2, <1>3, <1>4, <1>5 DEF Next

\* The three indexes hold the same triples and every graph with a triple is
\* registered, with any number of Add, AddN, Set and Remove calls interleaved,
\* in conflict, cancelled or cut off by a crash, if each batch of AddN fits into
\* one transaction. (badgerstore/store.go:134-330)
THEOREM BadgerIndexesAgree ==
    ASSUME CallsGiven, BatchesFit
    PROVE  Spec => []IndexesAgree
<1>1. BadgerInv => IndexesAgree
  BY SoundAgrees DEF BadgerInv
<1>2. BadgerInv /\ [Next]_vars => BadgerInv'
  BY NextKeeps
<1>3. QED
  BY <1>1, <1>2, InitSound, PTL DEF Spec

\* Whichever of the three indexes scanPrefix chooses, a read sees the matching
\* triples of the graph, all of them and no other, and Count, Exists, Len,
\* TriplesWithLimit and Contexts answer accordingly. (badgerstore/store.go:557-760)
THEOREM BadgerReadsExact ==
    ASSUME CallsGiven, BatchesFit
    PROVE  Spec => []ReadsExact
<1>1. BadgerInv => ReadsExact
  BY SoundReads DEF BadgerInv
<1>2. BadgerInv /\ [Next]_vars => BadgerInv'
  BY NextKeeps, Zenon
<1>3. QED
  BY <1>1, <1>2, InitSound, PTL DEF Spec

LEMMA SetReplaces ==
    ASSUME CallsGiven, BadgerInv
    PROVE  SetStep
<1> SUFFICES ASSUME NEW c \in Callers, Commit(c), call[c].x[1] = "set"
             PROVE  LET g == call[c].x[2]  t == call[c].x[3]
                    IN  /\ <<g, t>> \in Quads'
                        /\ \A q \in Quads' : q[1] = g /\ Matches(q[2], SamePair(t)) =>
                              \/ q = <<g, t>>
                              \/ \E f \in call[c].fresh :
                                    f[1] = q /\ (f[2] = "replace" => call[c].dels = {})
  BY DEF SetStep
<1> DEFINE r == call[c]
           new == <<r.x[2], r.x[3]>>
<1>1. kv' = Write(kv, r.sets, r.dels)
  BY DEF Commit, Apply
<1>2. /\ Live(r) /\ r.dels = IndexKeys(Old(r))
      /\ Sound(kv') /\ Held(kv') = (Held(kv) \ Old(r)) \cup {new}
  BY <1>1, CommitDoes, Zenon
<1>3. Quads' = Held(kv')
  BY <1>2, QuadsAreHeld DEF Quads
<1>4. RecordKnown(r) /\ Tracked(r, kv) /\ Current(r, kv)
  BY DEF BadgerInv, CallsKnown
<1> HIDE DEF r, new
<1>5. r.fresh \subseteq Quad \X {"insert", "replace"}
  BY <1>2, <1>4, RecordsByState, Zenon DEF Live, Setting
<1>6. ASSUME NEW q \in Held(kv'), q[1] = r.x[2], Matches(q[2], SamePair(r.x[3])), q # new
      PROVE  \E f \in r.fresh : f[1] = q /\ (f[2] = "replace" => r.dels = {})
  <2>1. q \in Quad /\ q \in Held(kv) /\ q \notin Old(r)
    BY <1>2, <1>6 DEF Held
  <2>2. q \in Pair(r)
    BY <1>6, <2>1, Zenon DEF Pair, Targets
  <2>3. PICK f \in r.fresh : f[1] = q
    BY <1>2, <1>4, <2>1, <2>2 DEF Tracked, Live, Seen
  <2>4. f = <<f[1], f[2]>>
    BY <1>5
  <2>5. f[2] = "replace" => Old(r) = {}
    BY <1>2, <1>4, <2>2, <2>3, <2>4 DEF Current
  <2>6. IndexKeys({}) = {}
    BY Zenon DEF IndexKeys
  <2>7. QED
    BY <1>2, <2>3, <2>5, <2>6, Zenon
<1>7. QED
  BY <1>2, <1>3, <1>6, Zenon DEF r, new

LEMMA RemoveTakes ==
    ASSUME CallsGiven, BadgerInv
    PROVE  RemoveStep
<1> SUFFICES ASSUME NEW c \in Callers, RemoveDelete(c)
             PROVE  LET g == call[c].x[2]  pat == call[c].x[3]
                    IN  /\ {<<g, t>> : t \in scanTriples(kv', pat, g)} \subseteq {f[1] : f \in call[c].fresh}
                        /\ \A q \in Quads \ Quads' : q[1] = g /\ Matches(q[2], pat)
  BY DEF RemoveStep
<1> DEFINE r == call[c]  g == call[c].x[2]  pat == call[c].x[3]
<1>1. kv' = Write(kv, <<>>, IndexKeys(r.found)) /\ r.state = "scanned"
  BY Zenon DEF RemoveDelete, Apply
<1>2. /\ Sound(kv') /\ Held(kv') = Held(kv) \ r.found /\ r.found \subseteq Targets(g, pat)
      /\ r.x \in Calls /\ r.x[1] = "remove"
  BY <1>1, RemoveDoes, Zenon
<1>3. Quads = Held(kv) /\ Quads' = Held(kv')
  BY <1>2, QuadsAreHeld DEF Quads, BadgerInv
<1>4. pat \in Pattern
  BY <1>2, CallTypes, Zenon
<1>5. {<<g, t>> : t \in scanTriples(kv', pat, g)} = Hits(kv', pat, g)
  BY <1>2, <1>4, Found, Zenon
<1>6. Held(kv) \cap Targets(g, pat) \subseteq r.found \cup Seen(r)
  BY <1>1, Zenon DEF BadgerInv, Tracked
<1>7. Hits(kv', pat, g) \subseteq Seen(r)
  BY <1>2, <1>6, Zenon DEF Hits
<1>8. \A q \in Quads \ Quads' : q[1] = g /\ Matches(q[2], pat)
  BY <1>2, <1>3, Zenon DEF Targets
<1>9. QED
  BY <1>5, <1>7, <1>8, Zenon DEF Seen

LEMMA BindPairs ==
    ASSUME CallsGiven, BadgerInv
    PROVE  BindStep
<1> SUFFICES ASSUME NEW c \in Callers, Commit(c), call[c].x[1] = "bind"
             PROVE  LET prefix == call[c].x[2]  namespace == call[c].x[3]
                    IN  /\ Namespace(kv', prefix) = {namespace} /\ Prefix(kv', namespace) = {prefix}
                        /\ \A b \in Namespaces(kv') : Namespace(kv', b[1]) = {b[2]}
  BY DEF BindStep
<1> DEFINE r == call[c]  prefix == call[c].x[2]  namespace == call[c].x[3]
<1>1. kv' = Write(kv, r.sets, r.dels) /\ RecordKnown(r) /\ r.state = "txn"
  BY DEF Commit, Apply, BadgerInv, CallsKnown
<1>2. BindKnown(r)
  BY <1>1, RecordsByState, Zenon DEF AddKnown, SetKnown
<1>3. /\ DOMAIN r.sets = {nsKey(prefix), nuKey(namespace)}
      /\ r.sets[nsKey(prefix)] = namespace /\ r.sets[nuKey(namespace)] = prefix
  BY <1>2, Zenon DEF BindKnown, nsKey, nuKey
<1>4. /\ nsKey(prefix) \in DOMAIN kv' /\ kv'[nsKey(prefix)] = namespace
      /\ nuKey(namespace) \in DOMAIN kv' /\ kv'[nuKey(namespace)] = prefix
  BY <1>1, <1>3, Zenon DEF Write
<1>5. Namespace(kv', prefix) = {namespace} /\ Prefix(kv', namespace) = {prefix}
  BY <1>4 DEF Namespace, Prefix, Get
<1>6. ASSUME NEW k \in iteratePrefix(kv', <<"n">>)
      PROVE  Namespace(kv', k[2]) = {kv'[k]}
  <2>1. k \in DOMAIN kv' /\ k[1] = "n"
    BY <1>6, Prefix1
  <2>2. Sound(kv')
    BY <1>1, CommitDoes, Zenon
  <2>3. KeyKnown(kv', k)
    BY <2>1, <2>2 DEF Sound
  <2>4. \A q \in Quad : k \notin IndexKeys({q})
    BY <2>1, KeysOfOne
  <2>5. \A g : k # ctxKey(g)
    BY <2>1, GraphKeys
  <2>6. k = nsKey(k[2])
    BY <2>1, <2>3, <2>4, <2>5, Zenon DEF KeyKnown, nsKey
  <2>7. QED
    BY <2>1, <2>6 DEF Namespace, Get
<1>7. \A b \in Namespaces(kv') : Namespace(kv', b[1]) = {b[2]}
  BY <1>6 DEF Namespaces
<1>8. QED
  BY <1>5, <1>7, Zenon

\* A Set that commits leaves its value under (s, p) and beside it only values
\* other calls inserted while it ran: Badger's conflict check on the keys Set
\* read is enough for two Sets that replaced a value never both to be kept.
\* (badgerstore/store.go:274-330)
THEOREM BadgerSetReplaces ==
    ASSUME CallsGiven, BatchesFit
    PROVE  Spec => [][SetStep]_vars
<1>1. BadgerInv /\ [Next]_vars => BadgerInv'
  BY NextKeeps
<1>2. BadgerInv => SetStep
  BY SetReplaces
<1>3. QED
  BY <1>1, <1>2, InitSound, PTL DEF Spec

\* Remove looks in one transaction and deletes in another: what is left of the
\* pattern was written in between, and nothing else is gone from any index.
\* (badgerstore/store.go:222-266)
THEOREM BadgerRemoveTakes ==
    ASSUME CallsGiven, BatchesFit
    PROVE  Spec => [][RemoveStep]_vars
<1>1. BadgerInv /\ [Next]_vars => BadgerInv'
  BY NextKeeps
<1>2. BadgerInv => RemoveStep
  BY RemoveTakes
<1>3. QED
  BY <1>1, <1>2, InitSound, PTL DEF Spec

\* Bind writes the prefix and the namespace in one transaction, so that each
\* leads to the other, and Namespaces lists what Namespace answers.
\* (badgerstore/store.go:446-550)
THEOREM BadgerBindPairs ==
    ASSUME CallsGiven, BatchesFit
    PROVE  Spec => [][BindStep]_vars
<1>1. BadgerInv /\ [Next]_vars => BadgerInv'
  BY NextKeeps
<1>2. BadgerInv => BindStep
  BY BindPairs
<1>3. QED
  BY <1>1, <1>2, InitSound, PTL DEF Spec
=============================================================================
