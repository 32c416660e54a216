---------------------------- MODULE BadgerStore ----------------------------
(***************************************************************************)
(* store/badgerstore: a triple is three keys of a Badger database, one per *)
(* index, and a named graph is remembered by a key of its own. Add, Set    *)
(* and Bind run in one transaction; Remove collects its keys in a read     *)
(* transaction and deletes them in a second one; AddN writes through a     *)
(* batch that starts a new transaction whenever one is full. A call with a *)
(* done context, and one on a closed database, returns before it touches   *)
(* anything.                                                               *)
(***************************************************************************)
EXTENDS Terms, Sequences, FiniteSets

CONSTANTS Callers,    \* goroutines using the store
          Calls,      \* what they may call
          MaxCalls,   \* how many calls are made in all
          TxnKeys     \* how many keys fit into one Badger transaction

VARIABLES kv,         \* the committed keys and their values
          call,       \* call[c]: the call caller c is in
          made        \* how many calls were started

vars == <<kv, call, made>>

\* The arguments have their Go types.
CallsGiven ==
    /\ TxnKeys \in Nat \ {0}
    /\ \A x \in Calls :
          /\ x[1] \in {"add", "set"} => x[2] \in GraphRef /\ x[3] \in Triple
          /\ x[1] = "remove" => x[2] \in GraphRef /\ x[3] \in Pattern
          /\ x[1] = "addn" => x[2] \in Seq(Quad)

\* encoding.go: the parts of a key are separated, so a scan prefix selects
\* by whole parts.
spoKey(g, t) == <<"s", g, t[1], t[2], t[3]>>
posKey(g, t) == <<"p", g, t[2], t[3], t[1]>>
ospKey(g, t) == <<"o", g, t[3], t[1], t[2]>>
nsKey(prefix) == <<"n", prefix>>
nuKey(namespace) == <<"u", namespace>>
ctxKey(g) == <<"c", g>>

\* The keys a quad is written under, in the order they are written. Only a
\* named graph is tracked.
QuadKeys(q) ==
    LET spo == spoKey(q[1], q[2])  pos == posKey(q[1], q[2])  osp == ospKey(q[1], q[2])
    IN  IF q[1] = Default THEN <<spo, pos, osp>> ELSE <<spo, pos, osp, ctxKey(q[1])>>

\* The same for a set of quads: what Remove and Set delete, and what is added.
IndexKeys(qs) == UNION {{spoKey(q[1], q[2]), posKey(q[1], q[2]), ospKey(q[1], q[2])} : q \in qs}
AllKeys(qs) == IndexKeys(qs) \cup {ctxKey(g) : g \in {q[1] : q \in qs} \ {Default}}

\* What a key is set to: the encoded triple under every index.
ValueOf(k) ==
    CASE k[1] = "s" -> <<k[3], k[4], k[5]>>
      [] k[1] = "p" -> <<k[5], k[3], k[4]>>
      [] k[1] = "o" -> <<k[4], k[5], k[3]>>
      [] k[1] = "c" -> <<>>

Entries(ks) == [k \in ks |-> ValueOf(k)]
-----------------------------------------------------------------------------
\* Reading one version of the database.

\* The index whose order starts with the bound positions.
scanPrefix(pat, g) ==
    LET s == pat[1]  p == pat[2]  o == pat[3]
    IN  IF s # Any /\ p # Any THEN <<"s", g, s, p>>
        ELSE IF s # Any /\ o # Any THEN <<"o", g, o, s>>
        ELSE IF s # Any THEN <<"s", g, s>>
        ELSE IF p # Any /\ o # Any THEN <<"p", g, p, o>>
        ELSE IF p # Any THEN <<"p", g, p>>
        ELSE IF o # Any THEN <<"o", g, o>>
        ELSE <<"s", g>>

\* The keys under a prefix.
iteratePrefix(db, prefix) ==
    {k \in DOMAIN db : Len(prefix) <= Len(k) /\ \A i \in DOMAIN prefix : k[i] = prefix[i]}

hasKey(db, k) == k \in DOMAIN db

Bound(pat) == \A i \in 1..3 : pat[i] # Any

\* The keys a read of the pattern visits: one lookup, or a prefix.
Visited(db, pat, g) ==
    IF Bound(pat) THEN {spoKey(g, pat)} \cap DOMAIN db
    ELSE iteratePrefix(db, scanPrefix(pat, g))

scanTriples(db, pat, g) == {db[k] : k \in Visited(db, pat, g)}
Count(db, pat, g) == Cardinality(Visited(db, pat, g))
Exists(db, pat, g) == Visited(db, pat, g) # {}
LenOf(db, g) == Cardinality(iteratePrefix(db, <<"s", g>>))

\* How many triples TriplesWithLimit yields: the first offset matches are
\* skipped, and a limit of zero or less is none.
TriplesWithLimit(db, pat, g, limit, offset) ==
    LET left == Count(db, pat, g) - offset
    IN  IF left <= 0 THEN 0 ELSE IF limit > 0 /\ limit < left THEN limit ELSE left

Contexts(db) == {k[2] : k \in iteratePrefix(db, <<"c">>)}
ContextsWith(db, t) == {g \in Contexts(db) : hasKey(db, spoKey(g, t))}

\* The value of a key, if there is one; what prefixes and namespaces are bound to.
Get(db, k) == {db[j] : j \in {k} \cap DOMAIN db}
Namespace(db, prefix) == Get(db, nsKey(prefix))
Prefix(db, namespace) == Get(db, nuKey(namespace))
Namespaces(db) == {<<k[2], db[k]>> : k \in iteratePrefix(db, <<"n">>)}
-----------------------------------------------------------------------------
Idle == [state |-> "idle"]

Init ==
    /\ kv = <<>>
    /\ call = [c \in Callers |-> Idle]
    /\ made = 0

\* The quads a version holds, by its first index.
QuadsIn(db) == {<<k[2], db[k]>> : k \in iteratePrefix(db, <<"s">>)}

\* A transaction that read these keys will set and delete those; it is stale
\* once another wrote what it read. fresh records the quads other calls write
\* meanwhile: inserted, or put in place of another by Set.
Txn(x, reads, sets, dels, stale, fresh) ==
    [state |-> "txn", x |-> x, reads |-> reads, sets |-> sets, dels |-> dels,
     stale |-> stale, fresh |-> fresh]

\* A Remove that found these quads and has yet to delete them.
Scanned(x, found, fresh) == [state |-> "scanned", x |-> x, found |-> found, fresh |-> fresh]

Batch(x, done) == [state |-> "batch", x |-> x, done |-> done]

Begin(c, x, rec) ==
    /\ call[c] = Idle
    /\ made < MaxCalls
    /\ made' = made + 1
    /\ call' = [call EXCEPT ![c] = rec]
    /\ UNCHANGED kv

\* Add looks for the triple first; one that is there is left alone.
Add(c, x) ==
    LET g == x[2]  t == x[3]  k == spoKey(g, t)
    IN  x[1] = "add" /\ Begin(c, x, Txn(x, {k}, IF hasKey(kv, k) THEN <<>>
                                                 ELSE Entries(AllKeys({<<g, t>>})), {}, FALSE, {}))

\* Mutant: the values Set replaces are read outside its transaction.
SetUntracked(c, x) ==
    LET g == x[2]  t == x[3]
        old == {<<g, u>> : u \in scanTriples(kv, SamePair(t), g)}
    IN  /\ x[1] = "set"
        /\ Begin(c, x, Txn(x, {}, Entries(AllKeys({<<g, t>>})), IndexKeys(old), FALSE, {}))

\* Set reads the values (s, p, *) of its version, deletes them and writes
\* the new one; Badger remembers the keys it read.
Set(c, x) ==
    LET g == x[2]  t == x[3]
        old == {<<g, u>> : u \in scanTriples(kv, SamePair(t), g)}
    IN  /\ x[1] = "set"
        /\ Begin(c, x, Txn(x, {spoKey(g, q[2]) : q \in old}, Entries(AllKeys({<<g, t>>})), IndexKeys(old), FALSE, {}))

\* A prefix bound again leaves the old namespace's entry as it is.
Bind(c, x) ==
    /\ x[1] = "bind"
    /\ Begin(c, x, Txn(x, {}, [k \in {nsKey(x[2]), nuKey(x[3])} |->
                                  IF k[1] = "n" THEN x[3] ELSE x[2]], {}, FALSE, {}))

\* The first transaction of Remove: nothing to do when nothing matches.
RemoveScan(c, x) ==
    LET found == {<<x[2], t>> : t \in scanTriples(kv, x[3], x[2])}
    IN  /\ x[1] = "remove"
        /\ Begin(c, x, IF found = {} THEN Idle ELSE Scanned(x, found, {}))

\* AddN: the keys of all quads go into a write batch, in order; done of them
\* are committed.
AddN(c, x) ==
    /\ x[1] = "addn"
    /\ Begin(c, x, IF x[2] = <<>> THEN Idle ELSE Batch(x, 0))

\* The number of the keys of the first n quads: three and one for a named graph.
KeyCount(s, n) == 3 * n + Cardinality({i \in 1..n : s[i][1] # Default})

\* Key j of quad i is key KeyCount(s, i - 1) + j of the batch.
BatchKeys(s, after, upTo) ==
    UNION {{QuadKeys(s[i])[j] : j \in {j \in DOMAIN QuadKeys(s[i]) :
                                          KeyCount(s, i - 1) + j \in (after + 1)..upTo}}
           : i \in DOMAIN s}

\* Every batch fits into one transaction.
BatchesFit == \A x \in Calls : x[1] = "addn" => KeyCount(x[2], Len(x[2])) <= TxnKeys

Write(db, sets, dels) ==
    [k \in (DOMAIN db \ dels) \cup DOMAIN sets |->
        IF k \in DOMAIN sets THEN sets[k] ELSE db[k]]

\* What a commit means to another call: a transaction that read a key it
\* wrote can no longer commit.
Noticed(r, written, news) ==
    IF r.state = "txn" THEN Txn(r.x, r.reads, r.sets, r.dels,
                                r.stale \/ r.reads \cap written # {}, r.fresh \cup news)
    ELSE IF r.state = "scanned" THEN Scanned(r.x, r.found, r.fresh \cup news)
    ELSE r

\* What a commit of c adds, and whether it took something for it.
News(c, sets, dels) ==
    LET kind == IF call[c].x[1] = "set" /\ dels # {} THEN "replace" ELSE "insert"
    IN  {<<q, kind>> : q \in QuadsIn(Write(kv, sets, dels)) \ QuadsIn(kv)}

Committed(c, sets, dels, rec) ==
    LET news == News(c, sets, dels)
    IN  [d \in Callers |-> IF d = c THEN rec
                           ELSE Noticed(call[d], DOMAIN sets \cup dels, news)]

Apply(c, sets, dels, rec) ==
    /\ kv' = Write(kv, sets, dels)
    /\ call' = Committed(c, sets, dels, rec)
    /\ UNCHANGED made

\* The writes of a transaction, which must fit into one.
Size(sets, dels) == Cardinality(DOMAIN sets) + Cardinality(dels)

\* A transaction that wrote nothing commits whatever the others did.
Commit(c) ==
    /\ call[c].state = "txn"
    /\ call[c].stale => DOMAIN call[c].sets = {}
    /\ Size(call[c].sets, call[c].dels) <= TxnKeys
    /\ Apply(c, call[c].sets, call[c].dels, Idle)

Abandon(c) ==
    /\ call' = [call EXCEPT ![c] = Idle]
    /\ UNCHANGED <<kv, made>>

\* ErrConflict: the caller gets the error and nothing was written.
Conflict(c) ==
    /\ call[c].state = "txn"
    /\ call[c].stale
    /\ DOMAIN call[c].sets # {}
    /\ Abandon(c)

\* Mutant: the second transaction of Remove deletes in the first index only.
RemoveDeleteSPO(c) ==
    /\ call[c].state = "scanned"
    /\ Apply(c, <<>>, {spoKey(q[1], q[2]) : q \in call[c].found}, Idle)

\* The second transaction of Remove reads nothing, so it meets no conflict.
RemoveDelete(c) ==
    /\ call[c].state = "scanned"
    /\ Size(<<>>, IndexKeys(call[c].found)) <= TxnKeys
    /\ Apply(c, <<>>, IndexKeys(call[c].found), Idle)

\* ErrTxnTooBig: Set or Remove has more to write than fits, and writes nothing.
TooBig(c) ==
    /\ \/ call[c].state = "txn" /\ Size(call[c].sets, call[c].dels) > TxnKeys
       \/ call[c].state = "scanned" /\ Size(<<>>, IndexKeys(call[c].found)) > TxnKeys
    /\ Abandon(c)

\* The context of Remove is done after the scan: no delete on what may be a
\* partial list.
RemoveStop(c) == call[c].state = "scanned" /\ Abandon(c)

\* The batch commits what fits into one transaction; Flush commits the rest.
BatchCommit(c) ==
    LET s == call[c].x[2]
        upTo == call[c].done + TxnKeys
    IN  /\ call[c].state = "batch"
        /\ Apply(c, Entries(BatchKeys(s, call[c].done, upTo)), {},
                 IF KeyCount(s, Len(s)) <= upTo THEN Idle
                 ELSE Batch(call[c].x, upTo))

\* AddN polls its context between quads; what was committed stays.
BatchStop(c) == call[c].state = "batch" /\ Abandon(c)

\* The process dies and the database is opened again: commits survive.
Crash ==
    /\ \E c \in Callers : call[c] # Idle
    /\ call' = [c \in Callers |-> Idle]
    /\ UNCHANGED <<kv, made>>

Next ==
    \/ \E c \in Callers, x \in Calls :
          Add(c, x) \/ Set(c, x) \/ Bind(c, x) \/ RemoveScan(c, x) \/ AddN(c, x)
    \/ \E c \in Callers : Commit(c) \/ Conflict(c) \/ RemoveDelete(c) \/ TooBig(c)
                             \/ RemoveStop(c) \/ BatchCommit(c) \/ BatchStop(c)
    \/ Crash

Spec == Init /\ [][Next]_vars
-----------------------------------------------------------------------------
Quads == QuadsIn(kv)

TypeOK ==
    /\ \A k \in DOMAIN kv : k[1] \in {"s", "p", "o", "c", "n", "u"}
    /\ \A c \in Callers : call[c].state \in {"idle", "txn", "scanned", "batch"}
    /\ made \in 0..MaxCalls

(***************************************************************************)
(* The three indexes hold the same triples, and every graph that holds one *)
(* is a context, whatever calls overlap, conflict, are cancelled or die,   *)
(* as long as a batch fits into one transaction.                           *)
(* (badgerstore/store.go:134-330)                                          *)
(***************************************************************************)
IndexesAgree ==
    /\ \A k \in DOMAIN kv : k[1] \in {"s", "p", "o"} =>
          IndexKeys({<<k[2], kv[k]>>}) \subseteq DOMAIN kv
    /\ \A q \in Quads : q[1] \in Contexts(kv) \cup {Default}

(***************************************************************************)
(* Whichever index answers, a read sees exactly the matching triples of    *)
(* its graph, and counts, existence, pages and contexts follow.            *)
(* (badgerstore/store.go:557-760)                                          *)
(***************************************************************************)
ReadsExact ==
    LET held == Quads
    IN  \A g \in GraphRef, pat \in Pattern :
          LET hits == {q[2] : q \in {q \in held : q[1] = g /\ Matches(q[2], pat)}}
              n == Cardinality(hits)
          IN  /\ scanTriples(kv, pat, g) = hits
              /\ Count(kv, pat, g) = n
              /\ Exists(kv, pat, g) <=> n > 0
              /\ pat = <<Any, Any, Any>> => LenOf(kv, g) = n
              /\ n = TriplesWithLimit(kv, pat, g, 1, 0) + TriplesWithLimit(kv, pat, g, 0, 1)
              /\ Bound(pat) /\ g # Default => (g \in ContextsWith(kv, pat) <=> n > 0)

(***************************************************************************)
(* Bind makes the prefix and the namespace each other's answer.            *)
(* (badgerstore/store.go:446-515)                                          *)
(***************************************************************************)
BindStep == \A c \in Callers :
    Commit(c) /\ call[c].x[1] = "bind" =>
        LET prefix == call[c].x[2]  namespace == call[c].x[3]
        IN  /\ Namespace(kv', prefix) = {namespace} /\ Prefix(kv', namespace) = {prefix}
            /\ \A b \in Namespaces(kv') : Namespace(kv', b[1]) = {b[2]}

(***************************************************************************)
(* A Set that commits leaves its value under (s, p), and beside it only    *)
(* values other calls inserted while it ran. Two Sets that both replaced a *)
(* value never both keep theirs. (badgerstore/store.go:274-330)            *)
(***************************************************************************)
SetStep == \A c \in Callers :
    Commit(c) /\ call[c].x[1] = "set" =>
        LET g == call[c].x[2]  t == call[c].x[3]
        IN  /\ <<g, t>> \in Quads'
            /\ \A q \in Quads' : q[1] = g /\ Matches(q[2], SamePair(t)) =>
                  \/ q = <<g, t>>
                  \/ \E f \in call[c].fresh :
                        f[1] = q /\ (f[2] = "replace" => call[c].dels = {})

(***************************************************************************)
(* When Remove returns, no triple that matched when it looked is left but  *)
(* one written again since, no other triple is gone, and the indexes it    *)
(* did not scan lost the same triples. (badgerstore/store.go:222-266)      *)
(***************************************************************************)
RemoveStep == \A c \in Callers :
    RemoveDelete(c) =>
        LET g == call[c].x[2]  pat == call[c].x[3]
        IN  /\ {<<g, t>> : t \in scanTriples(kv', pat, g)} \subseteq {f[1] : f \in call[c].fresh}
            /\ \A q \in Quads \ Quads' : q[1] = g /\ Matches(q[2], pat)
=============================================================================
