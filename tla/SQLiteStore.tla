---------------------------- MODULE SQLiteStore ----------------------------
(***************************************************************************)
(* store/sqlitestore: a table of quads with a uniqueness constraint and a  *)
(* table of namespaces. Add, Remove and Bind are one SQL statement each;   *)
(* AddN and Set are transactions of several statements, and the context,   *)
(* a busy database or the driver may fail any of them. SQLite admits one   *)
(* writing transaction at a time and keeps what it wrote to itself until   *)
(* it commits. A call with a done context returns before its first         *)
(* statement.                                                              *)
(***************************************************************************)
EXTENDS Terms, Sequences, FiniteSets

CONSTANTS Callers,    \* goroutines using the store
          Calls,      \* what they may call
          MaxCalls    \* how many calls are made in all

VARIABLES rows,       \* the committed table triples, as quads
          names,      \* the committed table namespaces, as pairs
          call,       \* call[c]: the call caller c is in
          made        \* how many calls were started

vars == <<rows, names, call, made>>

\* The arguments have their Go types.
CallsGiven ==
    /\ MaxCalls \in Nat
    /\ \A x \in Calls :
          /\ x[1] \in {"add", "set"} => x[2] \in GraphRef /\ x[3] \in Triple
          /\ x[1] = "remove" => x[2] \in GraphRef /\ x[3] \in Pattern
          /\ x[1] = "addn" => x[2] \in Seq(Quad)

Idle == [state |-> "idle"]

Init ==
    /\ rows = {}
    /\ names = {}
    /\ call = [c \in Callers |-> Idle]
    /\ made = 0

\* The rows a WHERE clause selects: the bound positions and the graph.
whereClause(rs, pat, g) == {q \in rs : q[1] = g /\ Matches(q[2], pat)}

\* INSERT OR IGNORE and DELETE, on the rows a transaction sees.
insertStmt(rs, g, t) == rs \cup {<<g, t>>}
deleteStmt(rs, pat, g) == rs \ whereClause(rs, pat, g)

\* The writing transaction, if there is one, holds SQLite's write lock.
Locked == \E c \in Callers : call[c].state = "txn"

Start(c) ==
    /\ call[c] = Idle
    /\ made < MaxCalls
    /\ made' = made + 1

Add(c, x) ==
    /\ x[1] = "add" /\ ~Locked /\ Start(c)
    /\ rows' = insertStmt(rows, x[2], x[3])
    /\ UNCHANGED <<names, call>>

Remove(c, x) ==
    /\ x[1] = "remove" /\ ~Locked /\ Start(c)
    /\ rows' = deleteStmt(rows, x[3], x[2])
    /\ UNCHANGED <<names, call>>

\* INSERT OR REPLACE: both columns are unique, so the rows that hold the
\* prefix or the namespace give way.
replaceStmt(ns, prefix, namespace) ==
    {n \in ns : n[1] # prefix /\ n[2] # namespace} \cup {<<prefix, namespace>>}

Bind(c, x) ==
    /\ x[1] = "bind" /\ ~Locked /\ Start(c)
    /\ names' = replaceStmt(names, x[2], x[3])
    /\ UNCHANGED <<rows, call>>

\* The statements of AddN and of Set.
Statements(x) ==
    IF x[1] = "addn" THEN [i \in DOMAIN x[2] |-> <<"insert", x[2][i][1], x[2][i][2]>>]
    ELSE << <<"delete", x[2], SamePair(x[3])>>, <<"insert", x[2], x[3]>> >>

\* BeginTx takes no lock yet: that is the first statement's. An AddN of
\* nothing does not begin.
BeginTx(c, x) ==
    /\ x[1] \in {"addn", "set"}
    /\ x[1] = "addn" => x[2] # <<>>
    /\ Start(c)
    /\ call' = [call EXCEPT ![c] = [state |-> "begun", x |-> x, todo |-> Statements(x)]]
    /\ UNCHANGED <<rows, names>>

\* Mutant: the statements run on the database, outside the transaction.
ExecOutside(c) ==
    LET st == Head(call[c].todo)
        after == IF st[1] = "insert" THEN insertStmt(rows, st[2], st[3])
                 ELSE deleteStmt(rows, st[3], st[2])
    IN  /\ call[c].state \in {"begun", "txn"}
        /\ call[c].state = "begun" => ~Locked
        /\ call[c].todo # <<>>
        /\ call' = [call EXCEPT ![c] = [state |-> "txn", x |-> call[c].x,
                                        todo |-> Tail(call[c].todo), view |-> after]]
        /\ rows' = after
        /\ UNCHANGED <<names, made>>

\* One statement, on what the transaction sees.
Exec(c) ==
    LET st == Head(call[c].todo)
        view == IF call[c].state = "begun" THEN rows ELSE call[c].view
        after == IF st[1] = "insert" THEN insertStmt(view, st[2], st[3])
                 ELSE deleteStmt(view, st[3], st[2])
    IN  /\ call[c].state \in {"begun", "txn"}
        /\ call[c].state = "begun" => ~Locked
        /\ call[c].todo # <<>>
        /\ call' = [call EXCEPT ![c] = [state |-> "txn", x |-> call[c].x,
                                        todo |-> Tail(call[c].todo), view |-> after]]
        /\ UNCHANGED <<rows, names, made>>

Commit(c) ==
    /\ call[c].state = "txn"
    /\ call[c].todo = <<>>
    /\ rows' = call[c].view
    /\ call' = [call EXCEPT ![c] = Idle]
    /\ UNCHANGED <<names, made>>

\* A statement or the commit fails (done context, busy timeout, driver) and
\* the call rolls back and returns the error.
Rollback(c) ==
    /\ call[c] # Idle
    /\ call' = [call EXCEPT ![c] = Idle]
    /\ UNCHANGED <<rows, names, made>>

\* The process dies; SQLite rolls back what was not committed.
Crash ==
    /\ \E c \in Callers : call[c] # Idle
    /\ call' = [c \in Callers |-> Idle]
    /\ UNCHANGED <<rows, names, made>>

Next ==
    \/ \E c \in Callers, x \in Calls :
          Add(c, x) \/ Remove(c, x) \/ Bind(c, x) \/ BeginTx(c, x)
    \/ \E c \in Callers : Exec(c) \/ Commit(c) \/ Rollback(c)
    \/ Crash

Spec == Init /\ [][Next]_vars
-----------------------------------------------------------------------------
\* The read methods, each one statement on the committed rows.
Triples(pat, g) == {q[2] : q \in whereClause(rows, pat, g)}
Count(pat, g) == Cardinality(whereClause(rows, pat, g))
LenOf(g) == Cardinality({q \in rows : q[1] = g})
Exists(pat, g) == whereClause(rows, pat, g) # {}

\* LIMIT and OFFSET after their arguments are made SQLite's: a limit of zero
\* or less is none (SQLite's -1), a negative offset is zero.
TriplesWithLimit(pat, g, limit, offset) ==
    LET skip == IF offset < 0 THEN 0 ELSE offset
        left == IF Count(pat, g) < skip THEN 0 ELSE Count(pat, g) - skip
    IN  IF limit > 0 /\ limit < left THEN limit ELSE left

Contexts == {q[1] : q \in rows} \ {Default}
ContextsWith(t) == {g \in Contexts : <<g, t>> \in rows}

Namespace(prefix) == {n[2] : n \in {n \in names : n[1] = prefix}}
Prefix(namespace) == {n[1] : n \in {n \in names : n[2] = namespace}}
-----------------------------------------------------------------------------
TypeOK ==
    /\ rows \subseteq Quad
    /\ \A c \in Callers : call[c].state \in {"idle", "begun", "txn"}
    /\ made \in 0..MaxCalls

(***************************************************************************)
(* AddN stores "all of them ... or, on error, none", and Set "atomically   *)
(* replaces" (sqlitestore/store.go:158, 229): the rows change only when a  *)
(* call succeeds, and then by everything that call was asked to do.        *)
(***************************************************************************)
AtomicStep == rows' # rows =>
    \E c \in Callers :
       /\ call'[c] = Idle
       /\ \/ \E x \in Calls : Add(c, x) \/ Remove(c, x)
          \/ /\ call[c].state = "txn"
             /\ LET x == call[c].x
                IN  rows' = IF x[1] = "addn" THEN rows \cup {x[2][i] : i \in DOMAIN x[2]}
                            ELSE deleteStmt(rows, SamePair(x[3]), x[2]) \cup {<<x[2], x[3]>>}

(***************************************************************************)
(* A prefix names one namespace and a namespace has one prefix, in both    *)
(* directions the same, however often either is bound again.               *)
(* (sqlitestore/store.go:428-470)                                          *)
(***************************************************************************)
NamesOneToOne == \A n \in names : Namespace(n[1]) = {n[2]} /\ Prefix(n[2]) = {n[1]}

Contract == INSTANCE StoreContract WITH quads <- rows

(***************************************************************************)
(* The read methods answer what the interface says of the rows: the        *)
(* matches, their number, whether there are any, pages and contexts.       *)
(* (sqlitestore/store.go:258-425, 508-565)                                 *)
(***************************************************************************)
ReadsExact ==
    /\ \A g \in GraphRef, pat \in Pattern :
          LET hits == Contract!Triples(pat, g)
              n == Cardinality(hits)
          IN  /\ Triples(pat, g) = hits /\ Count(pat, g) = n /\ (Exists(pat, g) <=> n > 0)
              /\ n = TriplesWithLimit(pat, g, 1, 0) + TriplesWithLimit(pat, g, 0, 1)
    /\ \A g \in GraphRef : LenOf(g) = Contract!Len(g)
    /\ Contexts = Contract!Contexts
    /\ \A t \in Triple : ContextsWith(t) = Contract!ContextsWith(t)
=============================================================================
