------------------------- MODULE SQLiteStoreProofs --------------------------
(***************************************************************************)
(* The SQLite store for any callers, calls and terms: AddN and Set happen  *)
(* at once or not at all, the table changes as the Store interface says,   *)
(* reads answer from it, and prefixes and namespaces are one to one.       *)
(***************************************************************************)
EXTENDS SQLiteStore, FiniteSetTheorems, TLAPS

\* The calls that are transactions, and the statements they are made of.
TxnCalls == {x \in Calls : x[1] \in {"addn", "set"}}
Stmt == ({"insert"} \X GraphRef \X Triple) \cup ({"delete"} \X GraphRef \X Pattern)

\* The rows rs after the first k statements of x.
Done(rs, x, k) ==
    IF x[1] = "addn" THEN rs \cup {x[2][i] : i \in 1..k}
    ELSE IF k = 0 THEN rs
    ELSE IF k = 1 THEN deleteStmt(rs, SamePair(x[3]), x[2])
    ELSE deleteStmt(rs, SamePair(x[3]), x[2]) \cup {<<x[2], x[3]>>}

\* todo is what is left of x after k statements.
Left(todo, x, k) ==
    /\ todo \in Seq(Stmt)
    /\ Len(todo) + k = Len(Statements(x))
    /\ \A i \in 1..Len(todo) : todo[i] = Statements(x)[k + i]

Stored == rows \subseteq Quad /\ IsFiniteSet(rows)

NamesPaired == \A n, o \in names : n[1] = o[1] <=> n[2] = o[2]

CallsKnown ==
    /\ call = [c \in Callers |-> call[c]]
    /\ \A c \in Callers :
          /\ call[c].state \in {"idle", "begun", "txn"}
          /\ call[c].state \in {"begun", "txn"} => call[c].x \in TxnCalls
          /\ call[c].state = "begun" => call[c].todo = Statements(call[c].x)

OneWriter == \A c, d \in Callers : call[c].state = "txn" /\ call[d].state = "txn" => c = d

\* What a transaction sees is the committed rows, which nobody else changes, after
\* the statements it has run.
ViewsKnown == \A c \in Callers : call[c].state = "txn" =>
    \E k \in Nat : Left(call[c].todo, call[c].x, k) /\ call[c].view = Done(rows, call[c].x, k)

SQLiteInv == /\ Stored /\ NamesPaired /\ CallsKnown /\ OneWriter /\ ViewsKnown
             /\ made \in 0..MaxCalls
-----------------------------------------------------------------------------
LEMMA SamePairIsPattern == \A t \in Triple : SamePair(t) \in Pattern
BY DEF SamePair, Pattern, Triple

\* The statements of a transaction are statements, as many as it has quads to
\* insert, or two.
LEMMA StatementsTyped ==
    ASSUME CallsGiven, NEW x \in TxnCalls
    PROVE  /\ Statements(x) \in Seq(Stmt)
           /\ Len(Statements(x)) = IF x[1] = "addn" THEN Len(x[2]) ELSE 2
<1>1. CASE x[1] = "addn"
  <2>1. x[2] \in Seq(Quad)
    BY <1>1 DEF CallsGiven, TxnCalls
  <2>2. \A i \in 1..Len(x[2]) : x[2][i][1] \in GraphRef /\ x[2][i][2] \in Triple
    BY <2>1 DEF Quad
  <2>3. Statements(x) = [i \in 1..Len(x[2]) |-> <<"insert", x[2][i][1], x[2][i][2]>>]
    BY <1>1, <2>1 DEF Statements
  <2>. QED
    BY <1>1, <2>1, <2>2, <2>3 DEF Stmt
<1>2. CASE x[1] = "set"
  <2>1. x[2] \in GraphRef /\ x[3] \in Triple
    BY <1>2 DEF CallsGiven, TxnCalls
  <2>2. <<"delete", x[2], SamePair(x[3])>> \in Stmt /\ <<"insert", x[2], x[3]>> \in Stmt
    BY <2>1, SamePairIsPattern DEF Stmt
  <2>3. Statements(x) = << <<"delete", x[2], SamePair(x[3])>>, <<"insert", x[2], x[3]>> >>
    BY <1>2 DEF Statements
  <2>. QED
    BY <1>2, <2>2, <2>3
<1>. QED
  BY <1>1, <1>2 DEF TxnCalls

\* Statement k + 1, on the rows after k statements.
LEMMA StatementDone ==
    ASSUME CallsGiven, NEW x \in TxnCalls, NEW rs, NEW k \in Nat, k < Len(Statements(x)),
           NEW st, st = Statements(x)[k + 1]
    PROVE  Done(rs, x, k + 1) = IF st[1] = "insert" THEN insertStmt(Done(rs, x, k), st[2], st[3])
                                ELSE deleteStmt(Done(rs, x, k), st[3], st[2])
<1>1. CASE x[1] = "addn"
  <2>1. x[2] \in Seq(Quad) /\ k + 1 \in 1..Len(x[2])
    BY <1>1, StatementsTyped DEF CallsGiven, TxnCalls
  <2>2. st = <<"insert", x[2][k + 1][1], x[2][k + 1][2]>>
    BY <1>1, <2>1 DEF Statements
  <2>3. x[2][k + 1] = <<st[2], st[3]>>
    <3>1. x[2][k + 1] \in Quad
      BY <2>1
    <3>. QED
      BY <2>2, <3>1 DEF Quad
  <2>4. {x[2][i] : i \in 1..(k + 1)} = {x[2][i] : i \in 1..k} \cup {x[2][k + 1]}
    <3>1. 1..(k + 1) = (1..k) \cup {k + 1}
      OBVIOUS
    <3>. QED
      BY <3>1
  <2>. QED
    BY <1>1, <2>2, <2>3, <2>4 DEF Done, insertStmt
<1>2. CASE x[1] = "set"
  <2>1. k \in {0, 1}
    BY <1>2, StatementsTyped
  <2>2. Statements(x) = << <<"delete", x[2], SamePair(x[3])>>, <<"insert", x[2], x[3]>> >>
    BY <1>2 DEF Statements
  <2>3. CASE k = 0
    BY <1>2, <2>2, <2>3 DEF Done
  <2>4. CASE k = 1
    BY <1>2, <2>2, <2>4 DEF Done, insertStmt
  <2>. QED
    BY <2>1, <2>3, <2>4
<1>. QED
  BY <1>1, <1>2 DEF TxnCalls

\* Running the next statement leaves the rest.
LEMMA LeftTail ==
    ASSUME CallsGiven, NEW x \in TxnCalls, NEW k \in Nat, NEW todo, Left(todo, x, k), todo # <<>>
    PROVE  k < Len(Statements(x)) /\ Head(todo) = Statements(x)[k + 1] /\ Left(Tail(todo), x, k + 1)
<1>1. todo \in Seq(Stmt) /\ Len(todo) > 0 /\ Statements(x) \in Seq(Stmt)
  BY StatementsTyped DEF Left
<1>2. Len(Tail(todo)) = Len(todo) - 1 /\ Tail(todo) \in Seq(Stmt)
      /\ \A i \in 1..Len(Tail(todo)) : Tail(todo)[i] = todo[i + 1]
  BY <1>1
<1>3. Head(todo) = todo[1]
  BY <1>1
<1>4. \A i \in 1..Len(Tail(todo)) : Tail(todo)[i] = Statements(x)[(k + 1) + i]
  <2>. TAKE i \in 1..Len(Tail(todo))
  <2>1. i + 1 \in 1..Len(todo) /\ k + (i + 1) = (k + 1) + i
    BY <1>1, <1>2
  <2>. QED
    BY <1>2, <2>1 DEF Left
<1>5. Len(Statements(x)) \in Nat /\ k < Len(Statements(x))
      /\ Len(Tail(todo)) + (k + 1) = Len(Statements(x))
  BY <1>1, <1>2 DEF Left
<1>6. Head(todo) = Statements(x)[k + 1]
  BY <1>1, <1>3 DEF Left
<1>. QED
  BY <1>2, <1>4, <1>5, <1>6 DEF Left

\* At the beginning everything is left and nothing is done.
LEMMA LeftAll ==
    ASSUME CallsGiven, NEW x \in TxnCalls, NEW rs
    PROVE  Left(Statements(x), x, 0) /\ Done(rs, x, 0) = rs
<1>1. \A i \in 1..Len(Statements(x)) : i = 0 + i
  OBVIOUS
<1>2. {x[2][i] : i \in 1..0} = {}
  OBVIOUS
<1>. QED
  BY <1>1, <1>2, StatementsTyped DEF Left, Done

\* The rows stay quads, finitely many, whatever statements are run on them.
LEMMA RowsStay ==
    ASSUME CallsGiven, NEW rs, rs \subseteq Quad, IsFiniteSet(rs)
    PROVE  /\ \A g \in GraphRef, t \in Triple :
                 insertStmt(rs, g, t) \subseteq Quad /\ IsFiniteSet(insertStmt(rs, g, t))
           /\ \A g, pat : deleteStmt(rs, pat, g) \subseteq Quad /\ IsFiniteSet(deleteStmt(rs, pat, g))
<1>1. ASSUME NEW g \in GraphRef, NEW t \in Triple
      PROVE  insertStmt(rs, g, t) \subseteq Quad /\ IsFiniteSet(insertStmt(rs, g, t))
  BY FS_AddElement DEF insertStmt, Quad
<1>2. ASSUME NEW g, NEW pat
      PROVE  deleteStmt(rs, pat, g) \subseteq Quad /\ IsFiniteSet(deleteStmt(rs, pat, g))
  BY FS_Subset DEF deleteStmt
<1>. QED
  BY <1>1, <1>2

\* And so do they after a whole transaction.
LEMMA DoneStays ==
    ASSUME CallsGiven, NEW x \in TxnCalls, NEW rs, rs \subseteq Quad, IsFiniteSet(rs)
    PROVE  LET after == Done(rs, x, Len(Statements(x)))
           IN  after \subseteq Quad /\ IsFiniteSet(after)
<1>1. CASE x[1] = "addn"
  <2>1. x[2] \in Seq(Quad) /\ Len(x[2]) \in Nat
    BY <1>1 DEF CallsGiven, TxnCalls
  <2>. DEFINE new == {x[2][i] : i \in 1..Len(x[2])}
  <2>2. new \subseteq Quad
    BY <2>1
  <2>3. IsFiniteSet(1..Len(x[2]))
    BY <2>1, FS_Interval
  <2>4. IsFiniteSet(new)
    <3>. DEFINE f == [i \in 1..Len(x[2]) |-> x[2][i]]
    <3>1. f \in Surjection(1..Len(x[2]), new)
      BY DEF Surjection
    <3>. QED
      BY <2>3, <3>1, FS_Surjection
  <2>5. IsFiniteSet(rs \cup new)
    BY <2>4, FS_Union
  <2>6. Done(rs, x, Len(Statements(x))) = rs \cup new
    BY <1>1, StatementsTyped DEF Done
  <2>. QED
    BY <2>2, <2>5, <2>6
<1>2. CASE x[1] = "set"
  <2>1. x[2] \in GraphRef /\ x[3] \in Triple
    BY <1>2 DEF CallsGiven, TxnCalls
  <2>. DEFINE rest == deleteStmt(rs, SamePair(x[3]), x[2])
  <2>2. rest \subseteq Quad /\ IsFiniteSet(rest)
    BY RowsStay
  <2>3. Done(rs, x, Len(Statements(x))) = insertStmt(rest, x[2], x[3])
    <3>1. Len(Statements(x)) = 2
      BY <1>2, StatementsTyped
    <3>. QED
      BY <1>2, <3>1 DEF Done, insertStmt
  <2>. QED
    BY <2>1, <2>2, <2>3, RowsStay
<1>. QED
  BY <1>1, <1>2 DEF TxnCalls
-----------------------------------------------------------------------------
LEMMA SQLiteInitially == CallsGiven /\ Init => SQLiteInv
<1>. SUFFICES ASSUME CallsGiven, Init PROVE SQLiteInv
  OBVIOUS
<1>1. Stored /\ NamesPaired
  BY FS_EmptySet DEF Init, Stored, NamesPaired
<1>2. \A c \in Callers : call[c].state = "idle"
  BY DEF Init, Idle
<1>3. CallsKnown /\ OneWriter /\ ViewsKnown
  BY <1>2 DEF Init, CallsKnown, OneWriter, ViewsKnown
<1>. QED
  BY <1>1, <1>3 DEF SQLiteInv, Init, CallsGiven

\* One statement outside a transaction: nobody is in one, so no view is
\* disturbed.
LEMMA AtOnceStep ==
    ASSUME CallsGiven, SQLiteInv, NEW c \in Callers, Start(c), ~Locked, UNCHANGED call,
           Stored', NamesPaired'
    PROVE  SQLiteInv'
<1>1. CallsKnown' /\ OneWriter' /\ ViewsKnown'
  BY DEF SQLiteInv, Locked, CallsKnown, OneWriter, ViewsKnown
<1>. QED
  BY <1>1 DEF SQLiteInv, Start, CallsGiven

\* The calls of the others stay as they are; OneWriter, CallsKnown and ViewsKnown
\* need only be shown of the caller that moves.
LEMMA CallerMoves ==
    ASSUME CallsGiven, SQLiteInv, NEW c \in Callers, NEW rec, call' = [call EXCEPT ![c] = rec],
           rec.state \in {"idle", "begun", "txn"},
           rec.state \in {"begun", "txn"} => rec.x \in TxnCalls,
           rec.state = "begun" => rec.todo = Statements(rec.x),
           rec.state = "txn" => /\ \A d \in Callers \ {c} : call[d].state # "txn"
                                /\ \E k \in Nat : Left(rec.todo, rec.x, k) /\ rec.view = Done(rows', rec.x, k),
           UNCHANGED rows \/ \A d \in Callers \ {c} : call[d].state # "txn"
    PROVE  CallsKnown' /\ OneWriter' /\ ViewsKnown'
<1>1. DOMAIN call = Callers
  BY DEF SQLiteInv, CallsKnown
<1>2. call'[c] = rec /\ \A d \in Callers \ {c} : call'[d] = call[d]
  BY <1>1
<1>3. CallsKnown'
  <2>1. call' = [d \in Callers |-> call'[d]]
    BY <1>1
  <2>. QED
    BY <1>2, <2>1 DEF SQLiteInv, CallsKnown
<1>4. OneWriter'
  BY <1>2 DEF SQLiteInv, OneWriter
<1>5. ViewsKnown'
  <2>. SUFFICES ASSUME NEW d \in Callers, call'[d].state = "txn"
                PROVE  \E k \in Nat : Left(call'[d].todo, call'[d].x, k)
                                      /\ call'[d].view = Done(rows', call'[d].x, k)
    BY DEF ViewsKnown, Left, Done, Statements, deleteStmt, whereClause
  <2>1. CASE d = c
    BY <1>2, <2>1
  <2>2. CASE d # c
    BY <1>2, <2>2 DEF SQLiteInv, ViewsKnown
  <2>. QED
    BY <2>1, <2>2
<1>. QED
  BY <1>3, <1>4, <1>5

LEMMA AddStep == ASSUME CallsGiven, SQLiteInv, NEW c \in Callers, NEW x \in Calls, Add(c, x)
                 PROVE  SQLiteInv'
<1>1. Stored' /\ NamesPaired'
  BY RowsStay DEF Add, SQLiteInv, Stored, NamesPaired, CallsGiven
<1>. QED
  BY <1>1, AtOnceStep DEF Add

LEMMA RemoveStep == ASSUME CallsGiven, SQLiteInv, NEW c \in Callers, NEW x \in Calls, Remove(c, x)
                    PROVE  SQLiteInv'
<1>1. Stored' /\ NamesPaired'
  BY RowsStay DEF Remove, SQLiteInv, Stored, NamesPaired
<1>. QED
  BY <1>1, AtOnceStep DEF Remove

LEMMA BindStep == ASSUME CallsGiven, SQLiteInv, NEW c \in Callers, NEW x \in Calls, Bind(c, x)
                  PROVE  SQLiteInv'
<1>1. Stored'
  BY DEF Bind, SQLiteInv, Stored
<1>2. NamesPaired'
  <2>1. names' = {n \in names : n[1] # x[2] /\ n[2] # x[3]} \cup {<<x[2], x[3]>>}
    BY DEF Bind, replaceStmt
  <2>. QED
    BY <2>1 DEF SQLiteInv, NamesPaired
<1>. QED
  BY <1>1, <1>2, AtOnceStep DEF Bind

LEMMA BeginTxStep == ASSUME CallsGiven, SQLiteInv, NEW c \in Callers, NEW x \in Calls, BeginTx(c, x)
                     PROVE  SQLiteInv'
<1>. DEFINE rec == [state |-> "begun", x |-> x, todo |-> Statements(x)]
<1>1. rec.state = "begun" /\ rec.x \in TxnCalls /\ rec.todo = Statements(rec.x)
  BY DEF BeginTx, TxnCalls
<1>2. call' = [call EXCEPT ![c] = rec] /\ UNCHANGED rows
  BY DEF BeginTx
<1>3. CallsKnown' /\ OneWriter' /\ ViewsKnown'
  <2>. HIDE DEF rec
  <2>. QED
    BY <1>1, <1>2, CallerMoves
<1>. QED
  BY <1>3 DEF BeginTx, Start, SQLiteInv, Stored, NamesPaired, CallsGiven

\* The first statement takes the lock; each one takes the transaction one further.
LEMMA ExecStep == ASSUME CallsGiven, SQLiteInv, NEW c \in Callers, Exec(c)
                  PROVE  SQLiteInv'
<1>. DEFINE x == call[c].x
            st == Head(call[c].todo)
            view == IF call[c].state = "begun" THEN rows ELSE call[c].view
            after == IF st[1] = "insert" THEN insertStmt(view, st[2], st[3])
                     ELSE deleteStmt(view, st[3], st[2])
            rec == [state |-> "txn", x |-> x, todo |-> Tail(call[c].todo), view |-> after]
<1>1. call' = [call EXCEPT ![c] = rec] /\ UNCHANGED <<rows, names, made>> /\ call[c].todo # <<>>
  BY DEF Exec
<1>2. x \in TxnCalls
  BY DEF Exec, SQLiteInv, CallsKnown
<1>3. \A d \in Callers \ {c} : call[d].state # "txn"
  BY DEF Exec, Locked, SQLiteInv, OneWriter
<1>4. PICK k \in Nat : Left(call[c].todo, x, k) /\ view = Done(rows, x, k)
  <2>1. CASE call[c].state = "begun"
    BY <1>2, <2>1, LeftAll DEF SQLiteInv, CallsKnown
  <2>2. CASE call[c].state = "txn"
    BY <2>2 DEF SQLiteInv, ViewsKnown
  <2>. QED
    BY <2>1, <2>2 DEF Exec
<1>5. k < Len(Statements(x)) /\ st = Statements(x)[k + 1] /\ Left(Tail(call[c].todo), x, k + 1)
  <2>. HIDE DEF x
  <2>. QED
    BY <1>1, <1>2, <1>4, LeftTail
<1>6. after = Done(rows, x, k + 1)
  <2>. HIDE DEF x, st, view
  <2>. QED
    BY <1>2, <1>4, <1>5, StatementDone
<1>7. /\ rec.state = "txn" /\ rec.x \in TxnCalls
      /\ \E j \in Nat : Left(rec.todo, rec.x, j) /\ rec.view = Done(rows', rec.x, j)
  <2>1. rec.state = "txn" /\ rec.x = x /\ rec.todo = Tail(call[c].todo) /\ rec.view = after
    OBVIOUS
  <2>. HIDE DEF x, st, view, after, rec
  <2>. QED
    BY <1>1, <1>2, <1>5, <1>6, <2>1
<1>8. CallsKnown' /\ OneWriter' /\ ViewsKnown'
  <2>. HIDE DEF x, st, view, after, rec
  <2>. QED
    BY <1>1, <1>3, <1>7, CallerMoves
<1>. QED
  BY <1>1, <1>8 DEF SQLiteInv, Stored, NamesPaired

\* What a transaction commits is all its statements, on the committed rows.
LEMMA CommitDone ==
    ASSUME CallsGiven, SQLiteInv, NEW c \in Callers, Commit(c)
    PROVE  /\ call[c].x \in TxnCalls
           /\ rows' = Done(rows, call[c].x, Len(Statements(call[c].x)))
<1>1. call[c].x \in TxnCalls
  BY DEF Commit, SQLiteInv, CallsKnown
<1>2. PICK k \in Nat : Left(call[c].todo, call[c].x, k) /\ call[c].view = Done(rows, call[c].x, k)
  BY DEF Commit, SQLiteInv, ViewsKnown
<1>3. k = Len(Statements(call[c].x))
  BY <1>2 DEF Commit, Left
<1>. QED
  BY <1>1, <1>2, <1>3 DEF Commit

LEMMA IdleIsIdle == Idle.state = "idle"
BY DEF Idle

LEMMA CommitStep == ASSUME CallsGiven, SQLiteInv, NEW c \in Callers, Commit(c)
                    PROVE  SQLiteInv'
<1>1. Stored' /\ NamesPaired'
  BY CommitDone, DoneStays DEF Commit, SQLiteInv, Stored, NamesPaired
<1>2. \A d \in Callers \ {c} : call[d].state # "txn"
  BY DEF Commit, SQLiteInv, OneWriter
<1>3. call' = [call EXCEPT ![c] = Idle]
  BY DEF Commit
<1>4. CallsKnown' /\ OneWriter' /\ ViewsKnown'
  BY <1>2, <1>3, IdleIsIdle, CallerMoves
<1>. QED
  BY <1>1, <1>4 DEF Commit, SQLiteInv

LEMMA RollbackStep == ASSUME CallsGiven, SQLiteInv, NEW c \in Callers, Rollback(c)
                      PROVE  SQLiteInv'
<1>1. call' = [call EXCEPT ![c] = Idle] /\ UNCHANGED rows
  BY DEF Rollback
<1>2. CallsKnown' /\ OneWriter' /\ ViewsKnown'
  BY <1>1, IdleIsIdle, CallerMoves
<1>. QED
  BY <1>2 DEF Rollback, SQLiteInv, Stored, NamesPaired

LEMMA CrashStep == ASSUME CallsGiven, SQLiteInv, Crash PROVE SQLiteInv'
<1>1. \A c \in Callers : call'[c].state = "idle"
  BY IdleIsIdle DEF Crash
<1>2. CallsKnown' /\ OneWriter' /\ ViewsKnown'
  BY <1>1 DEF Crash, CallsKnown, OneWriter, ViewsKnown
<1>. QED
  BY <1>2 DEF Crash, SQLiteInv, Stored, NamesPaired

LEMMA SQLiteInductive == CallsGiven /\ SQLiteInv /\ [Next]_vars => SQLiteInv'
<1>. SUFFICES ASSUME CallsGiven, SQLiteInv, [Next]_vars PROVE SQLiteInv'
  OBVIOUS
<1>1. CASE UNCHANGED vars
  BY <1>1 DEF vars, SQLiteInv, Stored, NamesPaired, CallsKnown, OneWriter, ViewsKnown
<1>2. CASE Next
  BY <1>2, AddStep, RemoveStep, BindStep, BeginTxStep, ExecStep, CommitStep, RollbackStep, CrashStep
     DEF Next
<1>. QED
  BY <1>1, <1>2

LEMMA SQLiteInvariant == ASSUME CallsGiven PROVE Spec => []SQLiteInv
BY SQLiteInitially, SQLiteInductive, PTL DEF Spec
-----------------------------------------------------------------------------
\* What a committed AddN or Set leaves, in the words of AtomicStep.
LEMMA DoneIsAsked ==
    ASSUME CallsGiven, NEW x \in TxnCalls, NEW rs
    PROVE  Done(rs, x, Len(Statements(x))) =
              IF x[1] = "addn" THEN rs \cup {x[2][i] : i \in DOMAIN x[2]}
              ELSE deleteStmt(rs, SamePair(x[3]), x[2]) \cup {<<x[2], x[3]>>}
<1>1. CASE x[1] = "addn"
  <2>1. x[2] \in Seq(Quad)
    BY <1>1 DEF CallsGiven, TxnCalls
  <2>2. DOMAIN x[2] = 1..Len(x[2]) /\ Len(Statements(x)) = Len(x[2])
    BY <1>1, <2>1, StatementsTyped
  <2>. QED
    BY <1>1, <2>2 DEF Done
<1>2. CASE x[1] = "set"
  <2>1. Len(Statements(x)) = 2
    BY <1>2, StatementsTyped
  <2>. QED
    BY <1>2, <2>1 DEF Done
<1>. QED
  BY <1>1, <1>2 DEF TxnCalls

LEMMA StepIsAtomic == CallsGiven /\ SQLiteInv /\ [Next]_vars => AtomicStep
<1>. SUFFICES ASSUME CallsGiven, SQLiteInv, [Next]_vars, rows' # rows PROVE AtomicStep
  BY DEF AtomicStep
<1>1. CASE \E c \in Callers, x \in Calls : Add(c, x) \/ Remove(c, x)
  <2>1. PICK c \in Callers, x \in Calls : Add(c, x) \/ Remove(c, x)
    BY <1>1
  <2>2. call'[c] = Idle
    BY <2>1 DEF Add, Remove, Start
  <2>. QED
    BY <2>1, <2>2 DEF AtomicStep
<1>2. CASE \E c \in Callers : Commit(c)
  <2>1. PICK c \in Callers : Commit(c)
    BY <1>2
  <2>2. call'[c] = Idle /\ call[c].state = "txn"
    BY <2>1 DEF Commit, SQLiteInv, CallsKnown
  <2>3. rows' = IF call[c].x[1] = "addn" THEN rows \cup {call[c].x[2][i] : i \in DOMAIN call[c].x[2]}
                ELSE deleteStmt(rows, SamePair(call[c].x[3]), call[c].x[2])
                     \cup {<<call[c].x[2], call[c].x[3]>>}
    BY <2>1, CommitDone, DoneIsAsked
  <2>. QED
    BY <2>2, <2>3 DEF AtomicStep
<1>. QED
  BY <1>1, <1>2 DEF Next, vars, Bind, BeginTx, Exec, Rollback, Crash

(***************************************************************************)
(* AddN and Set are done whole, when their transaction commits, or not at  *)
(* all, whatever statement fails, whoever else writes and whenever the     *)
(* process dies. (sqlitestore/store.go:158, 229)                           *)
(***************************************************************************)
THEOREM CallsAtomic == ASSUME CallsGiven PROVE Spec => [][AtomicStep]_vars
BY SQLiteInvariant, StepIsAtomic, PTL DEF Spec

\* The contract's terms are the store's.
LEMMA SameTerms ==
    /\ Contract!Triple = Triple /\ Contract!GraphRef = GraphRef
    /\ Contract!Pattern = Pattern /\ Contract!Quad = Quad
    /\ \A t : Contract!SamePair(t) = SamePair(t)
    /\ \A t, pat : Contract!Matches(t, pat) = Matches(t, pat)
BY DEF Contract!Triple, Contract!GraphRef, Contract!Pattern, Contract!Quad, Contract!SamePair,
       Contract!Matches, Triple, GraphRef, Pattern, Quad, SamePair, Matches

LEMMA HitIsWhere == \A pat, g : Contract!Hit(pat, g) = whereClause(rows, pat, g)
BY SameTerms DEF Contract!Hit, whereClause

LEMMA CommitKeepsContract ==
    ASSUME CallsGiven, SQLiteInv, NEW c \in Callers, Commit(c)
    PROVE  Contract!Next
<1>1. call[c].x \in TxnCalls
  BY CommitDone
<1>2. CASE call[c].x[1] = "addn"
  <2>1. rows' = rows \cup {call[c].x[2][i] : i \in DOMAIN call[c].x[2]}
    BY <1>2, CommitDone, DoneIsAsked
  <2>2. rows' = rows \cup (rows' \ rows)
    BY <2>1
  <2>3. rows' \subseteq Quad
    BY CommitStep DEF SQLiteInv, Stored
  <2>. QED
    BY <2>2, <2>3, SameTerms DEF Contract!Next, Contract!AddN
<1>3. CASE call[c].x[1] = "set"
  <2>1. call[c].x[2] \in GraphRef /\ call[c].x[3] \in Triple
    BY <1>1, <1>3 DEF CallsGiven, TxnCalls
  <2>2. rows' = deleteStmt(rows, SamePair(call[c].x[3]), call[c].x[2])
                \cup {<<call[c].x[2], call[c].x[3]>>}
    BY <1>1, <1>3, CommitDone, DoneIsAsked
  <2>3. Contract!Set(call[c].x[3], call[c].x[2])
    BY <2>2, SameTerms, HitIsWhere DEF Contract!Set, deleteStmt
  <2>. QED
    BY <2>1, <2>3, SameTerms DEF Contract!Next
<1>. QED
  BY <1>1, <1>2, <1>3 DEF TxnCalls

LEMMA StepKeepsContract == CallsGiven /\ SQLiteInv /\ [Next]_vars => [Contract!Next]_rows
<1>. SUFFICES ASSUME CallsGiven, SQLiteInv, [Next]_vars, rows' # rows PROVE Contract!Next
  OBVIOUS
<1>1. ASSUME NEW c \in Callers, NEW x \in Calls, Add(c, x) PROVE Contract!Next
  <2>1. x[2] \in GraphRef /\ x[3] \in Triple /\ Contract!Add(x[3], x[2])
    BY <1>1 DEF Add, CallsGiven, insertStmt, Contract!Add
  <2>. QED
    BY <2>1, SameTerms DEF Contract!Next
<1>2. ASSUME NEW c \in Callers, NEW x \in Calls, Remove(c, x) PROVE Contract!Next
  <2>1. x[2] \in GraphRef /\ x[3] \in Pattern /\ Contract!Remove(x[3], x[2])
    BY <1>2, HitIsWhere DEF Remove, CallsGiven, deleteStmt, Contract!Remove
  <2>. QED
    BY <2>1, SameTerms DEF Contract!Next
<1>3. ASSUME NEW c \in Callers, Commit(c) PROVE Contract!Next
  BY <1>3, CommitKeepsContract
<1>. QED
  BY <1>1, <1>2, <1>3 DEF Next, vars, Bind, BeginTx, Exec, Rollback, Crash

(***************************************************************************)
(* The table of triples is a store as the Store interface promises it: a   *)
(* call that takes several statements shows as one step. (store/store.go)  *)
(***************************************************************************)
THEOREM TableIsStore == ASSUME CallsGiven PROVE Spec => Contract!Spec
<1>1. Init => Contract!Init
  BY DEF Init, Contract!Init
<1>. QED
  BY <1>1, SQLiteInvariant, StepKeepsContract, PTL DEF Spec, Contract!Spec
-----------------------------------------------------------------------------
\* In one graph, rows and triples are one to one.
LEMMA TriplesOfRows ==
    ASSUME NEW hit, hit \subseteq Quad, IsFiniteSet(hit), NEW g, \A q \in hit : q[1] = g
    PROVE  LET ts == {q[2] : q \in hit}
           IN  /\ IsFiniteSet(ts) /\ Cardinality(ts) = Cardinality(hit)
               /\ ts = {t \in Triple : <<g, t>> \in hit}
<1>. DEFINE ts == {q[2] : q \in hit}
            f == [q \in hit |-> q[2]]
<1>1. \A q \in hit : q = <<g, q[2]>> /\ q[2] \in Triple
  BY DEF Quad
<1>2. f \in Surjection(hit, ts)
  BY DEF Surjection
<1>3. f \in Injection(hit, ts)
  BY <1>1 DEF Injection, IsInjective
<1>4. IsFiniteSet(ts) /\ Cardinality(ts) = Cardinality(hit)
  BY <1>2, <1>3, FS_Surjection
<1>5. ts = {t \in Triple : <<g, t>> \in hit}
  BY <1>1
<1>. QED
  BY <1>4, <1>5

\* The rows a WHERE clause selects hold the triples the interface asks for.
LEMMA WhereIsTriples ==
    ASSUME SQLiteInv, NEW g, NEW pat
    PROVE  /\ Triples(pat, g) = Contract!Triples(pat, g)
           /\ IsFiniteSet(Contract!Triples(pat, g))
           /\ Count(pat, g) = Cardinality(Contract!Triples(pat, g))
<1>. DEFINE hit == whereClause(rows, pat, g)
<1>1. hit \subseteq Quad /\ IsFiniteSet(hit) /\ \A q \in hit : q[1] = g
  BY FS_Subset DEF SQLiteInv, Stored, whereClause
<1>2. {t \in Triple : <<g, t>> \in hit} = Contract!Triples(pat, g)
  BY SameTerms DEF Contract!Triples, Contract!Contents, whereClause
<1>3. /\ IsFiniteSet({q[2] : q \in hit}) /\ Cardinality({q[2] : q \in hit}) = Cardinality(hit)
      /\ {q[2] : q \in hit} = {t \in Triple : <<g, t>> \in hit}
  <2>. HIDE DEF hit
  <2>. QED
    BY <1>1, TriplesOfRows
<1>. QED
  BY <1>2, <1>3 DEF Triples, Count

LEMMA LenIsContents ==
    ASSUME SQLiteInv, NEW g
    PROVE  LenOf(g) = Contract!Len(g)
<1>. DEFINE hit == {q \in rows : q[1] = g}
<1>1. hit \subseteq Quad /\ IsFiniteSet(hit) /\ \A q \in hit : q[1] = g
  BY FS_Subset DEF SQLiteInv, Stored
<1>2. {t \in Triple : <<g, t>> \in hit} = Contract!Contents(g)
  BY SameTerms DEF Contract!Contents
<1>3. /\ Cardinality({q[2] : q \in hit}) = Cardinality(hit)
      /\ {q[2] : q \in hit} = {t \in Triple : <<g, t>> \in hit}
  <2>. HIDE DEF hit
  <2>. QED
    BY <1>1, TriplesOfRows
<1>4. Contract!Cardinality(Contract!Contents(g)) = Cardinality(Contract!Contents(g))
  BY Zenon DEF Contract!Cardinality, Cardinality, Contract!IsFiniteSet, IsFiniteSet
<1>. QED
  BY <1>2, <1>3, <1>4 DEF LenOf, Contract!Len

LEMMA ContextsHold ==
    ASSUME SQLiteInv
    PROVE  /\ Contexts = Contract!Contexts
           /\ \A t \in Triple : ContextsWith(t) = Contract!ContextsWith(t)
<1>1. \A q \in rows : q = <<q[1], q[2]>> /\ q[1] \in Graph \cup {Default} /\ q[2] \in Triple
  BY DEF SQLiteInv, Stored, Quad, GraphRef
<1>2. Contexts = {g \in Graph : \E t \in Triple : <<g, t>> \in rows}
  BY <1>1, DefaultIsNoName DEF Contexts
<1>3. Contexts = Contract!Contexts
  BY <1>2, SameTerms DEF Contract!Contexts, Contract!Contents
<1>4. ASSUME NEW t \in Triple PROVE ContextsWith(t) = Contract!ContextsWith(t)
  BY <1>2, SameTerms DEF ContextsWith, Contract!ContextsWith, Contract!Contents
<1>. QED
  BY <1>3, <1>4

LEMMA InvReads == SQLiteInv => ReadsExact
<1>. SUFFICES ASSUME SQLiteInv PROVE ReadsExact
  OBVIOUS
<1>1. ASSUME NEW g \in GraphRef, NEW pat \in Pattern
      PROVE  LET hits == Contract!Triples(pat, g)
                 n == Cardinality(hits)
             IN  /\ Triples(pat, g) = hits /\ Count(pat, g) = n /\ (Exists(pat, g) <=> n > 0)
                 /\ n = TriplesWithLimit(pat, g, 1, 0) + TriplesWithLimit(pat, g, 0, 1)
  <2>. DEFINE n == Cardinality(Contract!Triples(pat, g))
  <2>1. n \in Nat /\ Count(pat, g) = n /\ Triples(pat, g) = Contract!Triples(pat, g)
    BY WhereIsTriples, FS_CardinalityType
  <2>2. Exists(pat, g) <=> n > 0
    <3>1. n = 0 <=> Contract!Triples(pat, g) = {}
      BY WhereIsTriples, FS_EmptySet
    <3>2. Exists(pat, g) <=> Triples(pat, g) # {}
      BY DEF Exists, Triples
    <3>. HIDE DEF n
    <3>. QED
      BY <2>1, <3>1, <3>2
  <2>3. n = TriplesWithLimit(pat, g, 1, 0) + TriplesWithLimit(pat, g, 0, 1)
    <3>. HIDE DEF n
    <3>. QED
      BY <2>1 DEF TriplesWithLimit
  <2>. QED
    BY <2>1, <2>2, <2>3
<1>. QED
  BY <1>1, LenIsContents, ContextsHold DEF ReadsExact

(***************************************************************************)
(* After any calls, failures and crashes the read methods answer what the  *)
(* Store interface says of the rows, a prefix names one namespace and a    *)
(* namespace has one prefix. (sqlitestore/store.go:258-470, 508-565)       *)
(***************************************************************************)
THEOREM ReadsRight == ASSUME CallsGiven PROVE Spec => [](TypeOK /\ ReadsExact /\ NamesOneToOne)
<1>1. SQLiteInv => TypeOK
  BY DEF SQLiteInv, Stored, CallsKnown, TypeOK
<1>2. SQLiteInv => NamesOneToOne
  BY DEF SQLiteInv, NamesPaired, NamesOneToOne, Namespace, Prefix
<1>. QED
  BY <1>1, <1>2, InvReads, SQLiteInvariant, PTL
=============================================================================
