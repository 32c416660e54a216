--------------------------- MODULE EndpointProofs ---------------------------
(***************************************************************************)
(* The endpoint's handler for any number of requests, graphs and triples,  *)
(* any failures and panics, over either backend: requests are isolated,    *)
(* reads answer with one state of the dataset, Graph Store writes do what  *)
(* their answer says, and no triple is in a graph that does not exist.     *)
(***************************************************************************)
EXTENDS EndpointInvariant

\* Deciding on the calls of a request, passing over an empty stage of them and
\* reading preserve the invariant.
LEMMA LookWrites ==
    ASSUME EndpointInv, NEW r \in Proc, pc[r] = "look", hold[r] = "writing"
    PROVE  LET q == req[r]
               d == Decide(q)
           IN  /\ d.calls \in Seq(SUBSET AnyCall)
               /\ \A i \in DOMAIN d.calls : \A c \in d.calls[i] : Change(c) /\ c.g \in Written(q)
               /\ Covered(d.calls, entries)
               /\ d.status \in {"200", "201", "204", "404"}
               /\ q.kind \in GraphWrites => q.g \in GraphRef
               /\ q.kind \in {"put", "post", "postStore"} => q.triples \in SUBSET Triple
               /\ q.kind = "put" => d = gspPut(q)
               /\ q.kind \in {"post", "postStore"} => d = gspPost(q)
               /\ q.kind = "delete" => d = gspDelete(q)
<1>. DEFINE q == req[r]
            d == Decide(q)
<1>1. q \in Requests /\ q.kind \in Writes
  BY DEF EndpointInv, Placed
<1>2. RequestOK(q)
  BY <1>1, RequestsParsed
<1>3. q.kind \in GraphWrites => q.g \in GraphRef /\ q.g \in Written(q)
  BY <1>2 DEF RequestOK, GraphWrites, Written
<1>4. CASE q.kind = "put"
  <2>. DEFINE st == <<Opened(q.g), Clear(q.g), Adds(q.g, q.triples)>>
  <2>1. q.g \in GraphRef /\ q.triples \in SUBSET Triple /\ q.g \in Written(q)
    BY <1>2, <1>3, <1>4 DEF RequestOK, GraphWrites
  <2>2. d = gspPut(q)
    BY <1>4 DEF Decide
  <2>3. d.calls = st /\ d.status \in {"204", "201"}
    BY <2>2 DEF gspPut
  <2>4. Covered(st, entries)
    BY <2>1, PutCovered
  <2>5. /\ st \in Seq(SUBSET AnyCall)
        /\ \A i \in DOMAIN st : \A c \in st[i] : Change(c) /\ c.g = q.g
    BY <2>1, PutCalls
  <2>. HIDE DEF st, d, q
  <2>. QED
    BY <1>4, <2>1, <2>2, <2>3, <2>4, <2>5 DEF q, d
<1>5. CASE q.kind \in {"post", "postStore"}
  <2>. DEFINE st == <<Opened(q.g), Adds(q.g, q.triples)>>
  <2>1. q.g \in GraphRef /\ q.triples \in SUBSET Triple /\ q.g \in Written(q)
    BY <1>2, <1>3, <1>5 DEF RequestOK, GraphWrites
  <2>2. d = gspPost(q)
    BY <1>5 DEF Decide
  <2>3. d.calls = st /\ d.status \in {"200", "201"}
    BY <2>2 DEF gspPost
  <2>4. Covered(st, entries)
    BY <2>1, PostCovered
  <2>5. /\ st \in Seq(SUBSET AnyCall)
        /\ \A i \in DOMAIN st : \A c \in st[i] : Change(c) /\ c.g = q.g
    BY <2>1, PostCalls
  <2>. HIDE DEF st, d, q
  <2>. QED
    BY <1>5, <2>1, <2>2, <2>3, <2>4, <2>5 DEF q, d
<1>6. CASE q.kind = "delete"
  <2>1. q.g \in GraphRef /\ q.g \in Written(q)
    BY <1>3, <1>6 DEF GraphWrites
  <2>2. d = gspDelete(q)
    BY <1>6 DEF Decide
  <2>3. d.calls \in {<<Clear(q.g)>>, <<Drop(q.g)>>, <<>>} /\ d.status \in {"200", "404"}
    BY <2>2 DEF gspDelete
  <2>. HIDE DEF d, q
  <2>4. /\ d.calls \in Seq(SUBSET AnyCall) /\ Covered(d.calls, entries)
        /\ \A i \in DOMAIN d.calls : \A c \in d.calls[i] : Change(c) /\ c.g = q.g
    BY <2>1, <2>3, DeleteCalls, Zenon
  <2>. QED
    BY <1>6, <2>1, <2>2, <2>3, <2>4 DEF q, d
<1>7. CASE q.kind \in {"update", "Write"}
  <2>1. ScriptOK(q.script)
    BY <1>2, <1>7 DEF RequestOK
  <2>2. d.calls = q.script /\ d.status = "204"
    BY <1>7 DEF Decide
  <2>3. q.script \in Seq(SUBSET AnyCall) /\ Covered(q.script, entries)
    BY <2>1, ScriptCovered
  <2>4. ASSUME NEW i \in DOMAIN q.script, NEW c \in q.script[i]
        PROVE  Change(c) /\ c.g \in Written(q)
    <3>1. Change(c)
      BY <2>1 DEF ScriptOK
    <3>. QED
      BY <1>7, <3>1 DEF Written, Change
  <2>. QED
    BY <1>7, <2>2, <2>3, <2>4 DEF GraphWrites
<1>. QED
  BY <1>1, <1>4, <1>5, <1>6, <1>7 DEF Writes, GraphWrites

LEMMA LookStep ==
    ASSUME EndpointInv, NEW r \in Proc, Look(r), UNCHANGED backend
    PROVE  EndpointInv'
<1>. DEFINE q == req[r]
            d == Decide(q)
<1>1. /\ pc[r] = "look" /\ pc' = [pc EXCEPT ![r] = "work"]
      /\ todo' = [todo EXCEPT ![r] = d.calls] /\ status' = [status EXCEPT ![r] = d.status]
      /\ UNCHANGED <<hold, data, entries, req, seen, done, base, stable>>
  BY DEF Look, GoTo
<1>2. Placed(r) /\ Reader(r) /\ Writer(r) /\ Minted(r) /\ Inside(r)
  BY <1>1 DEF EndpointInv, Placed
<1>3. \A p \in Proc \ {r} : Same(p)
  BY <1>1, TypesAre DEF Same
<1>4. State' = State
  BY <1>1 DEF State
<1>5. d.calls \in Seq(SUBSET AnyCall) /\ d.status \in {"200", "201", "204", "404"}
  BY <1>1, <1>2, LookReads, LookWrites DEF Inside
<1>6. Types'
  BY <1>1, <1>5, TypesAre DEF Types, TypeOK
<1>7. pc'[r] = "work" /\ todo'[r] = d.calls /\ status'[r] = d.status /\ seen[r] = {}
  BY <1>1, <1>2, TypesAre DEF Placed
<1>8. WriterAlone'
  BY <1>1 DEF EndpointInv, WriterAlone, Inside
<1>9. Settled'
  <2>1. (\A p \in Proc : hold'[p] = "writing" => pc'[p] = "look") =>
           \A p \in Proc : hold[p] = "writing" => pc[p] = "look"
    BY <1>1
  <2>. QED
    BY <1>1, <1>4, <2>1 DEF EndpointInv, Settled
<1>10. Strangers'
  BY <1>1, StrangersStay, TypesAre
<1>11. Placed(r)' /\ Minted(r)'
  BY <1>1, <1>2, <1>7 DEF Placed, Minted, Inside
<1>12. CASE hold[r] = "reading"
  <2>1. base[r] = State /\ q.kind \in Reads
    BY <1>2, <1>12 DEF Reader, Placed
  <2>2. /\ \A i \in DOMAIN d.calls : \A c \in d.calls[i] : c.do = "read"
        /\ d.status = "200" => \E R \in SUBSET Asked(q) : /\ d.calls = <<ReadCalls(R)>>
                                                          /\ Of(data, Asked(q) \ R) = {}
    BY <1>1, <1>12, LookReads, Zenon
  <2>3. base[r].data = data
    BY <2>1 DEF State
  <2>. HIDE DEF d, q
  <2>4. Reader(r)'
    BY <1>1, <1>4, <1>7, <2>1, <2>2, <2>3, ZenonT(30) DEF Reader, q
  <2>5. Writer(r)'
    BY <1>1, <1>12, Zenon DEF Writer
  <2>. QED
    BY <1>1, <1>3, <1>6, <1>8, <1>9, <1>10, <1>11, <2>4, <2>5, LocalStep
<1>13. CASE hold[r] = "writing"
  <2>1. base[r] = State /\ q.kind \in Writes /\ q.kind \notin Reads
    BY <1>1, <1>2, <1>13 DEF Writer, Placed, Reads, Writes, GraphWrites
  <2>2. base[r].data = data
    BY <2>1 DEF State
  <2>3. /\ \A i \in DOMAIN d.calls : \A c \in d.calls[i] : Change(c) /\ c.g \in Written(q)
        /\ Covered(d.calls, entries)
        /\ q.kind = "put" => d = gspPut(q)
        /\ q.kind \in {"post", "postStore"} => d = gspPost(q)
        /\ q.kind = "delete" => d = gspDelete(q)
    BY <1>1, <1>13, LookWrites, Zenon
  <2>4. Was(r)' = IF q.g = Default THEN In(data, q.g) # {} ELSE ExistsIn(State, q.g)
    BY <1>1, <2>1, <2>2 DEF Was, ExistsIn
  <2>5. Reader(r)'
    BY <1>1, <1>13, <2>1 DEF Reader
  <2>6. q.kind = "put" => Putting(r, q.g, q.triples)'
    <3>. SUFFICES ASSUME q.kind = "put" PROVE Putting(r, q.g, q.triples)'
      OBVIOUS
    <3>1. /\ d.calls = <<Opened(q.g), Clear(q.g), Adds(q.g, q.triples)>>
          /\ d.status = IF (IF q.g = Default THEN In(data, q.g) # {} ELSE ExistsIn(State, q.g))
                        THEN "204" ELSE "201"
      BY <2>3 DEF gspPut
    <3>2. (status'[r] = "201") <=> ~Was(r)'
      BY <1>7, <2>4, <3>1, Zenon
    <3>. QED
      BY <1>1, <1>7, <3>1, <3>2 DEF Putting
  <2>7. q.kind \in {"post", "postStore"} => Posting(r, q.g, q.triples)'
    <3>. SUFFICES ASSUME q.kind \in {"post", "postStore"} PROVE Posting(r, q.g, q.triples)'
      OBVIOUS
    <3>1. /\ d.calls = <<Opened(q.g), Adds(q.g, q.triples)>>
          /\ d.status = IF q.kind = "postStore" \/ (q.g # Default /\ ~ExistsIn(State, q.g))
                        THEN "201" ELSE "200"
      BY <2>3 DEF gspPost
    <3>2. q.kind = "postStore" => ~ExistsIn(State, q.g)
      BY <1>1, <1>2 DEF Minted
    <3>3. q.g # Default => (status'[r] = "201" <=> ~Was(r)')
      BY <1>7, <2>4, <3>1, <3>2
    <3>4. todo'[r] = <<Opened(q.g), Adds(q.g, q.triples)>> /\ base'[r].data = data'
      BY <1>1, <1>7, <2>2, <3>1
    <3>. QED
      BY <1>1, <3>3, <3>4 DEF Posting
  <2>8. /\ q.kind = "delete" /\ status'[r] = "200" => Deleting(r, q.g)'
        /\ q.kind = "delete" /\ status'[r] = "404" =>
              todo'[r] = <<>> /\ ~Was(r)' /\ State' = base'[r]
    <3>. SUFFICES ASSUME q.kind = "delete"
                  PROVE  /\ status'[r] = "200" => Deleting(r, q.g)'
                         /\ status'[r] = "404" => todo'[r] = <<>> /\ ~Was(r)' /\ State' = base'[r]
      OBVIOUS
    <3>1. d = gspDelete(q)
      BY <2>3
    <3>2. CASE q.g = Default
      BY <1>1, <1>7, <3>1, <3>2 DEF gspDelete, Deleting
    <3>3. CASE q.g # Default /\ ExistsIn(State, q.g)
      BY <1>1, <1>7, <3>1, <3>3 DEF gspDelete, Deleting
    <3>4. CASE q.g # Default /\ ~ExistsIn(State, q.g)
      <4>1. d.status = "404" /\ d.calls = <<>>
        BY <3>1, <3>4, SMTT(30) DEF gspDelete
      <4>. QED
        BY <1>1, <1>4, <1>7, <2>1, <2>4, <3>4, <4>1
    <3>. QED
      BY <3>2, <3>3, <3>4
  <2>. HIDE DEF d, q
  <2>9. Writer(r)'
    <3>1. req'[r] = q /\ req[r] = q /\ q' = q
      BY <1>1 DEF q
    <3>2. pc'[r] = "work" /\ entries' = entries /\ data' = data /\ base'[r].data = data
      BY <1>1, <1>7, <2>2
    <3>. QED
      BY <1>7, <2>3, <2>6, <2>7, <2>8, <3>1, <3>2 DEF Writer
  <2>. QED
    BY <1>1, <1>3, <1>6, <1>8, <1>9, <1>10, <1>11, <2>5, <2>9, LocalStep
<1>. QED
  BY <1>2, <1>12, <1>13 DEF Inside
-----------------------------------------------------------------------------
\* A request with one stage left.
LEMMA RestOfOne ==
    ASSUME NEW X, NEW c
    PROVE  Rest(<<X>>, c) = IF X \subseteq {c} THEN <<>> ELSE <<X \ {c}>>
<1>1. Head(<<X>>) = X /\ Tail(<<X>>) = <<>>
  OBVIOUS
<1>2. <<X \ {c}>> \o <<>> = <<X \ {c}>>
  OBVIOUS
<1>. QED
  BY <1>1, <1>2 DEF Rest

LEMMA RestOfReads ==
    ASSUME NEW R, NEW c \in ReadCalls(R)
    PROVE  \E g \in R : /\ c = Call("read", g, {})
                        /\ \/ Rest(<<ReadCalls(R)>>, c) = <<>> /\ R \ {g} = {}
                           \/ Rest(<<ReadCalls(R)>>, c) = <<ReadCalls(R \ {g})>>
<1>1. PICK g \in R : c = Call("read", g, {})
  BY DEF ReadCalls
<1>2. \A h : Call("read", h, {}) = c <=> h = g
  BY <1>1 DEF Call
<1>3. ReadCalls(R) \ {c} = ReadCalls(R \ {g})
  BY <1>2 DEF ReadCalls
<1>4. ReadCalls(R) \subseteq {c} => R \ {g} = {}
  BY <1>2 DEF ReadCalls
<1>5. Rest(<<ReadCalls(R)>>, c) = IF ReadCalls(R) \subseteq {c} THEN <<>>
                                                              ELSE <<ReadCalls(R \ {g})>>
  BY <1>3, RestOfOne
<1>6. \/ Rest(<<ReadCalls(R)>>, c) = <<>> /\ R \ {g} = {}
      \/ Rest(<<ReadCalls(R)>>, c) = <<ReadCalls(R \ {g})>>
  BY <1>4, <1>5, Zenon
<1>. QED
  BY <1>1, <1>6, Zenon

Added(g, A, c, t) ==
    /\ c = Call("add", g, {t})
    /\ \/ Rest(<<Adds(g, A)>>, c) = <<>> /\ A \ {t} = {}
       \/ Rest(<<Adds(g, A)>>, c) = <<Adds(g, A \ {t})>>

LEMMA RestOfAdds ==
    ASSUME NEW g, NEW A, NEW c \in Adds(g, A)
    PROVE  \E t \in A : Added(g, A, c, t)
<1>1. PICK t \in A : c = Call("add", g, {t})
  BY DEF Adds
<1>2. \A h : Call("add", g, {h}) = c <=> h = t
  BY <1>1 DEF Call
<1>3. Adds(g, A) \ {c} = Adds(g, A \ {t})
  BY <1>2, Zenon DEF Adds
<1>4. Adds(g, A) \subseteq {c} => A \ {t} = {}
  BY <1>2, Zenon DEF Adds
<1>5. Rest(<<Adds(g, A)>>, c) = IF Adds(g, A) \subseteq {c} THEN <<>> ELSE <<Adds(g, A \ {t})>>
  BY <1>3, RestOfOne
<1>6. \/ Rest(<<Adds(g, A)>>, c) = <<>> /\ A \ {t} = {}
      \/ Rest(<<Adds(g, A)>>, c) = <<Adds(g, A \ {t})>>
  BY <1>4, <1>5, Zenon
<1>. QED
  BY <1>1, <1>6, Zenon DEF Added

\* What a call does to its graph, and that it does nothing to the others.
LEMMA DoEffect ==
    ASSUME EndpointInv, NEW r \in Proc, NEW c, Change(c), Do(r, c)
    PROVE  /\ data' \in SUBSET Quad /\ entries' \in SUBSET Graph /\ seen' = seen
           /\ \A g : g # c.g => In(data', g) = In(data, g) /\ (g \in entries' <=> g \in entries)
           /\ Others(data', c.g) = Others(data, c.g)
           /\ c.do = "ensure" => In(data', c.g) = In(data, c.g) /\ c.g \in entries'
           /\ c.do = "add" => In(data', c.g) = In(data, c.g) \cup c.triples /\ entries' = entries
           /\ c.do \in {"remove", "drop"} => In(data', c.g) = In(data, c.g) \ c.triples
           /\ c.do = "drop" => c.g \notin entries'
           /\ c.do = "remove" => entries' = entries
<1>1. /\ c.do \in {"ensure", "add", "remove", "drop"} /\ c.g \in GraphRef
      /\ c.triples \in SUBSET Triple
      /\ c.do = "ensure" => c.g \in Graph /\ c.triples = {}
  BY DEF Change
<1>2. \A x \in Quad : x = <<x[1], x[2]>> /\ x[1] \in GraphRef /\ x[2] \in Triple
  BY DEF Quad
<1>3. data \in SUBSET Quad /\ entries \in SUBSET Graph
  BY TypesAre
<1>4. /\ \A g, t : <<g, t>> \in At(c.g, c.triples) <=> g = c.g /\ t \in c.triples
      /\ \A x \in At(c.g, c.triples) : x \in Quad /\ x[1] = c.g
  BY <1>1 DEF At, Quad
<1>5. CASE c.do \in {"ensure", "add"}
  <2>1. /\ data' = data \cup At(c.g, c.triples) /\ seen' = seen
        /\ entries' = IF c.do = "ensure" THEN entries \cup {c.g} ELSE entries
    BY <1>5 DEF Do
  <2>2. \A g : In(data', g) = IF g = c.g THEN In(data, g) \cup c.triples ELSE In(data, g)
    BY <1>1, <1>4, <2>1 DEF In
  <2>3. Others(data', c.g) = Others(data, c.g)
    BY <1>4, <2>1 DEF Others
  <2>4. data' \in SUBSET Quad /\ entries' \in SUBSET Graph
    BY <1>1, <1>3, <1>4, <1>5, <2>1
  <2>. QED
    BY <1>1, <1>5, <2>1, <2>2, <2>3, <2>4, Zenon
<1>6. CASE c.do \in {"remove", "drop"}
  <2>1. /\ data' = data \ At(c.g, c.triples) /\ seen' = seen
        /\ entries' = IF c.do = "drop" THEN entries \ {c.g} ELSE entries
    BY <1>6 DEF Do
  <2>2. \A g : In(data', g) = IF g = c.g THEN In(data, g) \ c.triples ELSE In(data, g)
    BY <1>1, <1>4, <2>1 DEF In
  <2>3. Others(data', c.g) = Others(data, c.g)
    BY <1>4, <2>1 DEF Others
  <2>. QED
    BY <1>1, <1>3, <1>6, <2>1, <2>2, <2>3, Zenon
<1>. QED
  BY <1>1, <1>5, <1>6
-----------------------------------------------------------------------------
\* What stays as it is while a request makes its calls.
Kept == UNCHANGED <<hold, pc, req, status, done, base, count, faults, stable, backend>>

LEMMA StagesOne ==
    ASSUME NEW a
    PROVE  <<a>> # <<>> /\ Head(<<a>>) = a /\ Tail(<<a>>) = <<>> /\ <<a>>[1] = a
OBVIOUS

LEMMA StagesTwo ==
    ASSUME NEW a, NEW b
    PROVE  Head(<<a, b>>) = a /\ Tail(<<a, b>>) = <<b>>
OBVIOUS

LEMMA StagesThree ==
    ASSUME NEW a, NEW b, NEW d
    PROVE  Head(<<a, b, d>>) = a /\ Tail(<<a, b, d>>) = <<b, d>>
OBVIOUS

LEMMA LastOfStage ==
    ASSUME NEW st, NEW c, Head(st) \subseteq {c}
    PROVE  Rest(st, c) = Tail(st)
BY DEF Rest

\* The graph's entry is there or not as the backend says.
LEMMA WasKept ==
    ASSUME Kept, NEW r \in Proc
    PROVE  Was(r)' = Was(r)
BY DEF Kept, Was, ExistsIn

\* An empty stage is passed over.
LEMMA EmptyProgress ==
    ASSUME EndpointInv, NEW r \in Proc, todo[r] # <<>>, Head(todo[r]) = {}, Kept,
           UNCHANGED <<data, entries>>, todo'[r] = Tail(todo[r]), NEW g, NEW T
    PROVE  /\ Putting(r, g, T) => Putting(r, g, T)'
           /\ Posting(r, g, T) => Posting(r, g, T)'
           /\ ~Deleting(r, g)
<1>1. /\ UNCHANGED <<status, base, data>> /\ Was(r)' = Was(r)
  BY WasKept DEF Kept
<1>2. Clear(g) # {} /\ Drop(g) # {} /\ \A A : Adds(g, A) = {} => A = {}
  BY Zenon DEF Clear, Drop, Adds
<1>3. ASSUME NEW A, todo[r] = <<Adds(g, A)>> PROVE A = {} /\ todo'[r] = <<>>
  BY <1>2, <1>3, StagesOne
<1>4. ASSUME Putting(r, g, T) PROVE Putting(r, g, T)'
  <2>1. CASE todo[r] = <<Opened(g), Clear(g), Adds(g, T)>>
    BY <1>1, <1>4, <2>1, StagesThree DEF Putting
  <2>2. CASE todo[r] = <<Clear(g), Adds(g, T)>>
    BY <1>2, <2>2, StagesTwo
  <2>3. ASSUME NEW A \in SUBSET T, todo[r] = <<Adds(g, A)>>, In(data, g) \cup A = T
        PROVE  Putting(r, g, T)'
    <3>1. In(data', g) = T /\ todo'[r] = <<>>
      BY <1>1, <1>3, <2>3, ZenonT(30)
    <3>. QED
      BY <1>1, <1>4, <3>1, Zenon DEF Putting
  <2>. QED
    BY <1>4, <2>1, <2>2, <2>3, Zenon DEF Putting
<1>5. ASSUME Posting(r, g, T) PROVE Posting(r, g, T)'
  <2>. DEFINE all == In(base[r].data, g) \cup T
  <2>1. CASE todo[r] = <<Opened(g), Adds(g, T)>> /\ In(data, g) \cup T = all
    <3>1. todo'[r] = <<Adds(g, T)>>
      BY <2>1, StagesTwo
    <3>. QED
      BY <1>1, <1>5, <2>1, <3>1 DEF Posting
  <2>2. ASSUME NEW A \in SUBSET T, todo[r] = <<Adds(g, A)>>, In(data, g) \cup A = all
        PROVE  Posting(r, g, T)'
    <3>1. In(data', g) = all /\ todo'[r] = <<>>
      BY <1>1, <1>3, <2>2
    <3>. QED
      BY <1>1, <1>5, <3>1, Zenon DEF Posting
  <2>. QED
    BY <1>5, <2>1, <2>2, Zenon DEF Posting
<1>6. ~Deleting(r, g)
  BY <1>2, StagesOne DEF Deleting
<1>. QED
  BY <1>4, <1>5, <1>6

LEMMA EmptyStep ==
    ASSUME EndpointInv, NEW r \in Proc, pc[r] = "work", todo[r] # <<>>, Head(todo[r]) = {},
           todo' = [todo EXCEPT ![r] = Tail(@)], UNCHANGED <<data, entries, seen>>, Kept
    PROVE  EndpointInv'
<1>1. /\ Types /\ Placed(r) /\ Reader(r) /\ Writer(r) /\ Minted(r)
      /\ todo \in [Proc -> Seq(SUBSET AnyCall)]
  BY DEF EndpointInv, Types
<1>2. /\ todo[r] \in Seq(SUBSET AnyCall) /\ Tail(todo[r]) \in Seq(SUBSET AnyCall)
      /\ todo[r][1] = {}
      /\ todo'[r] = Tail(todo[r]) /\ \A p \in Proc \ {r} : todo'[p] = todo[p]
  BY <1>1
<1>3. Types'
  BY <1>1, <1>2 DEF Types, TypeOK, Kept
<1>4. WriterAlone' /\ Settled' /\ Strangers'
  BY Unmoved DEF Kept
<1>5. \A p \in Proc \ {r} : Same(p)
  BY <1>2 DEF Same, Kept
<1>6. State' = State /\ Was(r)' = Was(r)
  BY WasKept DEF State
<1>7. Placed(r)' /\ Minted(r)'
  BY <1>1, <1>6 DEF Placed, Inside, Minted, Kept, ExistsIn
<1>8. \A i \in DOMAIN todo'[r] : \A c \in todo'[r][i] : \E j \in DOMAIN todo[r] : c \in todo[r][j]
  BY <1>2, TailType
<1>9. Reader(r)'
  <2>1. ASSUME NEW R, todo[r] = <<ReadCalls(R)>> PROVE todo'[r] = <<>> /\ R = {}
    BY <1>2, <2>1, StagesOne DEF ReadCalls
  <2>2. hold[r] = "reading" =>
            base'[r] = State' /\ \A i \in DOMAIN todo'[r] : \A c \in todo'[r][i] : c.do = "read"
    BY <1>1, <1>6, <1>8 DEF Reader, Kept
  <2>3. ASSUME req[r].kind \in Reads, status[r] = "200"
        PROVE  /\ todo'[r] = <<>>
               /\ seen[r] = Of(base[r].data, Asked(req[r]) \ {})
    BY <1>1, <2>1, <2>3, ZenonT(30) DEF Reader
  <2>. QED
    BY <2>2, <2>3, ZenonT(30) DEF Reader, Kept
<1>10. Writer(r)'
  <2>. SUFFICES ASSUME hold[r] = "writing" PROVE Writer(r)'
    BY ZenonT(30) DEF Writer, Kept
  <2>1. Covered(todo'[r], entries)
    BY <1>1, <1>2, CoveredTail, ZenonT(30) DEF Writer
  <2>2. \A i \in DOMAIN todo'[r] : \A c \in todo'[r][i] : Change(c) /\ c.g \in Written(req[r])
    <3>1. \A i \in DOMAIN todo[r] : \A c \in todo[r][i] : Change(c) /\ c.g \in Written(req[r])
      BY <1>1, ZenonT(30) DEF Writer
    <3>. QED
      BY <1>8, <3>1, ZenonT(30)
  <2>3. /\ Putting(r, req[r].g, req[r].triples) => Putting(r, req[r].g, req[r].triples)'
        /\ Posting(r, req[r].g, req[r].triples) => Posting(r, req[r].g, req[r].triples)'
        /\ ~Deleting(r, req[r].g)
    <3>1. PICK g, T : g = req[r].g /\ T = req[r].triples
      BY Zenon
    <3>2. req'[r].g = g /\ req'[r].triples = T
      BY <3>1 DEF Kept
    <3>3. /\ Putting(r, g, T) => Putting(r, g, T)'
          /\ Posting(r, g, T) => Posting(r, g, T)'
          /\ ~Deleting(r, g)
      BY <1>2, EmptyProgress
    <3>. QED
      BY <3>1, <3>2, <3>3, Zenon DEF Putting, Posting
  <2>. QED
    BY <1>1, <1>6, <2>1, <2>2, <2>3, Zenon DEF Writer, Kept
<1>. QED
  BY <1>3, <1>4, <1>5, <1>7, <1>9, <1>10, LocalStep DEF Kept

\* A reader reads one more of the graphs it was asked for.
LEMMA ReadStep ==
    ASSUME EndpointInv, NEW r \in Proc, pc[r] = "work", hold[r] = "reading", todo[r] # <<>>,
           NEW c \in Head(todo[r]), Do(r, c), todo' = [todo EXCEPT ![r] = Rest(@, c)], Kept
    PROVE  EndpointInv'
<1>1. /\ Types /\ Placed(r) /\ Reader(r) /\ Minted(r)
      /\ todo \in [Proc -> Seq(SUBSET AnyCall)] /\ seen \in [Proc -> SUBSET Quad]
  BY TypesAre DEF EndpointInv
<1>2. /\ todo[r] \in Seq(SUBSET AnyCall) /\ c \in todo[r][1] /\ 1 \in DOMAIN todo[r]
      /\ todo'[r] = Rest(todo[r], c) /\ \A p \in Proc \ {r} : todo'[p] = todo[p]
  BY <1>1, SMTT(30)
<1>3. c.do = "read" /\ c \in AnyCall
  BY <1>1, <1>2 DEF Reader
<1>4. /\ seen' = [seen EXCEPT ![r] = @ \cup At(c.g, In(data, c.g))]
      /\ UNCHANGED <<data, entries>>
  BY <1>3 DEF Do
<1>5. At(c.g, In(data, c.g)) = Of(data, {c.g}) /\ At(c.g, In(data, c.g)) \in SUBSET Quad
  <2>1. \A x \in Quad : x = <<x[1], x[2]>> /\ x[1] \in GraphRef /\ x[2] \in Triple
    BY DEF Quad
  <2>2. data \in SUBSET Quad
    BY TypesAre
  <2>. QED
    BY <2>1, <2>2 DEF At, In, Of
<1>6. Types'
  <2>1. todo' \in [Proc -> Seq(SUBSET AnyCall)]
    BY <1>1, <1>2, RestType, Zenon
  <2>2. seen' \in [Proc -> SUBSET Quad]
    BY <1>1, <1>4, <1>5, Zenon
  <2>. QED
    BY <1>1, <1>4, <2>1, <2>2, SMTT(30) DEF Types, TypeOK, Kept
<1>7. WriterAlone' /\ Settled' /\ Strangers'
  BY <1>4, Unmoved, Zenon DEF Kept
<1>8. \A p \in Proc \ {r} : Same(p)
  BY <1>1, <1>2, <1>4 DEF Same, Kept
<1>9. State' = State
  BY <1>4, Zenon DEF State
<1>10. Placed(r)' /\ Minted(r)'
  BY <1>1, <1>9, Zenon DEF Placed, Inside, Minted, Kept, ExistsIn
<1>11. Writer(r)'
  BY DEF Writer, Kept
<1>12. Reader(r)'
  <2>0. \A i \in DOMAIN todo'[r] : \A d \in todo'[r][i] : \E j \in DOMAIN todo[r] : d \in todo[r][j]
    <3>1. todo[r] \in Seq(SUBSET AnyCall) /\ c \in todo[r][1]
      BY <1>2
    <3>2. \A i \in DOMAIN Rest(todo[r], c) : \A d \in Rest(todo[r], c)[i] :
              \E j \in DOMAIN todo[r] : d \in todo[r][j]
      BY <3>1, RestType, Zenon
    <3>. QED
      BY <1>2, <3>2
  <2>1. base'[r] = State' /\ \A i \in DOMAIN todo'[r] : \A d \in todo'[r][i] : d.do = "read"
    BY <1>1, <1>9, <2>0 DEF Reader, Kept
  <2>2. ASSUME req[r].kind \in Reads, status[r] = "200"
        PROVE  \E Q \in SUBSET Asked(req[r]) :
                  /\ todo'[r] = <<ReadCalls(Q)>> \/ (todo'[r] = <<>> /\ Q = {})
                  /\ seen'[r] = Of(base[r].data, Asked(req[r]) \ Q)
    <3>1. PICK R \in SUBSET Asked(req[r]) :
              /\ todo[r] = <<ReadCalls(R)>>
              /\ seen[r] = Of(base[r].data, Asked(req[r]) \ R)
      BY <1>1, <2>2, ZenonT(30) DEF Reader
    <3>2. c \in ReadCalls(R)
      BY <3>1, StagesOne
    <3>3. PICK g \in R : /\ c = Call("read", g, {})
                         /\ \/ Rest(<<ReadCalls(R)>>, c) = <<>> /\ R \ {g} = {}
                            \/ Rest(<<ReadCalls(R)>>, c) = <<ReadCalls(R \ {g})>>
      BY <3>2, RestOfReads, Zenon
    <3>4. c.g = g /\ base[r].data = data
      BY <1>1, <3>3 DEF Call, Reader, State
    <3>5. seen'[r] = Of(data, Asked(req[r]) \ R) \cup Of(data, {g})
      BY <1>1, <1>4, <1>5, <3>1, <3>4
    <3>6. seen'[r] = Of(base[r].data, Asked(req[r]) \ (R \ {g}))
      BY <3>4, <3>5 DEF Of
    <3>7. R \ {g} \in SUBSET Asked(req[r])
      BY Zenon
    <3>8. todo'[r] = <<ReadCalls(R \ {g})>> \/ (todo'[r] = <<>> /\ R \ {g} = {})
      BY <1>2, <3>1, <3>3, Zenon
    <3>. QED
      BY <3>6, <3>7, <3>8, Zenon
  <2>. QED
    BY <2>1, <2>2, Zenon DEF Reader, Kept
<1>. QED
  BY <1>4, <1>6, <1>7, <1>8, <1>10, <1>11, <1>12, LocalStep DEF Kept
-----------------------------------------------------------------------------
\* How a call of a Graph Store write brings it forward.
LEMMA CallProgress ==
    ASSUME EndpointInv, NEW r \in Proc, todo[r] # <<>>, NEW c \in Head(todo[r]), Change(c),
           Do(r, c), Kept, todo'[r] = Rest(todo[r], c), NEW g \in GraphRef, NEW T
    PROVE  /\ Putting(r, g, T) => Putting(r, g, T)'
           /\ Posting(r, g, T) => Posting(r, g, T)'
           /\ Deleting(r, g) => Deleting(r, g)'
<1>1. UNCHANGED <<status, base, backend>> /\ Was(r)' = Was(r)
  BY WasKept, Zenon DEF Kept
<1>2. ASSUME c \in Opened(g)
      PROVE  In(data', g) = In(data, g) /\ Opened(g) \subseteq {c}
  <2>1. Opened(g) = {Call("ensure", g, {})}
    BY <1>2 DEF Opened, Ensure
  <2>2. c.g = g /\ c.do = "ensure" /\ c = Call("ensure", g, {})
    BY <1>2, <2>1 DEF Call
  <2>. QED
    BY <2>1, <2>2, DoEffect
<1>3. ASSUME c \in Clear(g)
      PROVE  In(data', g) = {} /\ Clear(g) \subseteq {c} /\ c.g = g
  <2>1. c.g = g /\ c.do = "remove" /\ c.triples = Triple /\ Clear(g) \subseteq {c}
    BY <1>3 DEF Clear, Call
  <2>. QED
    BY <2>1, DoEffect DEF In
<1>4. ASSUME c \in Drop(g)
      PROVE  In(data', g) = {} /\ Drop(g) \subseteq {c} /\ g \notin entries'
  <2>1. c.g = g /\ c.do = "drop" /\ c.triples = Triple /\ Drop(g) \subseteq {c}
    BY <1>4 DEF Drop, Call
  <2>. QED
    BY <2>1, DoEffect, Zenon DEF In
<1>5. ASSUME NEW A, todo[r] = <<Adds(g, A)>>, NEW all, In(data, g) \cup A = all
      PROVE  \/ todo'[r] = <<>> /\ In(data', g) = all
             \/ \E B \in SUBSET A : todo'[r] = <<Adds(g, B)>> /\ In(data', g) \cup B = all
  <2>1. c \in Adds(g, A)
    BY <1>5, StagesOne
  <2>2. PICK t \in A : Added(g, A, c, t)
    BY <2>1, RestOfAdds
  <2>3. c.g = g /\ c.do = "add" /\ c.triples = {t}
    BY <2>2, Zenon DEF Added, Call
  <2>4. In(data', g) = In(data, g) \cup {t}
    BY <2>3, DoEffect, Zenon
  <2>5. In(data', g) \cup (A \ {t}) = all
    BY <1>5, <2>4
  <2>6. A \ {t} \in SUBSET A
    OBVIOUS
  <2>7. \/ todo'[r] = <<>> /\ A \ {t} = {}
        \/ todo'[r] = <<Adds(g, A \ {t})>>
    BY <1>5, <2>2, Zenon DEF Added
  <2>8. CASE A \ {t} = {} /\ todo'[r] = <<>>
    BY <2>5, <2>8, Zenon
  <2>. QED
    BY <2>5, <2>6, <2>7, <2>8
<1>6. ASSUME Putting(r, g, T) PROVE Putting(r, g, T)'
  <2>1. CASE todo[r] = <<Opened(g), Clear(g), Adds(g, T)>>
    <3>1. c \in Opened(g)
      BY <2>1, StagesThree
    <3>2. Head(todo[r]) \subseteq {c} /\ Tail(todo[r]) = <<Clear(g), Adds(g, T)>>
      BY <1>2, <2>1, <3>1, StagesThree
    <3>3. todo'[r] = <<Clear(g), Adds(g, T)>>
      BY <3>2, LastOfStage, Zenon
    <3>. QED
      BY <1>1, <1>6, <3>3 DEF Putting
  <2>2. CASE todo[r] = <<Clear(g), Adds(g, T)>>
    <3>1. c \in Clear(g)
      BY <2>2, StagesTwo
    <3>2. Head(todo[r]) \subseteq {c} /\ Tail(todo[r]) = <<Adds(g, T)>>
      BY <1>3, <2>2, <3>1, StagesTwo
    <3>3. todo'[r] = <<Adds(g, T)>> /\ In(data', g) \cup T = T
      BY <1>3, <3>1, <3>2, LastOfStage, Zenon
    <3>. QED
      BY <1>1, <1>6, <3>3, Zenon DEF Putting
  <2>3. ASSUME NEW A \in SUBSET T, todo[r] = <<Adds(g, A)>>, In(data, g) \cup A = T
        PROVE  Putting(r, g, T)'
    <3>1. \/ todo'[r] = <<>> /\ In(data', g) = T
          \/ \E B \in SUBSET T : todo'[r] = <<Adds(g, B)>> /\ In(data', g) \cup B = T
      BY <1>5, <2>3, Zenon
    <3>. QED
      BY <1>1, <1>6, <3>1, Zenon DEF Putting
  <2>. QED
    BY <1>6, <2>1, <2>2, <2>3, Zenon DEF Putting
<1>7. ASSUME Posting(r, g, T) PROVE Posting(r, g, T)'
  <2>1. PICK all : all = In(base[r].data, g) \cup T
    BY Zenon
  <2>2. all = In(base'[r].data, g) \cup T
    BY <1>1, <2>1, Zenon
  <2>3. CASE todo[r] = <<Opened(g), Adds(g, T)>> /\ In(data, g) \cup T = all
    <3>1. c \in Opened(g)
      BY <2>3, StagesTwo
    <3>2. Head(todo[r]) \subseteq {c} /\ Tail(todo[r]) = <<Adds(g, T)>>
      BY <1>2, <2>3, <3>1, StagesTwo
    <3>3. todo'[r] = <<Adds(g, T)>> /\ In(data', g) \cup T = all
      BY <1>2, <2>3, <3>1, <3>2, LastOfStage, Zenon
    <3>. QED
      BY <1>1, <1>7, <2>2, <3>3 DEF Posting
  <2>4. ASSUME NEW A \in SUBSET T, todo[r] = <<Adds(g, A)>>, In(data, g) \cup A = all
        PROVE  Posting(r, g, T)'
    <3>1. \/ todo'[r] = <<>> /\ In(data', g) = all
          \/ \E B \in SUBSET T : todo'[r] = <<Adds(g, B)>> /\ In(data', g) \cup B = all
      BY <1>5, <2>4
    <3>. QED
      BY <1>1, <1>7, <2>2, <3>1 DEF Posting
  <2>. QED
    BY <1>7, <2>1, <2>3, <2>4 DEF Posting
<1>8. ASSUME Deleting(r, g) PROVE Deleting(r, g)'
  <2>1. CASE todo[r] = <<Clear(g)>> /\ g = Default
    <3>1. c \in Clear(g) /\ Rest(<<Clear(g)>>, c) = IF Clear(g) \subseteq {c} THEN <<>>
                                                    ELSE <<Clear(g) \ {c}>>
      BY <2>1, StagesOne, RestOfOne, Zenon
    <3>2. In(data', g) = {} /\ todo'[r] = <<>> /\ g \notin entries'
      BY <1>3, <2>1, <3>1, DoEffect, GraphNames, Zenon
    <3>. QED
      BY <3>2 DEF Deleting, ExistsIn, State
  <2>2. CASE todo[r] = <<Drop(g)>>
    <3>1. c \in Drop(g) /\ Rest(<<Drop(g)>>, c) = IF Drop(g) \subseteq {c} THEN <<>>
                                                  ELSE <<Drop(g) \ {c}>>
      BY <2>2, StagesOne, RestOfOne, Zenon
    <3>2. In(data', g) = {} /\ todo'[r] = <<>> /\ g \notin entries'
      BY <1>4, <2>2, <3>1, Zenon
    <3>. QED
      BY <3>2 DEF Deleting, ExistsIn, State
  <2>. QED
    BY <1>8, <2>1, <2>2 DEF Deleting
<1>. QED
  BY <1>6, <1>7, <1>8

\* A writer makes one of its calls. Nobody else is inside.
LEMMA WriteStep ==
    ASSUME EndpointInv, NEW r \in Proc, pc[r] = "work", hold[r] = "writing", todo[r] # <<>>,
           NEW c \in Head(todo[r]), Do(r, c), todo' = [todo EXCEPT ![r] = Rest(@, c)], Kept
    PROVE  EndpointInv'
<1>1. /\ Types /\ Placed(r) /\ Reader(r) /\ Writer(r) /\ Minted(r)
      /\ WriterAlone /\ Settled /\ Entered /\ Strangers
      /\ todo \in [Proc -> Seq(SUBSET AnyCall)]
  BY TypesAre DEF EndpointInv
<1>2. /\ todo[r] \in Seq(SUBSET AnyCall) /\ c \in todo[r][1] /\ 1 \in DOMAIN todo[r]
      /\ todo'[r] = Rest(todo[r], c) /\ \A p \in Proc \ {r} : todo'[p] = todo[p]
  BY <1>1
<1>3. Change(c) /\ c.g \in Written(req[r]) /\ Covered(todo[r], entries)
  BY <1>1, <1>2, Zenon DEF Writer
<1>4. /\ data' \in SUBSET Quad /\ entries' \in SUBSET Graph /\ seen' = seen
      /\ \A g : g # c.g => In(data', g) = In(data, g) /\ (g \in entries' <=> g \in entries)
      /\ Others(data', c.g) = Others(data, c.g)
      /\ c.do = "ensure" => c.g \in entries'
      /\ c.do = "add" => entries' = entries
      /\ c.do \in {"remove", "drop"} => In(data', c.g) = In(data, c.g) \ c.triples
      /\ c.do = "remove" => entries' = entries
  BY <1>3, DoEffect, Zenon
<1>5. /\ c.do \in {"ensure", "add", "remove", "drop"} /\ c.g \in GraphRef
      /\ c.do = "drop" => c.triples = Triple
  BY <1>3 DEF Change
<1>6. /\ Rest(todo[r], c) \in Seq(SUBSET AnyCall)
      /\ \A i \in DOMAIN Rest(todo[r], c) : \A d \in Rest(todo[r], c)[i] :
            \E j \in DOMAIN todo[r] : d \in todo[r][j]
  <2>1. todo[r] \in Seq(SUBSET AnyCall) /\ c \in todo[r][1]
    BY <1>2, Zenon
  <2>. QED
    BY <2>1, RestType, Zenon
<1>7. Types'
  <2>1. todo' \in [Proc -> Seq(SUBSET AnyCall)]
    BY <1>1, <1>6, Zenon
  <2>. QED
    BY <1>1, <1>4, <2>1, Zenon DEF Types, TypeOK, Kept
<1>8. WriterAlone' /\ Strangers' /\ Settled'
  <2>1. hold'[r] = "writing" /\ pc'[r] = "work"
    BY DEF Kept
  <2>. QED
    BY <1>1, <2>1 DEF WriterAlone, Inside, Strangers, Settled, Kept
<1>9. Entered'
  <2>. SUFFICES ASSUME NEW g \in Graph, In(data', g) # {} PROVE g \in entries'
    BY Zenon DEF Entered, NonEmpty
  <2>1. CASE g # c.g
    BY <1>1, <1>4, <2>1, Zenon DEF Entered, NonEmpty
  <2>2. CASE g = c.g /\ c.do = "ensure"
    BY <1>4, <2>2, Zenon
  <2>3. CASE g = c.g /\ c.do = "add"
    <3>1. \/ c.g \in entries /\ \A k \in 1..1 : NoDrop(todo[r][k], c.g)
          \/ \E j \in DOMAIN todo[r] : OpensFor(todo[r], j, 1, c.g)
      BY <1>2, <1>3, <2>3 DEF Covered
    <3>2. DOMAIN todo[r] = 1..Len(todo[r]) /\ Len(todo[r]) \in Nat
      BY <1>2
    <3>3. ~\E j \in DOMAIN todo[r] : OpensFor(todo[r], j, 1, c.g)
      BY <3>2 DEF OpensFor
    <3>. QED
      BY <1>4, <2>3, <3>1, <3>3, Zenon
  <2>4. CASE g = c.g /\ c.do = "remove"
    BY <1>1, <1>4, <2>4 DEF Entered, NonEmpty
  <2>5. CASE g = c.g /\ c.do = "drop"
    BY <1>4, <1>5, <2>5, Zenon DEF In
  <2>. QED
    BY <1>5, <2>1, <2>2, <2>3, <2>4, <2>5, Zenon
<1>10. ASSUME NEW p \in Proc, p # r PROVE Placed(p)' /\ Reader(p)' /\ Writer(p)' /\ Minted(p)'
  <2>1. Same(p)
    BY <1>2, <1>4, <1>10, Zenon DEF Same, Kept
  <2>2. ~Inside(p)
    BY <1>1, <1>10, Zenon DEF WriterAlone
  <2>3. Placed(p)' /\ Reader(p)' /\ Writer(p)'
    BY <2>1, <2>2, Bystander, Zenon DEF Kept
  <2>4. Minted(p)'
    <3>. SUFFICES ASSUME req[p].kind = "postStore", pc[p] \in {"ask", "look"}
                  PROVE  req[p].g \in Graph /\ ~ExistsIn(State, req[p].g)'
      BY <2>1, Zenon DEF Minted, Same, ExistsIn, State
    <3>1. Minted(p)
      BY DEF EndpointInv
    <3>2. req[p].g \in Graph /\ ~ExistsIn(State, req[p].g)
      BY <3>1 DEF Minted
    <3>3. Apart(req[r], req[p])
      BY <1>1, <1>10 DEF Strangers
    <3>4. req[p].g \in Written(req[p])
      BY <3>2 DEF Written, GraphWrites, GraphRef
    <3>5. req[p].g # c.g
      BY <1>3, <3>3, <3>4, Zenon DEF Apart
    <3>. QED
      BY <1>4, <2>1, <3>2, <3>5, Zenon DEF ExistsIn, State, Same, Kept
  <2>. QED
    BY <2>3, <2>4, Zenon
<1>11. Placed(r)' /\ Reader(r)' /\ Minted(r)'
  <2>1. hold'[r] = "writing" /\ pc'[r] = "work" /\ req' = req
    BY Zenon DEF Kept
  <2>2. req[r] \in Requests /\ req[r].kind \in Writes
    BY <1>1 DEF Placed
  <2>3. req[r].kind \notin Reads
    BY <2>2, Zenon DEF Reads, Writes, GraphWrites
  <2>. QED
    BY <2>1, <2>2, <2>3 DEF Placed, Inside, Reader, Minted
<1>12. Writer(r)'
  <2>1. \A i \in DOMAIN todo'[r] : \A d \in todo'[r][i] : Change(d) /\ d.g \in Written(req[r])
    BY <1>1, <1>2, <1>6, Zenon DEF Writer
  <2>2. Covered(todo'[r], entries')
    <3>1. \A g \in Graph : g \in entries /\ ~(c.do = "drop" /\ c.g = g) => g \in entries'
      BY <1>4, <1>5, Zenon
    <3>2. \A g \in Graph : c = Call("ensure", g, {}) => g \in entries'
      BY <1>4 DEF Call
    <3>3. Covered(Rest(todo[r], c), entries')
      BY <1>2, <1>3, <3>1, <3>2, CoveredRest, Zenon
    <3>. QED
      BY <1>2, <3>3, Zenon
  <2>3. ASSUME req[r].kind \in GraphWrites
        PROVE  c.g = req[r].g /\ Others(data', req[r].g) = Others(base[r].data, req[r].g)
    <3>1. c.g = req[r].g
      BY <1>3, <2>3, SMTT(30) DEF Written, GraphWrites
    <3>. QED
      BY <1>1, <1>4, <2>3, <3>1, Zenon DEF Writer
  <2>4. ASSUME req[r].kind \in GraphWrites
        PROVE  /\ Putting(r, req[r].g, req[r].triples) => Putting(r, req[r].g, req[r].triples)'
               /\ Posting(r, req[r].g, req[r].triples) => Posting(r, req[r].g, req[r].triples)'
               /\ Deleting(r, req[r].g) => Deleting(r, req[r].g)'
    <3>1. PICK g, T : g = req[r].g /\ T = req[r].triples /\ g \in GraphRef
      BY <1>5, <2>3, <2>4, Zenon
    <3>2. req'[r].g = g /\ req'[r].triples = T
      BY <3>1 DEF Kept
    <3>3. /\ Putting(r, g, T) => Putting(r, g, T)'
          /\ Posting(r, g, T) => Posting(r, g, T)'
          /\ Deleting(r, g) => Deleting(r, g)'
      BY <1>2, <1>3, <3>1, CallProgress, Zenon
    <3>. QED
      BY <3>1, <3>2, <3>3, Zenon DEF Putting, Posting, Deleting
  <2>5. \A k : k \in {"put", "post", "postStore", "delete"} <=> k \in GraphWrites
    BY DEF GraphWrites
  <2>6. /\ hold'[r] = "writing" /\ pc'[r] = "work"
        /\ req' = req /\ base' = base /\ status' = status
    BY Zenon DEF Kept
  <2>7. status[r] # "fail" =>
           /\ req[r].kind = "put" => Putting(r, req[r].g, req[r].triples)'
           /\ req[r].kind \in {"post", "postStore"} => Posting(r, req[r].g, req[r].triples)'
           /\ req[r].kind = "delete" /\ status[r] = "200" => Deleting(r, req[r].g)'
           /\ ~(req[r].kind = "delete" /\ status[r] = "404")
    BY <1>1, <2>4, <2>5, Zenon DEF Writer
  <2>. QED
    BY <2>1, <2>2, <2>3, <2>6, <2>7, Zenon DEF Writer
<1>. QED
  BY <1>7, <1>8, <1>9, <1>10, <1>11, <1>12, Zenon DEF EndpointInv

LEMMA StepStep ==
    ASSUME EndpointInv, NEW r \in Proc, Step(r), UNCHANGED backend
    PROVE  EndpointInv'
<1>1. pc[r] = "work" /\ todo[r] # <<>> /\ Kept
  BY DEF Step, Kept
<1>2. hold[r] = "reading" \/ hold[r] = "writing"
  BY <1>1 DEF EndpointInv, Placed, Inside
<1>3. CASE /\ Head(todo[r]) = {} /\ todo' = [todo EXCEPT ![r] = Tail(@)]
           /\ UNCHANGED <<data, entries, seen>>
  BY <1>1, <1>3, EmptyStep, Zenon
<1>4. ASSUME NEW c \in Head(todo[r]), Do(r, c), todo' = [todo EXCEPT ![r] = Rest(@, c)]
      PROVE  EndpointInv'
  BY <1>1, <1>2, <1>4, ReadStep, WriteStep, Zenon
<1>. QED
  BY <1>3, <1>4 DEF Step
-----------------------------------------------------------------------------
LEMMA EndpointInitially == Init => EndpointInv
<1>. SUFFICES ASSUME Init PROVE EndpointInv
  OBVIOUS
<1>1. /\ data \in SUBSET Quad /\ entries = NonEmpty(data) /\ entries \in SUBSET Graph
      /\ State = stable
  BY Zenon DEF Init, Quad, NonEmpty
<1>2. Types
  BY <1>1 DEF Init, RWInit, Types, TypeOK, Dataset, Nothing, Holds
<1>3. WriterAlone /\ Settled /\ Entered /\ Strangers
  BY <1>1, Zenon DEF Init, RWInit, WriterAlone, Inside, Settled, Entered, Strangers
<1>4. ASSUME NEW r \in Proc PROVE Placed(r) /\ Reader(r) /\ Writer(r) /\ Minted(r)
  BY Zenon DEF Init, RWInit, Placed, Inside, Reader, Writer, Minted
<1>. QED
  BY <1>2, <1>3, <1>4 DEF EndpointInv

LEMMA IdleStep ==
    ASSUME EndpointInv, UNCHANGED <<vars, backend>>
    PROVE  EndpointInv'
<1>1. UNCHANGED <<hold, data, entries, pc, req, todo, status, seen, done, base, stable, backend>>
  BY DEF vars, evars
<1>2. Types'
  BY <1>1, TypesAre DEF Types, TypeOK
<1>3. WriterAlone' /\ Settled' /\ Strangers'
  BY <1>1, Unmoved
<1>4. Entered'
  BY <1>1, Zenon DEF EndpointInv, Entered, NonEmpty, In
<1>5. ASSUME NEW p \in Proc PROVE Placed(p)' /\ Reader(p)' /\ Writer(p)' /\ Minted(p)'
  <2>1. Same(p) /\ Minted(p)
    BY <1>1 DEF Same, EndpointInv
  <2>. QED
    BY <1>1, <2>1, Bystander, Zenon DEF Minted, ExistsIn, State
<1>. QED
  BY <1>2, <1>3, <1>4, <1>5 DEF EndpointInv

LEMMA EndpointInductive ==
    ASSUME EndpointInv, [Next /\ UNCHANGED backend]_<<vars, backend>>
    PROVE  EndpointInv'
<1>1. CASE UNCHANGED <<vars, backend>>
  BY <1>1, IdleStep
<1>2. CASE Next /\ UNCHANGED backend
  <2>1. CASE Quiet
    BY <1>2, <2>1, IdleStep DEF Quiet
  <2>2. ASSUME NEW r \in Proc,
               \/ Arrive(r) \/ Wait(r) \/ Enter(r) \/ StopWaiting(r) \/ Look(r) \/ Step(r)
               \/ CallFails(r) \/ Finish(r) \/ Panics(r) \/ Send(r) \/ ContextDone(r)
        PROVE  EndpointInv'
    BY <1>2, <2>2, ArriveStep, WaitStep, EnterStep, StopWaitingStep, LookStep, StepStep,
       CallFailsStep, FinishStep, PanicsStep, SendStep, ContextDoneStep
  <2>. QED
    BY <1>2, <2>1, <2>2 DEF Next
<1>. QED
  BY <1>1, <1>2

LEMMA EndpointInvariant == Spec => []EndpointInv
BY EndpointInitially, EndpointInductive, PTL DEF Spec

\* What a request has seen and the dataset are quads, and the map's entries are
\* named graphs, never the default graph, whatever the requests write.
THEOREM TypeCorrect == Spec => []TypeOK
<1>1. EndpointInv => TypeOK
  BY DEF EndpointInv, Types
<1>. QED
  BY <1>1, EndpointInvariant, PTL

\* Handler.lock and its deferred unlock: between writes the dataset is as the
\* last writer left it, and whoever is let in is let in on that, also after a
\* writer failed or panicked.
THEOREM RequestsIsolated == Spec => []WritesIsolated
<1>1. ASSUME EndpointInv PROVE WritesIsolated
  <2>1. ASSUME Holding("writing") = {} PROVE State = stable
    BY <1>1, <2>1 DEF EndpointInv, Settled, Holding
  <2>2. ASSUME NEW r \in Proc, hold[r] # "none", pc[r] = "look" PROVE base[r] = stable
    <3>1. Inside(r)
      BY <1>1, <2>2, SMTT(30) DEF EndpointInv, Placed
    <3>2. base[r] = State
      BY <1>1, <2>2, <3>1, ZenonT(30) DEF EndpointInv, Reader, Writer, Inside
    <3>3. State = stable
      BY <1>1, <2>2, <3>1 DEF EndpointInv, Settled, WriterAlone
    <3>. QED
      BY <3>2, <3>3, Zenon
  <2>. QED
    BY <2>1, <2>2 DEF WritesIsolated
<1>. QED
  BY <1>1, EndpointInvariant, PTL

\* serveQuery and gspGet: what a request answers with 200 is the graphs it was
\* asked for at one moment between writes, however its reads are interleaved
\* with other requests.
THEOREM AnswersConsistent == Spec => []AnswersOneState
<1>1. ASSUME EndpointInv PROVE AnswersOneState
  <2>. SUFFICES ASSUME NEW r \in Proc, Worked(r) \/ pc[r] = "send",
                       req[r].kind \in Reads, status[r] = "200"
                PROVE  seen[r] = Of(base[r].data, Asked(req[r]))
    BY Zenon DEF AnswersOneState, Of, Asked
  <2>1. Reader(r)
    BY <1>1 DEF EndpointInv
  <2>2. CASE pc[r] = "send"
    BY <2>1, <2>2 DEF Reader
  <2>3. CASE Worked(r)
    <3>1. PICK R \in SUBSET Asked(req[r]) :
              /\ todo[r] = <<ReadCalls(R)>> \/ (todo[r] = <<>> /\ R = {})
              /\ seen[r] = Of(base[r].data, Asked(req[r]) \ R)
      BY <2>1, <2>3, Zenon DEF Reader, Worked
    <3>2. R = {}
      BY <2>3, <3>1, StagesOne DEF Worked
    <3>. QED
      BY <3>1, <3>2
  <2>. QED
    BY <2>2, <2>3
<1>. QED
  BY <1>1, EndpointInvariant, PTL

\* gspPut, gspPost and gspDelete: a write that answers with success did to its
\* graph what the answer says and nothing to the others; 404 changed nothing.
THEOREM WritesDoWhatTheySay == Spec => []WriteExact
<1>1. ASSUME EndpointInv PROVE WriteExact
  <2>. SUFFICES ASSUME NEW r \in Proc, Worked(r), req[r].kind \in GraphWrites
                PROVE  LET q == req[r]
                       IN  /\ q.kind = "put" /\ status[r] # "fail" =>
                                 In(data, q.g) = q.triples /\ (status[r] = "201" <=> ~Was(r))
                           /\ q.kind \in {"post", "postStore"} /\ status[r] # "fail" =>
                                 /\ In(data, q.g) = In(base[r].data, q.g) \cup q.triples
                                 /\ q.g # Default => (status[r] = "201" <=> ~Was(r))
                           /\ q.kind = "delete" /\ status[r] = "200" =>
                                 In(data, q.g) = {} /\ ~ExistsIn(State, q.g)
                           /\ q.kind = "delete" /\ status[r] = "404" => ~Was(r) /\ State = base[r]
                           /\ Others(data, q.g) = Others(base[r].data, q.g)
    BY Zenon DEF WriteExact, Was, GraphWrites
  <2>1. pc[r] = "work" /\ todo[r] = <<>> /\ Placed(r) /\ Writer(r)
    BY <1>1 DEF Worked, EndpointInv
  <2>2. hold[r] = "writing"
    BY <2>1 DEF Placed, Inside, GraphWrites, Reads
  <2>3. \A a, b, d : <<a>> # <<>> /\ <<a, b>> # <<>> /\ <<a, b, d>> # <<>>
    OBVIOUS
  <2>4. /\ Others(data, req[r].g) = Others(base[r].data, req[r].g)
        /\ req[r].kind = "put" /\ status[r] # "fail" => Putting(r, req[r].g, req[r].triples)
        /\ req[r].kind \in {"post", "postStore"} /\ status[r] # "fail" =>
              Posting(r, req[r].g, req[r].triples)
        /\ req[r].kind = "delete" /\ status[r] = "200" => Deleting(r, req[r].g)
        /\ req[r].kind = "delete" /\ status[r] = "404" => ~Was(r) /\ State = base[r]
    <3>1. /\ Others(data, req[r].g) = Others(base[r].data, req[r].g)
          /\ status[r] # "fail" =>
                /\ req[r].kind = "put" => Putting(r, req[r].g, req[r].triples)
                /\ req[r].kind \in {"post", "postStore"} => Posting(r, req[r].g, req[r].triples)
                /\ req[r].kind = "delete" /\ status[r] = "200" => Deleting(r, req[r].g)
                /\ req[r].kind = "delete" /\ status[r] = "404" => ~Was(r) /\ State = base[r]
      BY <2>1, <2>2, Zenon DEF Writer
    <3>. QED
      BY <3>1, Zenon
  <2>5. ASSUME NEW g, NEW T
        PROVE  /\ Putting(r, g, T) => In(data, g) = T /\ (status[r] = "201" <=> ~Was(r))
               /\ Posting(r, g, T) => /\ In(data, g) = In(base[r].data, g) \cup T
                                      /\ g # Default => (status[r] = "201" <=> ~Was(r))
               /\ Deleting(r, g) => In(data, g) = {} /\ ~ExistsIn(State, g)
    BY <2>1, <2>3, Zenon DEF Putting, Posting, Deleting
  <2>. QED
    BY <2>4, <2>5, Zenon
<1>. QED
  BY <1>1, EndpointInvariant, PTL

\* backend.graph and ensureGraph: no triple is in a named graph that the next
\* request would not find.
THEOREM TriplesFound == Spec => []NoHiddenTriples
<1>1. ASSUME EndpointInv PROVE NoHiddenTriples
  BY <1>1 DEF EndpointInv, Entered, NoHiddenTriples, NonEmpty, ExistsIn, State
<1>. QED
  BY <1>1, EndpointInvariant, PTL
=============================================================================
