------------------------- MODULE EndpointInvariant --------------------------
(***************************************************************************)
(* The inductive invariant of the endpoint's handler, that every step of a *)
(* request that makes no decision and no call preserves it, and what the   *)
(* calls decided on for a request cover.                                   *)
(***************************************************************************)
EXTENDS Endpoint, SequenceTheorems, TLAPS

AnyCall == [do : {"read", "ensure", "add", "remove", "drop"}, g : GraphRef,
            triples : SUBSET Triple]
Dataset == [data : SUBSET Quad, entries : SUBSET Graph]

Inside(r) == hold[r] \in {"reading", "writing"}

Types ==
    /\ TypeOK
    /\ req \in [Proc -> Requests \cup {NoRequest}]
    /\ todo \in [Proc -> Seq(SUBSET AnyCall)]
    /\ done \in [Proc -> BOOLEAN]
    /\ base \in [Proc -> Dataset]

\* Where a request is says what it holds and has.
Placed(r) ==
    /\ pc[r] # "idle" => req[r] \in Requests
    /\ Inside(r) <=> pc[r] \in {"look", "work"}
    /\ hold[r] = "reading" => req[r].kind \in Reads
    /\ hold[r] = "writing" => req[r].kind \in Writes
    /\ pc[r] # "work" => todo[r] = <<>>
    /\ pc[r] \in {"idle", "ask", "look"} => seen[r] = {}

WriterAlone == \A r, p \in Proc : hold[r] = "writing" /\ Inside(p) => p = r

\* Only a writer past its decision has changed what the last one left.
Settled == (\A r \in Proc : hold[r] = "writing" => pc[r] = "look") => State = stable

\* A graph with a triple has its entry, and so will every graph that the calls
\* of a writer add to: it is there and not dropped before, or opened first.
Entered == NonEmpty(data) \subseteq entries

Covered(stages, E) == \A i \in DOMAIN stages : \A c \in stages[i] :
    c.do = "add" /\ c.g \in Graph =>
        \/ c.g \in E /\ \A k \in 1..i : NoDrop(stages[k], c.g)
        \/ \E j \in DOMAIN stages : OpensFor(stages, j, i, c.g)

Asked(q) == IF q.kind = "get" THEN {q.g} ELSE q.graphs
Of(d, gs) == {q \in d : q[1] \in gs}

\* What a reader has not read yet is what its calls left will read.
Reader(r) ==
    /\ hold[r] = "reading" =>
          base[r] = State /\ \A i \in DOMAIN todo[r] : \A c \in todo[r][i] : c.do = "read"
    /\ req[r].kind \in Reads /\ status[r] = "200" =>
          /\ pc[r] = "work" => \E R \in SUBSET Asked(req[r]) :
                /\ todo[r] = <<ReadCalls(R)>> \/ (todo[r] = <<>> /\ R = {})
                /\ seen[r] = Of(base[r].data, Asked(req[r]) \ R)
          /\ pc[r] = "send" => seen[r] = Of(base[r].data, Asked(req[r]))

Was(r) == IF req[r].g = Default THEN In(base[r].data, req[r].g) # {}
          ELSE ExistsIn(base[r], req[r].g)

\* How far a Graph Store write is, and what its calls left will still do.
Putting(r, g, T) ==
    /\ status[r] = "201" <=> ~Was(r)
    /\ \/ todo[r] = <<Opened(g), Clear(g), Adds(g, T)>>
       \/ todo[r] = <<Clear(g), Adds(g, T)>>
       \/ \E A \in SUBSET T : todo[r] = <<Adds(g, A)>> /\ In(data, g) \cup A = T
       \/ todo[r] = <<>> /\ In(data, g) = T

Posting(r, g, T) ==
    /\ g # Default => (status[r] = "201" <=> ~Was(r))
    /\ LET all == In(base[r].data, g) \cup T
       IN  \/ todo[r] = <<Opened(g), Adds(g, T)>> /\ In(data, g) \cup T = all
           \/ \E A \in SUBSET T : todo[r] = <<Adds(g, A)>> /\ In(data, g) \cup A = all
           \/ todo[r] = <<>> /\ In(data, g) = all

Deleting(r, g) ==
    \/ todo[r] = <<Clear(g)>> /\ g = Default
    \/ todo[r] = <<Drop(g)>>
    \/ todo[r] = <<>> /\ In(data, g) = {} /\ ~ExistsIn(State, g)

Writer(r) == hold[r] = "writing" =>
    /\ pc[r] = "look" => base[r] = State
    /\ \A i \in DOMAIN todo[r] : \A c \in todo[r][i] : Change(c) /\ c.g \in Written(req[r])
    /\ Covered(todo[r], entries)
    /\ pc[r] = "work" /\ req[r].kind \in GraphWrites =>
          Others(data, req[r].g) = Others(base[r].data, req[r].g)
    /\ pc[r] = "work" /\ status[r] # "fail" =>
          /\ req[r].kind = "put" => Putting(r, req[r].g, req[r].triples)
          /\ req[r].kind \in {"post", "postStore"} => Posting(r, req[r].g, req[r].triples)
          /\ req[r].kind = "delete" /\ status[r] = "200" => Deleting(r, req[r].g)
          /\ req[r].kind = "delete" /\ status[r] = "404" =>
                todo[r] = <<>> /\ ~Was(r) /\ State = base[r]

\* A minted name stays unused until its request uses it.
Minted(r) == req[r].kind = "postStore" /\ pc[r] \in {"ask", "look"} =>
                req[r].g \in Graph /\ ~ExistsIn(State, req[r].g)
Strangers == \A r, p \in Proc :
    r # p /\ pc[r] \notin {"idle", "send"} /\ pc[p] \notin {"idle", "send"}
        => Apart(req[r], req[p])

EndpointInv ==
    /\ Types /\ WriterAlone /\ Settled /\ Entered /\ Strangers
    /\ \A r \in Proc : Placed(r) /\ Reader(r) /\ Writer(r) /\ Minted(r)
-----------------------------------------------------------------------------
\* The stages of a request: an empty one is passed over, a call is taken out of
\* the first one.
LEMMA CoveredTail ==
    ASSUME NEW S, NEW st \in Seq(SUBSET S), NEW E, st # <<>>, st[1] = {}, Covered(st, E)
    PROVE  Covered(Tail(st), E)
<1>. DEFINE tl == Tail(st)
<1>1. /\ tl \in Seq(SUBSET S) /\ Len(st) \in Nat /\ Len(tl) = Len(st) - 1 /\ Len(st) >= 1
      /\ DOMAIN st = 1..Len(st) /\ DOMAIN tl = 1..Len(tl)
      /\ \A i \in 1..Len(tl) : tl[i] = st[i + 1]
  OBVIOUS
<1>. HIDE DEF tl
<1>. SUFFICES ASSUME NEW i \in DOMAIN tl, NEW c \in tl[i], c.do = "add", c.g \in Graph
              PROVE  \/ c.g \in E /\ \A k \in 1..i : NoDrop(tl[k], c.g)
                     \/ \E j \in DOMAIN tl : OpensFor(tl, j, i, c.g)
  BY DEF Covered, tl
<1>2. i \in Nat /\ i >= 1 /\ i + 1 \in DOMAIN st /\ c \in st[i + 1]
  BY <1>1
<1>3. CASE c.g \in E /\ \A k \in 1..(i + 1) : NoDrop(st[k], c.g)
  <2>1. ASSUME NEW k \in 1..i PROVE NoDrop(tl[k], c.g)
    <3>1. k + 1 \in 1..(i + 1) /\ tl[k] = st[k + 1]
      BY <1>1, <1>2
    <3>. QED
      BY <1>3, <3>1
  <2>. QED
    BY <1>3, <2>1
<1>4. ASSUME NEW j \in DOMAIN st, OpensFor(st, j, i + 1, c.g)
      PROVE  \E m \in DOMAIN tl : OpensFor(tl, m, i, c.g)
  <2>1. j \in Nat /\ j # 1 /\ j >= 1 /\ j < i + 1 /\ Call("ensure", c.g, {}) \in st[j]
    BY <1>1, <1>4 DEF OpensFor
  <2>2. j - 1 \in DOMAIN tl /\ tl[j - 1] = st[j] /\ j - 1 < i
    <3>1. j - 1 \in 1..Len(tl) /\ (j - 1) + 1 = j /\ j - 1 < i
      BY <1>1, <1>2, <2>1
    <3>. QED
      BY <1>1, <3>1
  <2>3. ASSUME NEW k \in (j - 1)..i PROVE NoDrop(tl[k], c.g)
    <3>1. k \in 1..Len(tl) /\ k + 1 \in j..(i + 1)
      BY <1>1, <1>2, <2>1
    <3>. QED
      BY <1>1, <1>4, <3>1 DEF OpensFor
  <2>4. OpensFor(tl, j - 1, i, c.g)
    BY <2>1, <2>2, <2>3 DEF OpensFor
  <2>. QED
    BY <2>2, <2>4
<1>. QED
  BY <1>2, <1>3, <1>4 DEF Covered

\* F is what is open after call c.
LEMMA CoveredLess ==
    ASSUME NEW S, NEW st \in Seq(SUBSET S), NEW su \in Seq(SUBSET S), NEW E, NEW F,
           st # <<>>, NEW c \in st[1], Covered(st, E),
           Len(su) = Len(st), su[1] = st[1] \ {c}, \A i \in 2..Len(st) : su[i] = st[i],
           \A g \in Graph : g \in E /\ ~(c.do = "drop" /\ c.g = g) => g \in F,
           \A g \in Graph : c = Call("ensure", g, {}) => g \in F
    PROVE  Covered(su, F)
<1>1. /\ DOMAIN st = 1..Len(st) /\ DOMAIN su = 1..Len(st) /\ Len(st) \in Nat /\ Len(st) >= 1
      /\ \A i \in 1..Len(st) : su[i] \subseteq st[i] /\ (i # 1 => su[i] = st[i])
  OBVIOUS
<1>. SUFFICES ASSUME NEW i \in DOMAIN su, NEW d \in su[i], d.do = "add", d.g \in Graph
              PROVE  \/ d.g \in F /\ \A k \in 1..i : NoDrop(su[k], d.g)
                     \/ \E j \in DOMAIN su : OpensFor(su, j, i, d.g)
  BY DEF Covered
<1>2. i \in 1..Len(st) /\ d \in st[i]
  BY <1>1
<1>3. ASSUME NEW k \in 1..Len(st), NoDrop(st[k], d.g) PROVE NoDrop(su[k], d.g)
  BY <1>1, <1>3 DEF NoDrop
<1>4. ASSUME NoDrop(st[1], d.g) PROVE ~(c.do = "drop" /\ c.g = d.g)
  BY <1>4 DEF NoDrop
<1>5. CASE d.g \in E /\ \A k \in 1..i : NoDrop(st[k], d.g)
  <2>1. 1 \in 1..i /\ \A k \in 1..i : k \in 1..Len(st)
    BY <1>1, <1>2
  <2>. QED
    BY <1>3, <1>4, <1>5, <2>1
<1>6. ASSUME NEW j \in DOMAIN st, OpensFor(st, j, i, d.g)
      PROVE  \/ d.g \in F /\ \A k \in 1..i : NoDrop(su[k], d.g)
             \/ \E m \in DOMAIN su : OpensFor(su, m, i, d.g)
  <2>1. /\ j \in 1..Len(st) /\ j < i /\ Call("ensure", d.g, {}) \in st[j]
        /\ \A k \in j..i : NoDrop(st[k], d.g)
    BY <1>1, <1>6 DEF OpensFor
  <2>2. \A k \in j..i : k \in 1..Len(st)
    BY <1>1, <1>2, <2>1
  <2>3. CASE Call("ensure", d.g, {}) \in su[j]
    BY <1>1, <1>3, <2>1, <2>2, <2>3 DEF OpensFor
  <2>4. CASE Call("ensure", d.g, {}) \notin su[j]
    <3>1. j = 1 /\ c = Call("ensure", d.g, {})
      BY <1>1, <2>1, <2>4
    <3>. QED
      BY <1>3, <2>1, <2>2, <3>1
  <2>. QED
    BY <2>3, <2>4
<1>. QED
  BY <1>1, <1>2, <1>5, <1>6 DEF Covered

LEMMA RestType ==
    ASSUME NEW S, NEW st \in Seq(SUBSET S), st # <<>>, NEW c \in st[1]
    PROVE  /\ Rest(st, c) \in Seq(SUBSET S)
           /\ \A i \in DOMAIN Rest(st, c) : \A d \in Rest(st, c)[i] : \E j \in DOMAIN st : d \in st[j]
<1>1. Head(st) = st[1] /\ Tail(st) \in Seq(SUBSET S) /\ Head(st) \in SUBSET S
  OBVIOUS
<1>2. /\ DOMAIN Tail(st) = 1..(Len(st) - 1) /\ Len(st) \in Nat /\ DOMAIN st = 1..Len(st)
      /\ \A i \in 1..(Len(st) - 1) : Tail(st)[i] = st[i + 1] /\ i + 1 \in 1..Len(st)
      /\ Len(Tail(st)) = Len(st) - 1 /\ 1 \in 1..Len(st)
  OBVIOUS
<1>3. CASE Head(st) \subseteq {c}
  BY <1>1, <1>2, <1>3 DEF Rest
<1>4. CASE ~(Head(st) \subseteq {c})
  <2>. DEFINE su == <<Head(st) \ {c}>> \o Tail(st)
  <2>1. Rest(st, c) = su
    BY <1>4 DEF Rest
  <2>2. /\ su \in Seq(SUBSET S) /\ DOMAIN su = 1..Len(st) /\ su[1] = st[1] \ {c}
        /\ \A i \in 2..Len(st) : su[i] = Tail(st)[i - 1]
    BY <1>1, <1>2
  <2>. HIDE DEF su
  <2>3. \A i \in 1..Len(st) : su[i] \subseteq st[i]
    <3>1. \A i \in 2..Len(st) : su[i] = st[i]
      <4>. SUFFICES ASSUME NEW i \in 2..Len(st) PROVE su[i] = st[i]
        OBVIOUS
      <4>1. i - 1 \in 1..(Len(st) - 1) /\ (i - 1) + 1 = i
        BY <1>2
      <4>. QED
        BY <1>2, <2>2, <4>1
    <3>2. \A i \in 1..Len(st) : i = 1 \/ i \in 2..Len(st)
      BY <1>2
    <3>. QED
      BY <2>2, <3>1, <3>2
  <2>. QED
    BY <1>2, <2>1, <2>2, <2>3
<1>. QED
  BY <1>3, <1>4

LEMMA TailType ==
    ASSUME NEW S, NEW st \in Seq(S), st # <<>>
    PROVE  /\ Tail(st) \in Seq(S)
           /\ \A i \in DOMAIN Tail(st) : \A d \in Tail(st)[i] : \E j \in DOMAIN st : d \in st[j]
<1>1. /\ DOMAIN Tail(st) = 1..(Len(st) - 1) /\ Len(st) \in Nat /\ DOMAIN st = 1..Len(st)
      /\ \A i \in 1..(Len(st) - 1) : Tail(st)[i] = st[i + 1] /\ i + 1 \in 1..Len(st)
  OBVIOUS
<1>. QED
  BY <1>1

LEMMA CoveredRest ==
    ASSUME NEW S, NEW st \in Seq(SUBSET S), NEW E, NEW F, st # <<>>, NEW c \in st[1],
           Covered(st, E),
           \A g \in Graph : g \in E /\ ~(c.do = "drop" /\ c.g = g) => g \in F,
           \A g \in Graph : c = Call("ensure", g, {}) => g \in F
    PROVE  Covered(Rest(st, c), F)
<1>. DEFINE su == <<Head(st) \ {c}>> \o Tail(st)
<1>1. Head(st) = st[1] /\ Tail(st) \in Seq(SUBSET S) /\ Head(st) \in SUBSET S
  OBVIOUS
<1>2. /\ Len(Tail(st)) = Len(st) - 1 /\ Len(st) \in Nat /\ Len(st) >= 1
      /\ \A i \in 1..(Len(st) - 1) : Tail(st)[i] = st[i + 1]
  OBVIOUS
<1>3. /\ su \in Seq(SUBSET S) /\ Len(su) = Len(st) /\ su[1] = st[1] \ {c} /\ su # <<>>
      /\ Tail(su) = Tail(st)
      /\ \A i \in 2..Len(st) : su[i] = Tail(st)[i - 1]
  BY <1>1, <1>2
<1>. HIDE DEF su
<1>4. ASSUME NEW i \in 2..Len(st) PROVE su[i] = st[i]
  <2>1. i - 1 \in 1..(Len(st) - 1) /\ (i - 1) + 1 = i
    BY <1>2
  <2>. QED
    BY <1>2, <1>3, <2>1
<1>5. Covered(su, F)
  BY <1>3, <1>4, CoveredLess
<1>6. CASE Head(st) \subseteq {c}
  <2>1. su[1] = {}
    BY <1>1, <1>3, <1>6
  <2>. QED
    BY <1>3, <1>5, <1>6, <2>1, CoveredTail, Zenon DEF Rest
<1>7. CASE ~(Head(st) \subseteq {c})
  BY <1>5, <1>7 DEF Rest, su
<1>. QED
  BY <1>6, <1>7
-----------------------------------------------------------------------------
\* A request that a step leaves alone.
Same(p) ==
    /\ hold'[p] = hold[p] /\ pc'[p] = pc[p] /\ req'[p] = req[p] /\ todo'[p] = todo[p]
    /\ status'[p] = status[p] /\ seen'[p] = seen[p] /\ base'[p] = base[p]

LEMMA Bystander ==
    ASSUME EndpointInv, UNCHANGED backend, NEW p \in Proc, Same(p),
           UNCHANGED <<data, entries>> \/ ~Inside(p)
    PROVE  Placed(p)' /\ Reader(p)' /\ Writer(p)'
<1>1. Placed(p) /\ Reader(p) /\ Writer(p)
  BY DEF EndpointInv
<1>2. Placed(p)' /\ Inside(p)' = Inside(p)
  BY <1>1 DEF Placed, Same, Inside
<1>3. CASE ~Inside(p)
  BY <1>1, <1>2, <1>3 DEF Placed, Reader, Writer, Same, Inside
<1>4. CASE UNCHANGED <<data, entries>>
  <2>1. State' = State
    BY <1>4 DEF State
  <2>2. Was(p)' = Was(p)
    BY DEF Was, ExistsIn, Same
  <2>3. Reader(p)'
    BY <1>1, <2>1, Zenon DEF Reader, Same
  <2>4. /\ Putting(p, req[p].g, req[p].triples) => Putting(p, req[p].g, req[p].triples)'
        /\ Posting(p, req[p].g, req[p].triples) => Posting(p, req[p].g, req[p].triples)'
        /\ Deleting(p, req[p].g) => Deleting(p, req[p].g)'
    BY <1>4, <2>1, <2>2 DEF Putting, Posting, Deleting, Same, ExistsIn
  <2>5. Writer(p)'
    BY <1>1, <1>4, <2>1, <2>2, <2>4 DEF Writer, Same
  <2>. QED
    BY <1>2, <2>3, <2>5
<1>. QED
  BY <1>3, <1>4

\* A step of one request that leaves the dataset alone.
LEMMA LocalStep ==
    ASSUME EndpointInv, UNCHANGED <<data, entries, backend>>, NEW r \in Proc,
           \A p \in Proc \ {r} : Same(p),
           Types', WriterAlone', Settled', Strangers',
           Placed(r)', Reader(r)', Writer(r)', Minted(r)'
    PROVE  EndpointInv'
<1>1. ASSUME NEW p \in Proc, p # r PROVE Placed(p)' /\ Reader(p)' /\ Writer(p)' /\ Minted(p)'
  <2>1. Same(p)
    BY <1>1
  <2>2. Minted(p)
    BY DEF EndpointInv
  <2>. QED
    BY <2>1, <2>2, Bystander DEF Minted, Same, ExistsIn, State
<1>2. Entered'
  BY DEF EndpointInv, Entered, NonEmpty, In
<1>. QED
  BY <1>1, <1>2 DEF EndpointInv

\* One whose lock, place and request do not change.
LEMMA Unmoved ==
    ASSUME EndpointInv, UNCHANGED <<data, entries, hold, pc, req, stable>>
    PROVE  WriterAlone' /\ Settled' /\ Strangers'
<1>1. WriterAlone /\ Settled /\ Strangers /\ State' = State
  BY DEF EndpointInv, State
<1>2. WriterAlone'
  BY <1>1 DEF WriterAlone, Inside
<1>3. Settled'
  BY <1>1 DEF Settled
<1>4. Strangers'
  BY <1>1 DEF Strangers
<1>. QED
  BY <1>2, <1>3, <1>4

LEMMA TypesAre ==
    ASSUME EndpointInv
    PROVE  /\ data \in SUBSET Quad /\ entries \in SUBSET Graph /\ State \in Dataset
           /\ pc \in [Proc -> {"idle", "ask", "look", "work", "send"}]
           /\ status \in [Proc -> {"none", "200", "201", "204", "404", "4xx", "fail"}]
           /\ hold \in [Proc -> Holds]
           /\ seen \in [Proc -> SUBSET Quad]
           /\ req \in [Proc -> Requests \cup {NoRequest}]
           /\ todo \in [Proc -> Seq(SUBSET AnyCall)]
           /\ done \in [Proc -> BOOLEAN]
           /\ base \in [Proc -> Dataset]
BY DEF EndpointInv, Types, TypeOK, State, Dataset

LEMMA ContextDoneStep ==
    ASSUME EndpointInv, NEW r \in Proc, ContextDone(r), UNCHANGED backend
    PROVE  EndpointInv'
<1>1. \A p \in Proc : Same(p)
  BY DEF ContextDone, Same
<1>2. Types'
  BY TypesAre DEF ContextDone, Types, TypeOK
<1>3. Placed(r)' /\ Reader(r)' /\ Writer(r)'
  BY <1>1, Bystander DEF ContextDone
<1>4. Minted(r)'
  <2>1. Minted(r)
    BY DEF EndpointInv
  <2>. QED
    BY <2>1 DEF Minted, ContextDone, ExistsIn, State
<1>. QED
  BY <1>1, <1>2, <1>3, <1>4, LocalStep, Unmoved DEF ContextDone

LEMMA WaitStep ==
    ASSUME EndpointInv, NEW r \in Proc, Wait(r), UNCHANGED backend
    PROVE  EndpointInv'
<1>1. /\ pc[r] = "ask" /\ UNCHANGED evars
      /\ \E h \in {"waitR", "waitW"} : hold' = [hold EXCEPT ![r] = h]
  BY DEF Wait, AskRead, AskWrite, BecomeAt
<1>2. \A p \in Proc \ {r} : Same(p)
  BY <1>1, TypesAre DEF evars, Same
<1>3. Types'
  BY <1>1, TypesAre DEF evars, Types, TypeOK, Holds
<1>4. ~Inside(r) /\ ~Inside(r)' /\ hold'[r] # "writing" /\ hold'[r] # "reading"
  BY <1>1, TypesAre DEF EndpointInv, Placed, Inside
<1>5. State' = State
  BY <1>1 DEF State, evars
<1>6. WriterAlone' /\ Settled' /\ Strangers'
  <2>1. \A p \in Proc : /\ (hold'[p] = "writing" <=> hold[p] = "writing")
                        /\ (Inside(p)' <=> Inside(p))
    BY <1>2, <1>4, SMTT(30) DEF Same, Inside
  <2>. QED
    BY <1>1, <1>5, <2>1 DEF EndpointInv, WriterAlone, Settled, Strangers, evars
<1>7. Placed(r)' /\ Reader(r)' /\ Writer(r)' /\ Minted(r)'
  <2>1. Placed(r) /\ Reader(r) /\ Minted(r)
    BY DEF EndpointInv
  <2>. QED
    BY <1>1, <1>4, <1>5, <2>1 DEF Placed, Reader, Writer, Minted, Inside, ExistsIn, evars
<1>. QED
  BY <1>1, <1>2, <1>3, <1>6, <1>7, LocalStep DEF evars

LEMMA ArriveStep ==
    ASSUME EndpointInv, NEW r \in Proc, Arrive(r), UNCHANGED backend
    PROVE  EndpointInv'
<1>1. PICK q \in Requests :
        /\ q.kind = "postStore" => q.g \in Fresh /\ ~ExistsIn(State, q.g)
        /\ \A p \in Proc : pc[p] \notin {"idle", "send"} => Apart(q, req[p])
        /\ req' = [req EXCEPT ![r] = q]
        /\ \/ pc' = [pc EXCEPT ![r] = "ask"] /\ UNCHANGED status
           \/ pc' = [pc EXCEPT ![r] = "send"] /\ status' = [status EXCEPT ![r] = "4xx"]
  BY Zenon DEF Arrive, GoTo
<1>2. pc[r] = "idle" /\ UNCHANGED <<hold, data, entries, todo, seen, done, base, stable>>
  BY DEF Arrive
<1>3. \A p \in Proc \ {r} : Same(p)
  BY <1>1, <1>2, TypesAre DEF Same
<1>4. Types'
  BY <1>1, <1>2, TypesAre, Zenon DEF Types, TypeOK
<1>5. State' = State
  BY <1>2 DEF State
<1>6. /\ ~Inside(r) /\ todo[r] = <<>> /\ seen[r] = {} /\ hold[r] # "writing"
      /\ hold[r] # "reading"
  BY <1>2 DEF EndpointInv, Placed, Inside
<1>7. req'[r] = q /\ pc'[r] \in {"ask", "send"}
  BY <1>1, TypesAre
<1>8. WriterAlone'
  BY <1>2 DEF EndpointInv, WriterAlone, Inside
<1>9. Settled'
  BY <1>2, <1>3, <1>5, <1>6 DEF EndpointInv, Settled, Same
<1>10. Strangers'
  <2>. SUFFICES ASSUME NEW a \in Proc, NEW b \in Proc, a # b,
                       pc'[a] \notin {"idle", "send"}, pc'[b] \notin {"idle", "send"}
                PROVE  Apart(req'[a], req'[b])
    BY DEF Strangers
  <2>1. CASE a = r
    <3>1. req'[b] = req[b] /\ pc[b] \notin {"idle", "send"}
      BY <1>3, <2>1 DEF Same
    <3>. QED
      BY <1>1, <1>7, <2>1, <3>1
  <2>2. CASE b = r
    <3>1. req'[a] = req[a] /\ pc[a] \notin {"idle", "send"}
      BY <1>3, <2>2 DEF Same
    <3>2. Apart(q, req[a])
      BY <1>1, <3>1
    <3>. QED
      BY <1>7, <2>2, <3>1, <3>2 DEF Apart
  <2>3. CASE a # r /\ b # r
    BY <1>3, <2>3 DEF Same, EndpointInv, Strangers
  <2>. QED
    BY <2>1, <2>2, <2>3
<1>11. Placed(r)'
  BY <1>2, <1>6, <1>7 DEF Placed, Inside
<1>12. Reader(r)'
  <2>1. status'[r] = "4xx" \/ pc'[r] = "ask"
    BY <1>1, TypesAre, SMTT(30)
  <2>. QED
    BY <1>2, <1>6, <2>1 DEF Reader
<1>13. Writer(r)'
  BY <1>2, <1>6 DEF Writer
<1>14. Minted(r)'
  BY <1>1, <1>5, <1>7, GraphNames DEF Minted, ExistsIn
<1>. QED
  BY <1>2, <1>3, <1>4, <1>8, <1>9, <1>10, <1>11, <1>12, <1>13, <1>14, LocalStep

\* Requests that stay active stay apart.
LEMMA StrangersStay ==
    ASSUME EndpointInv,
           \A p \in Proc : pc'[p] \notin {"idle", "send"} =>
               pc[p] \notin {"idle", "send"} /\ req'[p] = req[p]
    PROVE  Strangers'
BY DEF EndpointInv, Strangers

LEMMA EnterStep ==
    ASSUME EndpointInv, NEW r \in Proc, Enter(r), UNCHANGED backend
    PROVE  EndpointInv'
<1>1. /\ pc[r] = "ask" /\ pc' = [pc EXCEPT ![r] = "look"]
      /\ base' = [base EXCEPT ![r] = State]
      /\ UNCHANGED <<data, entries, req, todo, status, seen, done, stable>>
  BY DEF Enter, GoTo
<1>2. PICK h \in {"reading", "writing"} :
        /\ hold' = [hold EXCEPT ![r] = h]
        /\ h = "reading" => req[r].kind \in Reads /\ Holding("writing") = {}
        /\ h = "writing" => /\ req[r].kind \in Writes
                            /\ Holding("writing") = {} /\ Holding("reading") = {}
  BY DEF Enter, EnterRead, EnterWrite, BecomeAt, ReadersMayEnter, WriterMayEnter
<1>3. \A p \in Proc \ {r} : Same(p)
  BY <1>1, <1>2, TypesAre DEF Same
<1>4. Types'
  BY <1>1, <1>2, TypesAre DEF Types, TypeOK, Holds
<1>5. State' = State
  BY <1>1 DEF State
<1>6. pc'[r] = "look" /\ hold'[r] = h /\ base'[r] = State
  BY <1>1, <1>2, TypesAre
<1>7. todo[r] = <<>> /\ seen[r] = {} /\ req[r] \in Requests
  BY <1>1 DEF EndpointInv, Placed
<1>8. \A p \in Proc : hold[p] # "writing"
  BY <1>2 DEF Holding
<1>9. WriterAlone'
  <2>1. \A p \in Proc \ {r} : hold'[p] # "writing" /\ (Inside(p)' <=> hold[p] = "reading")
    BY <1>3, <1>8 DEF Same, Inside
  <2>2. h = "writing" => \A p \in Proc : hold[p] # "reading"
    BY <1>2 DEF Holding
  <2>. QED
    BY <1>6, <2>1, <2>2 DEF WriterAlone
<1>10. Settled'
  <2>1. State = stable
    BY <1>8 DEF EndpointInv, Settled
  <2>. QED
    BY <1>1, <1>5, <2>1 DEF Settled
<1>11. Strangers'
  BY <1>1, StrangersStay, TypesAre
<1>12. Placed(r)'
  BY <1>1, <1>2, <1>6, <1>7 DEF Placed, Inside
<1>13. Reader(r)'
  BY <1>1, <1>5, <1>6, <1>7, SMTT(30) DEF Reader
<1>14. Writer(r)'
  BY <1>1, <1>5, <1>6, <1>7 DEF Writer, Covered
<1>15. Minted(r)'
  BY <1>1, <1>5, <1>6 DEF EndpointInv, Minted, ExistsIn
<1>. QED
  BY <1>1, <1>3, <1>4, <1>9, <1>10, <1>11, <1>12, <1>13, <1>14, <1>15, LocalStep

LEMMA StopWaitingStep ==
    ASSUME EndpointInv, NEW r \in Proc, StopWaiting(r), UNCHANGED backend
    PROVE  EndpointInv'
<1>1. /\ pc[r] = "ask" /\ pc' = [pc EXCEPT ![r] = "send"]
      /\ status' = [status EXCEPT ![r] = "fail"] /\ hold' = [hold EXCEPT ![r] = "none"]
      /\ UNCHANGED <<data, entries, req, todo, seen, done, base, stable>>
  BY DEF StopWaiting, GoTo, GiveUp, BecomeAt
<1>2. \A p \in Proc \ {r} : Same(p)
  BY <1>1, TypesAre DEF Same
<1>3. Types'
  BY <1>1, TypesAre DEF Types, TypeOK, Holds
<1>4. State' = State
  BY <1>1 DEF State
<1>5. pc'[r] = "send" /\ hold'[r] = "none" /\ status'[r] = "fail"
  BY <1>1, TypesAre
<1>6. todo[r] = <<>> /\ req[r] \in Requests /\ ~Inside(r)
  BY <1>1 DEF EndpointInv, Placed
<1>7. \A p \in Proc : hold'[p] = hold[p] \/ (p = r /\ hold'[p] = "none")
  BY <1>2, <1>5 DEF Same
<1>8. WriterAlone'
  BY <1>7 DEF EndpointInv, WriterAlone, Inside
<1>9. Settled'
  <2>1. \A p \in Proc : hold[p] = "writing" => hold'[p] = "writing" /\ pc'[p] = pc[p]
    BY <1>2, <1>6 DEF Same, Inside
  <2>. QED
    BY <1>1, <1>4, <2>1 DEF EndpointInv, Settled
<1>10. Strangers'
  BY <1>1, StrangersStay, TypesAre, SMTT(30)
<1>11. Placed(r)' /\ Reader(r)' /\ Writer(r)' /\ Minted(r)'
  BY <1>1, <1>5, <1>6 DEF Placed, Reader, Writer, Minted, Inside
<1>. QED
  BY <1>1, <1>2, <1>3, <1>8, <1>9, <1>10, <1>11, LocalStep

LEMMA SendStep ==
    ASSUME EndpointInv, NEW r \in Proc, Send(r), UNCHANGED backend
    PROVE  EndpointInv'
<1>1. /\ pc[r] = "send" /\ pc' = [pc EXCEPT ![r] = "idle"]
      /\ status' = [status EXCEPT ![r] = "none"] /\ seen' = [seen EXCEPT ![r] = {}]
      /\ done' = [done EXCEPT ![r] = FALSE] /\ req' = [req EXCEPT ![r] = NoRequest]
      /\ base' = [base EXCEPT ![r] = Nothing]
      /\ UNCHANGED <<hold, data, entries, todo, stable>>
  BY DEF Send, GoTo
<1>2. \A p \in Proc \ {r} : Same(p)
  BY <1>1, TypesAre DEF Same
<1>3. Nothing \in Dataset
  BY DEF Nothing, Dataset
<1>4. Types'
  BY <1>1, <1>3, TypesAre DEF Types, TypeOK
<1>5. State' = State
  BY <1>1 DEF State
<1>6. pc'[r] = "idle" /\ status'[r] = "none" /\ seen'[r] = {} /\ todo'[r] = <<>> /\ ~Inside(r)
  BY <1>1, TypesAre, SMTT(30) DEF EndpointInv, Placed
<1>7. WriterAlone' /\ Settled'
  BY <1>1, <1>2, <1>5, <1>6 DEF EndpointInv, WriterAlone, Settled, Inside, Same
<1>8. Strangers'
  BY <1>1, StrangersStay, TypesAre, SMTT(30)
<1>9. Placed(r)' /\ Reader(r)' /\ Writer(r)' /\ Minted(r)'
  BY <1>1, <1>6, Zenon DEF Placed, Reader, Writer, Minted, Inside
<1>. QED
  BY <1>1, <1>2, <1>4, <1>7, <1>8, <1>9, LocalStep

\* What is left for a failed update to commit is opened first.
LEMMA CommitCovered ==
    ASSUME NEW r \in Proc, todo[r] \in Seq(SUBSET AnyCall), NEW S \in SUBSET Unsaved(r), NEW E
    PROVE  /\ commit(S) \in Seq(SUBSET AnyCall) /\ Covered(commit(S), E)
           /\ \A i \in DOMAIN commit(S) : \A c \in commit(S)[i] :
                 Change(c) /\ \E d \in Unsaved(r) : d.g = c.g
           /\ req[r].kind # "update" => commit(S) = <<>>
<1>1. CASE S = {}
  BY <1>1 DEF commit, Covered
<1>2. CASE S # {}
  <2>. DEFINE O == {Call("ensure", c.g, {}) : c \in S}
  <2>1. commit(S) = <<O, S>>
    BY <1>2 DEF commit
  <2>2. Unsaved(r) \subseteq AnyCall
    BY DEF Unsaved
  <2>3. \A c \in S : c \in AnyCall /\ c.do = "add" /\ c.g \in Graph
    BY <2>2 DEF Unsaved
  <2>4. \A c \in O : c \in AnyCall /\ c.do = "ensure" /\ c.triples = {}
                     /\ \E d \in S : d.g = c.g
    BY <2>3 DEF Call, AnyCall, GraphRef
  <2>5. O \in SUBSET AnyCall /\ S \in SUBSET AnyCall
    BY <2>3, <2>4, Zenon
  <2>6. \A c \in S : Call("ensure", c.g, {}) \in O
    OBVIOUS
  <2>7. \A c \in O \cup S : Change(c) /\ \E d \in Unsaved(r) : d.g = c.g
    BY <2>3, <2>4 DEF Change, AnyCall
  <2>8. \A g : NoDrop(O, g) /\ NoDrop(S, g)
    BY <2>3, <2>4 DEF NoDrop
  <2>9. req[r].kind = "update"
    BY <1>2 DEF Unsaved
  <2>. HIDE DEF O
  <2>10. commit(S) \in Seq(SUBSET AnyCall)
    BY <2>1, <2>5
  <2>11. ASSUME NEW c \in S PROVE OpensFor(<<O, S>>, 1, 2, c.g)
    BY <2>6, <2>8 DEF OpensFor
  <2>12. Covered(<<O, S>>, E)
    BY <2>4, <2>11 DEF Covered
  <2>. QED
    BY <2>1, <2>7, <2>9, <2>10, <2>12
<1>. QED
  BY <1>1, <1>2

LEMMA CallFailsStep ==
    ASSUME EndpointInv, NEW r \in Proc, CallFails(r), UNCHANGED backend
    PROVE  EndpointInv'
<1>1. /\ pc[r] \in {"look", "work"} /\ pc' = [pc EXCEPT ![r] = "work"]
      /\ status' = [status EXCEPT ![r] = "fail"]
      /\ UNCHANGED <<hold, data, entries, req, seen, done, base, stable>>
  BY DEF CallFails, GoTo
<1>2. PICK left \in {<<>>} \cup {commit(S) : S \in SUBSET Unsaved(r)} :
          todo' = [todo EXCEPT ![r] = left]
  BY DEF CallFails
<1>3. Placed(r) /\ Minted(r) /\ Reader(r) /\ Writer(r)
  BY DEF EndpointInv
<1>4. /\ left \in Seq(SUBSET AnyCall) /\ Covered(left, entries)
      /\ \A i \in DOMAIN left : \A c \in left[i] :
            Change(c) /\ \E d \in Unsaved(r) : d.g = c.g
      /\ req[r].kind # "update" => left = <<>>
  <2>1. CASE left = <<>>
    BY <2>1 DEF Covered
  <2>2. CASE \E S \in SUBSET Unsaved(r) : left = commit(S)
    <3>1. todo[r] \in Seq(SUBSET AnyCall)
      BY TypesAre
    <3>2. PICK S \in SUBSET Unsaved(r) : left = commit(S)
      BY <2>2
    <3>3. /\ commit(S) \in Seq(SUBSET AnyCall) /\ Covered(commit(S), entries)
          /\ \A i \in DOMAIN commit(S) : \A c \in commit(S)[i] :
                Change(c) /\ \E d \in Unsaved(r) : d.g = c.g
          /\ req[r].kind # "update" => commit(S) = <<>>
      BY <3>1, CommitCovered
    <3>. QED
      BY <3>2, <3>3
  <2>. QED
    BY <2>1, <2>2
<1>5. pc'[r] = "work" /\ status'[r] = "fail" /\ todo'[r] = left /\ Inside(r)
  BY <1>1, <1>2, <1>3, TypesAre DEF Placed
<1>6. \A p \in Proc \ {r} : Same(p)
  BY <1>1, <1>2, TypesAre DEF Same
<1>7. Types'
  BY <1>1, <1>2, <1>4, TypesAre DEF Types, TypeOK
<1>8. State' = State
  BY <1>1 DEF State
<1>9. WriterAlone'
  BY <1>1, SMTT(30) DEF EndpointInv, WriterAlone, Inside
<1>10. Settled'
  BY <1>1, <1>5, <1>6, <1>8 DEF EndpointInv, Settled, Same
<1>11. Strangers'
  BY <1>1, StrangersStay, TypesAre
<1>12. Placed(r)'
  BY <1>1, <1>3, <1>5, SMTT(30) DEF Placed, Inside
<1>13. Minted(r)'
  BY <1>1, <1>3, <1>5, <1>8, SMTT(30) DEF Minted
<1>14. Reader(r)'
  <2>1. hold[r] = "reading" => left = <<>>
    BY <1>3, <1>4 DEF Placed, Reads
  <2>. QED
    BY <1>1, <1>3, <1>5, <1>8, <2>1, SMTT(30) DEF Reader
<1>15. Writer(r)'
  <2>1. hold[r] = "writing" /\ pc[r] = "look" => Others(data, req[r].g) = Others(base[r].data, req[r].g)
    <3>1. hold[r] = "writing" /\ pc[r] = "look" => base[r] = State
      BY <1>3, Zenon DEF Writer
    <3>2. State.data = data
      BY SMTT(30) DEF State
    <3>. QED
      BY <3>1, <3>2, SMTT(30)
  <2>2. hold[r] = "writing" /\ pc[r] = "work" /\ req[r].kind \in GraphWrites =>
            Others(data, req[r].g) = Others(base[r].data, req[r].g)
    BY <1>3 DEF Writer
  <2>3. hold[r] = "writing" => \A d \in Unsaved(r) : d.g \in Written(req[r])
    BY <1>3, TypesAre DEF Writer, Unsaved
  <2>. QED
    BY <1>1, <1>4, <1>5, <2>1, <2>2, <2>3 DEF Writer
<1>. QED
  BY <1>1, <1>6, <1>7, <1>9, <1>10, <1>11, <1>12, <1>13, <1>14, <1>15, LocalStep

\* The lock is given back: by then a writer's changes are all there are.
LEMMA UnlockedStep ==
    ASSUME EndpointInv, NEW r \in Proc, Unlocked(r), UNCHANGED <<data, entries, req>>
    PROVE  /\ WriterAlone' /\ Settled' /\ Strangers'
           /\ hold' = [hold EXCEPT ![r] = "none"] /\ pc' = [pc EXCEPT ![r] = "send"]
<1>1. /\ hold' = [hold EXCEPT ![r] = "none"] /\ pc' = [pc EXCEPT ![r] = "send"]
      /\ stable' = IF hold[r] = "writing" THEN State ELSE stable
  BY DEF Unlocked, Leave, BecomeAt, GoTo
<1>2. \A p \in Proc \ {r} : hold'[p] = hold[p] /\ pc'[p] = pc[p]
  BY <1>1, TypesAre
<1>3. hold'[r] = "none" /\ State' = State
  BY <1>1, TypesAre DEF State
<1>4. WriterAlone'
  BY <1>2, <1>3 DEF EndpointInv, WriterAlone, Inside
<1>5. Settled'
  BY <1>1, <1>2, <1>3 DEF EndpointInv, Settled
<1>6. Strangers'
  BY <1>1, StrangersStay, TypesAre
<1>. QED
  BY <1>1, <1>4, <1>5, <1>6

LEMMA FinishStep ==
    ASSUME EndpointInv, NEW r \in Proc, Finish(r), UNCHANGED backend
    PROVE  EndpointInv'
<1>1. /\ pc[r] = "work" /\ todo[r] = <<>> /\ Unlocked(r)
      /\ UNCHANGED status \/ status' = [status EXCEPT ![r] = "fail"]
      /\ UNCHANGED <<data, entries, req, todo, seen, done, base>>
  BY DEF Finish
<1>2. /\ WriterAlone' /\ Settled' /\ Strangers'
      /\ hold' = [hold EXCEPT ![r] = "none"] /\ pc' = [pc EXCEPT ![r] = "send"]
  BY <1>1, UnlockedStep
<1>3. \A p \in Proc \ {r} : Same(p)
  BY <1>1, <1>2, TypesAre DEF Same
<1>4. Types'
  BY <1>1, <1>2, TypesAre, Zenon DEF Types, TypeOK, Holds
<1>5. /\ hold'[r] = "none" /\ pc'[r] = "send" /\ req[r] \in Requests
      /\ status'[r] = status[r] \/ status'[r] = "fail"
  BY <1>1, <1>2, TypesAre DEF EndpointInv, Placed
<1>6. Placed(r)' /\ Writer(r)' /\ Minted(r)'
  BY <1>1, <1>5 DEF Placed, Writer, Minted, Inside
<1>7. Reader(r)'
  <2>1. ASSUME req[r].kind \in Reads, status[r] = "200" PROVE seen[r] = Of(base[r].data, Asked(req[r]))
    <3>1. PICK R \in SUBSET Asked(req[r]) :
              /\ todo[r] = <<ReadCalls(R)>> \/ (todo[r] = <<>> /\ R = {})
              /\ seen[r] = Of(base[r].data, Asked(req[r]) \ R)
      BY <1>1, <2>1, Zenon DEF EndpointInv, Reader
    <3>2. <<ReadCalls(R)>> # <<>>
      OBVIOUS
    <3>. QED
      BY <1>1, <3>1, <3>2, SMTT(30) DEF Of
  <2>. QED
    BY <1>1, <1>5, <2>1, SMTT(30) DEF Reader
<1>. QED
  BY <1>1, <1>2, <1>3, <1>4, <1>6, <1>7, LocalStep, SMTT(30)

LEMMA PanicsStep ==
    ASSUME EndpointInv, NEW r \in Proc, Panics(r), UNCHANGED backend
    PROVE  EndpointInv'
<1>1. /\ pc[r] \in {"look", "work"} /\ Unlocked(r)
      /\ status' = [status EXCEPT ![r] = "fail"] /\ todo' = [todo EXCEPT ![r] = <<>>]
      /\ UNCHANGED <<data, entries, req, seen, done, base>>
  BY DEF Panics
<1>2. /\ WriterAlone' /\ Settled' /\ Strangers'
      /\ hold' = [hold EXCEPT ![r] = "none"] /\ pc' = [pc EXCEPT ![r] = "send"]
  BY <1>1, UnlockedStep
<1>3. \A p \in Proc \ {r} : Same(p)
  BY <1>1, <1>2, TypesAre DEF Same
<1>4. Types'
  BY <1>1, <1>2, TypesAre DEF Types, TypeOK, Holds
<1>5. /\ hold'[r] = "none" /\ pc'[r] = "send" /\ req[r] \in Requests
      /\ status'[r] = "fail" /\ todo'[r] = <<>>
  BY <1>1, <1>2, TypesAre DEF EndpointInv, Placed
<1>6. Placed(r)' /\ Reader(r)' /\ Writer(r)' /\ Minted(r)'
  BY <1>1, <1>5, Zenon DEF Placed, Reader, Writer, Minted, Inside
<1>. QED
  BY <1>1, <1>2, <1>3, <1>4, <1>6, LocalStep
-----------------------------------------------------------------------------
\* The calls of a request, by what they are for.
LEMMA CallsAre ==
    ASSUME NEW g \in GraphRef, NEW T \in SUBSET Triple
    PROVE  /\ ReadCalls({g}) \in SUBSET AnyCall /\ Opened(g) \in SUBSET AnyCall
           /\ Clear(g) \in SUBSET AnyCall /\ Drop(g) \in SUBSET AnyCall
           /\ Adds(g, T) \in SUBSET AnyCall
           /\ \A c \in Opened(g) : Change(c) /\ c.g = g /\ c.do = "ensure"
           /\ \A c \in Clear(g) : Change(c) /\ c.g = g /\ c.do = "remove" /\ c.triples = Triple
           /\ \A c \in Drop(g) : Change(c) /\ c.g = g /\ c.do = "drop" /\ c.triples = Triple
           /\ \A c \in Adds(g, T) : Change(c) /\ c.g = g /\ c.do = "add"
           /\ g \in Graph => Call("ensure", g, {}) \in Opened(g)
<1>1. g \in Graph => g # Default
  BY GraphNames
<1>2. g # Default => g \in Graph
  BY DEF GraphRef
<1>. QED
  BY <1>1, <1>2 DEF ReadCalls, Opened, Ensure, Clear, Drop, Adds, Call, Change, AnyCall

LEMMA ReadCallsAre ==
    ASSUME NEW R \in SUBSET GraphRef
    PROVE  ReadCalls(R) \in SUBSET AnyCall /\ \A c \in ReadCalls(R) : c.do = "read"
BY DEF ReadCalls, Call, AnyCall

LEMMA PutCovered ==
    ASSUME NEW g \in GraphRef, NEW T \in SUBSET Triple, NEW E
    PROVE  Covered(<<Opened(g), Clear(g), Adds(g, T)>>, E)
<1>. DEFINE st == <<Opened(g), Clear(g), Adds(g, T)>>
<1>1. DOMAIN st = 1..3 /\ st[1] = Opened(g) /\ st[2] = Clear(g) /\ st[3] = Adds(g, T)
  OBVIOUS
<1>. HIDE DEF st
<1>2. /\ \A c \in Opened(g) : c.do = "ensure"
      /\ \A c \in Clear(g) : c.do = "remove"
      /\ \A c \in Adds(g, T) : c.do = "add" /\ c.g = g
      /\ g \in Graph => Call("ensure", g, {}) \in Opened(g)
  BY CallsAre, Zenon
<1>3. NoDrop(st[1], g) /\ NoDrop(st[2], g) /\ NoDrop(st[3], g)
  BY <1>1, <1>2 DEF NoDrop
<1>4. \A k \in 1..3 : k = 1 \/ k = 2 \/ k = 3
  OBVIOUS
<1>. SUFFICES ASSUME NEW i \in 1..3, NEW c \in st[i], c.do = "add", c.g \in Graph
              PROVE  \E j \in 1..3 : OpensFor(st, j, i, c.g)
  BY <1>1 DEF Covered, st
<1>5. i = 3 /\ c.g = g
  <2>1. st[1] = Opened(g) /\ st[2] = Clear(g) /\ st[3] = Adds(g, T)
    BY <1>1
  <2>. QED
    BY <1>2, <1>4, <2>1
<1>6. OpensFor(st, 1, 3, g)
  BY <1>1, <1>2, <1>3, <1>4, <1>5 DEF OpensFor
<1>. QED
  BY <1>5, <1>6

LEMMA PostCovered ==
    ASSUME NEW g \in GraphRef, NEW T \in SUBSET Triple, NEW E
    PROVE  Covered(<<Opened(g), Adds(g, T)>>, E)
<1>. DEFINE st == <<Opened(g), Adds(g, T)>>
<1>1. DOMAIN st = 1..2 /\ st[1] = Opened(g) /\ st[2] = Adds(g, T)
  OBVIOUS
<1>. HIDE DEF st
<1>2. /\ \A c \in Opened(g) : c.do = "ensure"
      /\ \A c \in Adds(g, T) : c.do = "add" /\ c.g = g
      /\ g \in Graph => Call("ensure", g, {}) \in Opened(g)
  BY CallsAre, Zenon
<1>3. NoDrop(st[1], g) /\ NoDrop(st[2], g)
  BY <1>1, <1>2 DEF NoDrop
<1>4. \A k \in 1..2 : k = 1 \/ k = 2
  OBVIOUS
<1>. SUFFICES ASSUME NEW i \in 1..2, NEW c \in st[i], c.do = "add", c.g \in Graph
              PROVE  \E j \in 1..2 : OpensFor(st, j, i, c.g)
  BY <1>1 DEF Covered, st
<1>5. i = 2 /\ c.g = g
  <2>1. st[1] = Opened(g) /\ st[2] = Adds(g, T)
    BY <1>1
  <2>. QED
    BY <1>2, <1>4, <2>1
<1>6. OpensFor(st, 1, 2, g)
  BY <1>1, <1>2, <1>3, <1>4, <1>5 DEF OpensFor
<1>. QED
  BY <1>5, <1>6

\* A graph that does not exist has no quads.
LEMMA AbsentIsEmpty ==
    ASSUME EndpointInv, NEW g \in Graph, ~ExistsIn(State, g)
    PROVE  In(data, g) = {}
BY DEF EndpointInv, Entered, NonEmpty, ExistsIn, State

LEMMA LookReads ==
    ASSUME EndpointInv, NEW r \in Proc, pc[r] = "look", hold[r] = "reading"
    PROVE  /\ Decide(req[r]).calls \in Seq(SUBSET AnyCall)
           /\ \A i \in DOMAIN Decide(req[r]).calls : \A c \in Decide(req[r]).calls[i] : c.do = "read"
           /\ Decide(req[r]).status \in {"200", "404"}
           /\ Decide(req[r]).status = "200" =>
                 \E R \in SUBSET Asked(req[r]) : /\ Decide(req[r]).calls = <<ReadCalls(R)>>
                                                 /\ Of(data, Asked(req[r]) \ R) = {}
<1>. DEFINE q == req[r]
<1>1. q \in Requests /\ q.kind \in Reads
  BY DEF EndpointInv, Placed
<1>2. RequestOK(q)
  BY <1>1, RequestsParsed
<1>3. ASSUME NEW R \in SUBSET GraphRef
      PROVE  /\ <<ReadCalls(R)>> \in Seq(SUBSET AnyCall)
             /\ \A i \in DOMAIN <<ReadCalls(R)>> : \A c \in <<ReadCalls(R)>>[i] : c.do = "read"
  <2>1. ReadCalls(R) \in SUBSET AnyCall /\ \A c \in ReadCalls(R) : c.do = "read"
    BY ReadCallsAre
  <2>2. /\ <<ReadCalls(R)>> \in Seq(SUBSET AnyCall)
        /\ \A i \in DOMAIN <<ReadCalls(R)>> : <<ReadCalls(R)>>[i] = ReadCalls(R)
    BY <2>1
  <2>. QED
    BY <2>1, <2>2
<1>4. CASE q.kind \in {"query", "Read"}
  <2>. DEFINE R == View(State, q.graphs)
  <2>1. q.graphs \subseteq GraphRef
    BY <1>2, <1>4 DEF RequestOK
  <2>2. R \in SUBSET GraphRef /\ R \in SUBSET Asked(q)
    BY <1>4, <2>1 DEF View, Asked
  <2>3. Decide(q) = [status |-> "200", calls |-> <<ReadCalls(R)>>]
    BY <1>4 DEF Decide, query
  <2>4. Of(data, Asked(q) \ R) = {}
    <3>. SUFFICES ASSUME NEW x \in data, x[1] \in q.graphs, x[1] \notin R PROVE FALSE
      BY <1>4 DEF Of, Asked
    <3>1. x \in Quad
      BY TypesAre
    <3>2. x[1] \in Graph /\ ~ExistsIn(State, x[1]) /\ x[2] \in Triple /\ x = <<x[1], x[2]>>
      BY <3>1, <2>1 DEF View, Quad, GraphRef
    <3>3. In(data, x[1]) = {}
      BY <3>2, AbsentIsEmpty
    <3>. QED
      BY <3>2, <3>3 DEF In
  <2>. HIDE DEF R
  <2>5. Decide(q).calls = <<ReadCalls(R)>> /\ Decide(q).status = "200"
    BY <2>3
  <2>. QED
    BY <1>3, <2>2, <2>4, <2>5, Zenon
<1>5. CASE q.kind = "get"
  <2>1. q.g \in GraphRef /\ {q.g} \in SUBSET GraphRef
    BY <1>2, <1>5 DEF RequestOK
  <2>2. Decide(q) = gspGet(q)
    BY <1>5 DEF Decide
  <2>3. CASE q.g = Default \/ ExistsIn(State, q.g)
    <3>1. Decide(q).calls = <<ReadCalls({q.g})>> /\ Decide(q).status = "200"
      BY <2>2, <2>3 DEF gspGet
    <3>2. Of(data, Asked(q) \ {q.g}) = {} /\ {q.g} \in SUBSET Asked(q)
      BY <1>5 DEF Of, Asked
    <3>. QED
      BY <1>3, <2>1, <3>1, <3>2, Zenon
  <2>4. CASE ~(q.g = Default \/ ExistsIn(State, q.g))
    <3>1. Decide(q).calls = <<>> /\ Decide(q).status = "404"
      BY <2>2, <2>4 DEF gspGet
    <3>. QED
      BY <3>1
  <2>. QED
    BY <2>3, <2>4, Zenon
<1>. QED
  BY <1>1, <1>4, <1>5, Zenon DEF Reads

\* The calls of the Graph Store writes.
LEMMA PutCalls ==
    ASSUME NEW g \in GraphRef, NEW T \in SUBSET Triple
    PROVE  LET st == <<Opened(g), Clear(g), Adds(g, T)>>
           IN  /\ st \in Seq(SUBSET AnyCall)
               /\ \A i \in DOMAIN st : \A c \in st[i] : Change(c) /\ c.g = g
<1>. DEFINE st == <<Opened(g), Clear(g), Adds(g, T)>>
<1>1. /\ Opened(g) \in SUBSET AnyCall /\ \A c \in Opened(g) : Change(c) /\ c.g = g
      /\ Clear(g) \in SUBSET AnyCall /\ \A c \in Clear(g) : Change(c) /\ c.g = g
      /\ Adds(g, T) \in SUBSET AnyCall /\ \A c \in Adds(g, T) : Change(c) /\ c.g = g
  BY CallsAre, Zenon
<1>2. /\ st \in Seq(SUBSET AnyCall)
      /\ \A i \in DOMAIN st : st[i] = Opened(g) \/ st[i] = Clear(g) \/ st[i] = Adds(g, T)
  BY <1>1
<1>. HIDE DEF st
<1>3. \A i \in DOMAIN st : \A c \in st[i] : Change(c) /\ c.g = g
  BY <1>1, <1>2
<1>. QED
  BY <1>2, <1>3 DEF st

LEMMA PostCalls ==
    ASSUME NEW g \in GraphRef, NEW T \in SUBSET Triple
    PROVE  LET st == <<Opened(g), Adds(g, T)>>
           IN  /\ st \in Seq(SUBSET AnyCall)
               /\ \A i \in DOMAIN st : \A c \in st[i] : Change(c) /\ c.g = g
<1>. DEFINE st == <<Opened(g), Adds(g, T)>>
<1>1. /\ Opened(g) \in SUBSET AnyCall /\ \A c \in Opened(g) : Change(c) /\ c.g = g
      /\ Adds(g, T) \in SUBSET AnyCall /\ \A c \in Adds(g, T) : Change(c) /\ c.g = g
  BY CallsAre, Zenon
<1>2. /\ st \in Seq(SUBSET AnyCall)
      /\ \A i \in DOMAIN st : st[i] = Opened(g) \/ st[i] = Adds(g, T)
  BY <1>1
<1>. HIDE DEF st
<1>3. \A i \in DOMAIN st : \A c \in st[i] : Change(c) /\ c.g = g
  BY <1>1, <1>2
<1>. QED
  BY <1>2, <1>3 DEF st

LEMMA DeleteCalls ==
    ASSUME NEW g \in GraphRef, NEW st \in {<<Clear(g)>>, <<Drop(g)>>, <<>>}, NEW E
    PROVE  /\ st \in Seq(SUBSET AnyCall) /\ Covered(st, E)
           /\ \A i \in DOMAIN st : \A c \in st[i] : Change(c) /\ c.g = g
<1>1. /\ Clear(g) \in SUBSET AnyCall
      /\ \A c \in Clear(g) : Change(c) /\ c.g = g /\ c.do = "remove"
      /\ Drop(g) \in SUBSET AnyCall
      /\ \A c \in Drop(g) : Change(c) /\ c.g = g /\ c.do = "drop"
  <2>1. {} \in SUBSET Triple
    OBVIOUS
  <2>. QED
    BY <2>1, CallsAre, Zenon
<1>2. /\ st \in Seq(SUBSET AnyCall)
      /\ \A i \in DOMAIN st : st[i] = Clear(g) \/ st[i] = Drop(g)
  <2>1. CASE st = <<Clear(g)>>
    BY <1>1, <2>1
  <2>2. CASE st = <<Drop(g)>>
    BY <1>1, <2>2
  <2>3. CASE st = <<>>
    BY <2>3
  <2>. QED
    BY <2>1, <2>2, <2>3
<1>3. \A i \in DOMAIN st : \A c \in st[i] : Change(c) /\ c.g = g /\ c.do # "add"
  BY <1>1, <1>2
<1>. QED
  BY <1>2, <1>3 DEF Covered

LEMMA ScriptCovered ==
    ASSUME NEW st, ScriptOK(st), NEW E
    PROVE  st \in Seq(SUBSET AnyCall) /\ Covered(st, E)
<1>1. [do : {"ensure", "add", "remove", "drop"}, g : GraphRef, triples : SUBSET Triple]
          \subseteq AnyCall
  BY DEF AnyCall
<1>2. st \in Seq(SUBSET AnyCall)
  <2>. DEFINE C == [do : {"ensure", "add", "remove", "drop"}, g : GraphRef, triples : SUBSET Triple]
  <2>1. SUBSET C \subseteq SUBSET AnyCall /\ st \in Seq(SUBSET C)
    BY <1>1 DEF ScriptOK
  <2>. HIDE DEF C
  <2>. QED
    BY <2>1, SeqMonotonic
<1>. QED
  BY <1>2 DEF ScriptOK, Covered
=============================================================================
