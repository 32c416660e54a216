------------------------- MODULE SPARQLStoreProofs --------------------------
(***************************************************************************)
(* The SPARQL store for any callers, calls, graphs and terms: success      *)
(* means all of it, a late or lost request is still one the interface      *)
(* allows, Set leaves one value, and reads look where writes went.         *)
(***************************************************************************)
EXTENDS SPARQLStore, FiniteSetTheorems, TLAPS

\* What goes over the wire: an insertion, a deletion or a replacement.
IsRequest(req) ==
    \/ req.del = {} /\ req.ins \subseteq Quad /\ IsFiniteSet(req.ins)
    \/ \E g \in GraphRef, pat \in Pattern : req = DeleteWhere(g, pat)
    \/ \E g \in GraphRef, t \in Triple : req = SetRequest(g, t)

WriteCalls == {x \in Calls : x[1] \in Writes}

RemoteStored == remote \subseteq Quad /\ IsFiniteSet(remote)

\* A call in progress has sent, has in hand or has left each of its requests.
InProgress(rec) ==
    /\ rec = [state |-> rec.state, x |-> rec.x, req |-> rec.req, todo |-> rec.todo, done |-> rec.done]
    /\ rec.x \in WriteCalls
    /\ rec.req \in Requests(rec.x)
    /\ rec.todo \subseteq Requests(rec.x)
    /\ rec.done \cup {rec.req} \cup rec.todo = Requests(rec.x)

CallsKnown ==
    /\ call = [c \in Callers |-> call[c]]
    /\ \A c \in Callers :
          /\ call[c].state \in {"idle", "sent", "answered", "ok", "failed"}
          /\ call[c].state \in {"sent", "answered"} => InProgress(call[c])
          /\ call[c].state = "ok" => call[c].done = Requests(call[c].x)

LateKnown == \A req \in late : IsRequest(req)

RemoteInv == RemoteStored /\ CallsKnown /\ LateKnown
-----------------------------------------------------------------------------
LEMMA WrapIsGraph == \A g \in GraphRef : wrapGraph(g) \in GraphRef
BY DEF wrapGraph, GraphRef

LEMMA SamePairMatches == \A t \in Triple : SamePair(t) \in Pattern /\ Matches(t, SamePair(t))
BY DEF SamePair, Pattern, Triple, Matches

\* Inserting finitely many triples is an insertion.
LEMMA InsertIsRequest ==
    ASSUME NEW g \in GraphRef, NEW ts, ts \subseteq Triple, IsFiniteSet(ts)
    PROVE  /\ Insert(g, ts).del = {} /\ Insert(g, ts).ins \subseteq Quad
           /\ IsFiniteSet(Insert(g, ts).ins)
<1>. DEFINE ins == {<<wrapGraph(g), t>> : t \in ts}
            f == [t \in ts |-> <<wrapGraph(g), t>>]
<1>1. ins \subseteq Quad
  BY WrapIsGraph DEF Quad
<1>2. f \in Surjection(ts, ins)
  BY DEF Surjection
<1>3. IsFiniteSet(ins)
  BY <1>2, FS_Surjection
<1>. QED
  BY <1>1, <1>3 DEF Insert

\* Every group of an AddN is an insertion into one graph.
LEMMA GroupsAreRequests ==
    ASSUME NEW s \in Seq(GraphRef \X Triple), NEW req \in Groups({s[i] : i \in DOMAIN s})
    PROVE  IsRequest(req)
<1>. DEFINE qs == {s[i] : i \in DOMAIN s}
<1>1. PICK g \in {q[1] : q \in qs} : req = Insert(g, {q[2] : q \in {q \in qs : q[1] = g}})
  BY DEF Groups
<1>2. qs \subseteq GraphRef \X Triple
  OBVIOUS
<1>3. IsFiniteSet(qs)
  <2>. DEFINE f == [i \in 1..Len(s) |-> s[i]]
  <2>1. f \in Surjection(1..Len(s), qs)
    BY DEF Surjection
  <2>2. IsFiniteSet(1..Len(s))
    BY FS_Interval
  <2>. QED
    BY <2>1, <2>2, FS_Surjection
<1>. DEFINE own == {q \in qs : q[1] = g}
            ts == {q[2] : q \in own}
<1>4. IsFiniteSet(own)
  BY <1>3, FS_Subset
<1>5. IsFiniteSet(ts)
  <2>. DEFINE f == [q \in own |-> q[2]]
  <2>1. f \in Surjection(own, ts)
    BY DEF Surjection
  <2>. QED
    BY <1>4, <2>1, FS_Surjection
<1>6. g \in GraphRef /\ ts \subseteq Triple
  BY <1>2
<1>7. req = Insert(g, ts)
  BY <1>1
<1>. HIDE DEF ts, own, qs
<1>. QED
  BY <1>5, <1>6, <1>7, InsertIsRequest DEF IsRequest

LEMMA RequestsAreRequests ==
    ASSUME CallsGiven, NEW x \in WriteCalls, NEW req \in Requests(x)
    PROVE  IsRequest(req)
<1>1. CASE x[1] = "add"
  <2>1. req = Insert(x[2], {x[3]}) /\ x[2] \in GraphRef /\ {x[3]} \subseteq Triple
    BY <1>1 DEF Requests, CallsGiven, WriteCalls, Writes
  <2>. QED
    BY <2>1, FS_Singleton, InsertIsRequest DEF IsRequest
<1>2. CASE x[1] = "set"
  <2>1. req = SetRequest(x[2], x[3]) /\ x[2] \in GraphRef /\ x[3] \in Triple
    BY <1>2 DEF Requests, CallsGiven, WriteCalls, Writes
  <2>. QED
    BY <2>1 DEF IsRequest
<1>3. CASE x[1] = "remove"
  <2>1. req = DeleteWhere(x[2], x[3]) /\ x[2] \in GraphRef /\ x[3] \in Pattern
    BY <1>3 DEF Requests, CallsGiven, WriteCalls, Writes
  <2>. QED
    BY <2>1 DEF IsRequest
<1>4. CASE x[1] = "addn"
  <2>1. req \in Groups({x[2][i] : i \in DOMAIN x[2]}) /\ x[2] \in Seq(GraphRef \X Triple)
    BY <1>4 DEF Requests, CallsGiven, WriteCalls, Writes
  <2>. QED
    BY <2>1, GroupsAreRequests
<1>. QED
  BY <1>1, <1>2, <1>3, <1>4 DEF WriteCalls, Writes

\* What the endpoint names anew is still a set of quads.
LEMMA RelabelledStays ==
    ASSUME CallsGiven, NEW ins, ins \subseteq Quad, IsFiniteSet(ins),
           NEW f, DOMAIN f \subseteq BlankNodes, \A n \in DOMAIN f : f[n] \in BlankNodes
    PROVE  LET new == {<<q[1], Relabelled(q[2], f)>> : q \in ins}
           IN  new \subseteq Quad /\ IsFiniteSet(new)
<1>. DEFINE new == {<<q[1], Relabelled(q[2], f)>> : q \in ins}
            h == [q \in ins |-> <<q[1], Relabelled(q[2], f)>>]
<1>1. ASSUME NEW t \in Triple PROVE Relabelled(t, f) \in Triple
  <2>1. Named(t[1], f) \in Subject /\ Named(t[3], f) \in Object
    BY DEF Named, Triple, CallsGiven
  <2>. QED
    BY <2>1 DEF Relabelled, Triple
<1>2. new \subseteq Quad
  BY <1>1 DEF Quad
<1>3. h \in Surjection(ins, new)
  BY DEF Surjection
<1>4. IsFiniteSet(new)
  BY <1>3, FS_Surjection
<1>. QED
  BY <1>2, <1>4

LEMMA FreshAreNodes ==
    ASSUME NEW req, NEW qs, NEW f \in FreshNodes(req, qs)
    PROVE  /\ DOMAIN f = NodesOf(req.ins)
           /\ DOMAIN f \subseteq BlankNodes /\ \A n \in DOMAIN f : f[n] \in BlankNodes
BY DEF FreshNodes, NodesOf

\* Applying a request leaves finitely many quads.
LEMMA AppliedStays ==
    ASSUME CallsGiven, NEW req, IsRequest(req), NEW qs, qs \subseteq Quad, IsFiniteSet(qs),
           NEW f \in FreshNodes(req, qs)
    PROVE  Applied(req, qs, f) \subseteq Quad /\ IsFiniteSet(Applied(req, qs, f))
<1>1. req.ins \subseteq Quad /\ IsFiniteSet(req.ins)
  <2>1. CASE req.del = {} /\ req.ins \subseteq Quad /\ IsFiniteSet(req.ins)
    BY <2>1
  <2>2. CASE \E g \in GraphRef, pat \in Pattern : req = DeleteWhere(g, pat)
    BY <2>2, FS_EmptySet DEF DeleteWhere
  <2>3. ASSUME NEW g \in GraphRef, NEW t \in Triple, req = SetRequest(g, t)
        PROVE  req.ins \subseteq Quad /\ IsFiniteSet(req.ins)
    <3>1. req.ins = Insert(g, {t}).ins
      BY <2>3 DEF SetRequest
    <3>2. IsFiniteSet({t}) /\ {t} \subseteq Triple
      BY FS_Singleton
    <3>. QED
      BY <3>1, <3>2, InsertIsRequest
  <2>. QED
    BY <2>1, <2>2, <2>3 DEF IsRequest
<1>. DEFINE new == {<<q[1], Relabelled(q[2], f)>> : q \in req.ins}
<1>2. new \subseteq Quad /\ IsFiniteSet(new)
  BY <1>1, FreshAreNodes, RelabelledStays
<1>3. IsFiniteSet(qs \ req.del)
  BY FS_Subset
<1>4. IsFiniteSet((qs \ req.del) \cup new)
  <2>. HIDE DEF new
  <2>. QED
    BY <1>2, <1>3, FS_Union
<1>. QED
  BY <1>2, <1>4 DEF Applied
-----------------------------------------------------------------------------
LEMMA RemoteInitially == Init => RemoteInv
<1>. SUFFICES ASSUME Init PROVE RemoteInv
  OBVIOUS
<1>1. \A c \in Callers : call[c].state = "idle"
  BY DEF Init, Idle
<1>. QED
  BY <1>1, FS_EmptySet DEF Init, RemoteInv, RemoteStored, CallsKnown, LateKnown

\* Only the call of the caller that moves changes.
LEMMA CallerMoves ==
    ASSUME RemoteInv, NEW c \in Callers, NEW rec, call' = [call EXCEPT ![c] = rec],
           rec.state \in {"idle", "sent", "answered", "ok", "failed"},
           rec.state \in {"sent", "answered"} => InProgress(rec),
           rec.state = "ok" => rec.done = Requests(rec.x)
    PROVE  CallsKnown'
<1>1. DOMAIN call = Callers
  BY DEF RemoteInv, CallsKnown
<1>2. call'[c] = rec /\ \A d \in Callers \ {c} : call'[d] = call[d]
  BY <1>1
<1>3. call' = [d \in Callers |-> call'[d]]
  BY <1>1
<1>4. \A d \in Callers :
         /\ call'[d].state \in {"idle", "sent", "answered", "ok", "failed"}
         /\ call'[d].state \in {"sent", "answered"} => InProgress(call'[d])
         /\ call'[d].state = "ok" => call'[d].done = Requests(call'[d].x)
  BY <1>2 DEF RemoteInv, CallsKnown
<1>. QED
  BY <1>3, <1>4 DEF CallsKnown, InProgress

LEMMA WriteStep == ASSUME CallsGiven, RemoteInv, NEW c \in Callers, NEW x \in Calls, Write(c, x)
                   PROVE  RemoteInv'
<1>1. PICK req \in Requests(x) :
         call' = [call EXCEPT ![c] = [state |-> "sent", x |-> x, req |-> req,
                                      todo |-> Requests(x) \ {req}, done |-> {}]]
  BY DEF Write
<1>. DEFINE rec == [state |-> "sent", x |-> x, req |-> req, todo |-> Requests(x) \ {req}, done |-> {}]
<1>2. rec.state = "sent" /\ InProgress(rec)
  BY DEF Write, InProgress, WriteCalls
<1>3. CallsKnown'
  <2>1. call' = [call EXCEPT ![c] = rec]
    BY <1>1
  <2>. HIDE DEF rec
  <2>. QED
    BY <1>2, <2>1, CallerMoves
<1>. QED
  BY <1>3 DEF Write, RemoteInv, RemoteStored, LateKnown

LEMMA UnsentStep == ASSUME CallsGiven, RemoteInv, NEW c \in Callers, NEW x \in Calls, Unsent(c, x)
                    PROVE  RemoteInv'
<1>. DEFINE failed == [state |-> "failed", x |-> x, done |-> {}]
            ok == [state |-> "ok", x |-> x, done |-> {}]
<1>1. CASE call' = [call EXCEPT ![c] = failed]
  <2>1. failed.state = "failed"
    OBVIOUS
  <2>. HIDE DEF failed
  <2>2. CallsKnown'
    BY <1>1, <2>1, CallerMoves
  <2>. QED
    BY <2>2 DEF Unsent, RemoteInv, RemoteStored, LateKnown
<1>2. CASE Requests(x) = {} /\ call' = [call EXCEPT ![c] = ok]
  <2>1. ok.state = "ok" /\ ok.done = Requests(ok.x)
    BY <1>2
  <2>. HIDE DEF ok
  <2>2. CallsKnown'
    BY <1>2, <2>1, CallerMoves
  <2>. QED
    BY <2>2 DEF Unsent, RemoteInv, RemoteStored, LateKnown
<1>. QED
  BY <1>1, <1>2 DEF Unsent

LEMMA ApplyStays == ASSUME CallsGiven, RemoteInv, NEW req, IsRequest(req), Apply(req)
                    PROVE  RemoteStored'
<1>1. PICK f \in FreshNodes(req, remote) : remote' = Applied(req, remote, f)
  BY DEF Apply
<1>. QED
  BY <1>1, AppliedStays DEF RemoteInv, RemoteStored

LEMMA ServeStep == ASSUME CallsGiven, RemoteInv, NEW c \in Callers, Serve(c)
                   PROVE  RemoteInv'
<1>1. InProgress(call[c])
  BY DEF Serve, RemoteInv, CallsKnown
<1>2. IsRequest(call[c].req)
  BY <1>1, RequestsAreRequests DEF InProgress
<1>3. RemoteStored'
  BY <1>2, ApplyStays DEF Serve
<1>. DEFINE rec == [state |-> "answered", x |-> call[c].x, req |-> call[c].req,
                    todo |-> call[c].todo, done |-> call[c].done]
<1>4. CallsKnown'
  <2>1. [call[c] EXCEPT !.state = "answered"] = rec
    BY <1>1 DEF InProgress
  <2>2. call' = [call EXCEPT ![c] = rec]
    BY <2>1 DEF Serve
  <2>3. rec.state = "answered" /\ InProgress(rec)
    BY <1>1 DEF InProgress
  <2>. HIDE DEF rec
  <2>. QED
    BY <2>2, <2>3, CallerMoves
<1>. QED
  BY <1>3, <1>4 DEF Serve, RemoteInv, LateKnown

LEMMA AnswerStep == ASSUME CallsGiven, RemoteInv, NEW c \in Callers, Answer(c)
                    PROVE  RemoteInv'
<1>1. InProgress(call[c])
  BY DEF Answer, RemoteInv, CallsKnown
<1>. DEFINE done == call[c].done \cup {call[c].req}
<1>2. CASE call[c].todo = {}
  <2>. DEFINE rec == [state |-> "ok", x |-> call[c].x, done |-> done]
  <2>1. call' = [call EXCEPT ![c] = rec]
    BY <1>2 DEF Answer
  <2>2. rec.state = "ok" /\ rec.done = Requests(rec.x)
    BY <1>1, <1>2 DEF InProgress
  <2>3. CallsKnown'
    <3>. HIDE DEF rec
    <3>. QED
      BY <2>1, <2>2, CallerMoves
  <2>. QED
    BY <2>3 DEF Answer, RemoteInv, RemoteStored, LateKnown
<1>3. CASE call[c].todo # {}
  <2>1. PICK req \in call[c].todo :
           call' = [call EXCEPT ![c] = [state |-> "sent", x |-> call[c].x, req |-> req,
                                        todo |-> call[c].todo \ {req}, done |-> done]]
    BY <1>3 DEF Answer
  <2>. DEFINE rec == [state |-> "sent", x |-> call[c].x, req |-> req,
                      todo |-> call[c].todo \ {req}, done |-> done]
  <2>2. CallsKnown'
    <3>1. call' = [call EXCEPT ![c] = rec]
      BY <2>1
    <3>2. rec.state = "sent" /\ InProgress(rec)
      BY <1>1 DEF InProgress
    <3>. HIDE DEF rec
    <3>. QED
      BY <3>1, <3>2, CallerMoves
  <2>. QED
    BY <2>2 DEF Answer, RemoteInv, RemoteStored, LateKnown
<1>. QED
  BY <1>2, <1>3

LEMMA FailStep == ASSUME CallsGiven, RemoteInv, NEW c \in Callers, Fail(c)
                  PROVE  CallsKnown'
<1>. DEFINE rec == [state |-> "failed", x |-> call[c].x, done |-> call[c].done]
<1>1. call' = [call EXCEPT ![c] = rec] /\ rec.state = "failed"
  BY DEF Fail, RemoteInv, CallsKnown
<1>. HIDE DEF rec
<1>. QED
  BY <1>1, CallerMoves

LEMMA GiveUpStep == ASSUME CallsGiven, RemoteInv, NEW c \in Callers, GiveUp(c)
                    PROVE  RemoteInv'
<1>1. CallsKnown'
  BY FailStep DEF GiveUp
<1>2. IsRequest(call[c].req)
  BY RequestsAreRequests DEF GiveUp, RemoteInv, CallsKnown, InProgress
<1>3. LateKnown'
  <2>1. \A req \in late' : IsRequest(req)
    BY <1>2 DEF GiveUp, RemoteInv, LateKnown
  <2>. QED
    BY <2>1 DEF LateKnown
<1>. QED
  BY <1>1, <1>3 DEF GiveUp, RemoteInv, RemoteStored

LEMMA ServeLateStep == ASSUME CallsGiven, RemoteInv, ServeLate PROVE RemoteInv'
<1>1. PICK req \in late : Apply(req) /\ late' = late \ {req}
  BY DEF ServeLate
<1>2. RemoteStored'
  BY <1>1, ApplyStays DEF RemoteInv, LateKnown
<1>3. LateKnown'
  BY <1>1 DEF RemoteInv, LateKnown
<1>. QED
  BY <1>2, <1>3 DEF ServeLate, RemoteInv, CallsKnown

LEMMA ReturnStep == ASSUME CallsGiven, RemoteInv, NEW c \in Callers, Return(c)
                    PROVE  RemoteInv'
<1>1. Idle.state = "idle"
  BY DEF Idle
<1>2. CallsKnown'
  BY <1>1, CallerMoves DEF Return
<1>. QED
  BY <1>2 DEF Return, RemoteInv, RemoteStored, LateKnown

LEMMA RemoteInductive == CallsGiven /\ RemoteInv /\ [Next]_vars => RemoteInv'
<1>. SUFFICES ASSUME CallsGiven, RemoteInv, [Next]_vars PROVE RemoteInv'
  OBVIOUS
<1>1. ASSUME NEW c \in Callers, Refuse(c) \/ LoseAnswer(c) PROVE RemoteInv'
  BY <1>1, FailStep DEF Refuse, LoseAnswer, RemoteInv, RemoteStored, LateKnown
<1>2. ASSUME NEW c \in Callers, NEW x \in Calls, Bind(c, x) PROVE RemoteInv'
  BY <1>2 DEF Bind, RemoteInv, RemoteStored, CallsKnown, LateKnown
<1>3. CASE UNCHANGED vars
  BY <1>3 DEF vars, RemoteInv, RemoteStored, CallsKnown, LateKnown
<1>4. CASE Next
  BY <1>1, <1>2, <1>4, WriteStep, UnsentStep, ServeStep, AnswerStep, GiveUpStep, ReturnStep, ServeLateStep DEF Next
<1>. QED
  BY <1>3, <1>4

LEMMA RemoteInvariant == ASSUME CallsGiven PROVE Spec => []RemoteInv
BY RemoteInitially, RemoteInductive, PTL DEF Spec
-----------------------------------------------------------------------------
(***************************************************************************)
(* A write that returns nil had every one of its requests answered, one    *)
(* for each graph of an AddN, whatever was lost, refused or given up by    *)
(* the others. (sparqlstore/store.go:104-163)                              *)
(***************************************************************************)
THEOREM SuccessIsWhole == ASSUME CallsGiven PROVE Spec => [](TypeOK /\ OkIsWhole)
<1>1. RemoteInv => TypeOK /\ OkIsWhole
  BY DEF RemoteInv, RemoteStored, CallsKnown, TypeOK, OkIsWhole
<1>. QED
  BY <1>1, RemoteInvariant, PTL

\* The contract's terms are the store's.
LEMMA SameTerms ==
    /\ Contract!Triple = Triple /\ Contract!GraphRef = GraphRef
    /\ Contract!Pattern = Pattern /\ Contract!Quad = Quad
    /\ \A t : Contract!SamePair(t) = SamePair(t)
    /\ \A t, pat : Contract!Matches(t, pat) = Matches(t, pat)
BY DEF Contract!Triple, Contract!GraphRef, Contract!Pattern, Contract!Quad, Contract!SamePair,
       Contract!Matches, Triple, GraphRef, Pattern, Quad, SamePair, Matches

\* What a pattern deletes is what it matches in the graph it is sent for.
LEMMA DeletesHits ==
    ASSUME RemoteInv, NEW g \in GraphRef, NEW pat
    PROVE  remote \ DeleteWhere(g, pat).del = remote \ Contract!Hit(pat, wrapGraph(g))
<1>1. \A q \in remote : q = <<q[1], q[2]>> /\ q[2] \in Triple
  BY DEF RemoteInv, RemoteStored, Quad
<1>2. DeleteWhere(g, pat).del = {<<wrapGraph(g), u>> : u \in {u \in Triple : Matches(u, pat)}}
  BY DEF DeleteWhere
<1>3. \A q \in remote : q \in DeleteWhere(g, pat).del <=> q[1] = wrapGraph(g) /\ Matches(q[2], pat)
  BY <1>1, <1>2
<1>4. \A q \in remote : q \in Contract!Hit(pat, wrapGraph(g)) <=> q[1] = wrapGraph(g) /\ Matches(q[2], pat)
  BY SameTerms DEF Contract!Hit
<1>. QED
  BY <1>3, <1>4

\* A Set that is SPARQL writes its own subject and predicate; only a blank
\* node at its end is named anew.
LEMMA SetApplied ==
    ASSUME CallsGiven, RemoteInv, NEW g \in GraphRef, NEW t \in Triple, Apply(SetRequest(g, t))
    PROVE  \E o \in Object :
              /\ remote' = (remote \ Contract!Hit(SamePair(t), wrapGraph(g)))
                              \cup {<<wrapGraph(g), <<t[1], t[2], o>>>>}
              /\ o \in BlankNodes \cup {t[3]}
              /\ o \in BlankNodes <=> t[3] \in BlankNodes
<1>. DEFINE req == SetRequest(g, t)
            h == wrapGraph(g)
<1>1. req.ins = {<<h, t>>} /\ req.del = DeleteWhere(g, SamePair(t)).del
  BY DEF SetRequest, Insert
<1>2. req.legal <=> \A i \in 1..3 : SamePair(t)[i] \notin BlankNodes
  BY DEF SetRequest, DeleteWhere
<1>3. SamePair(t)[1] = t[1]
  BY DEF SamePair
<1>4. t[1] \notin BlankNodes
  BY <1>2, <1>3 DEF Apply
<1>. HIDE DEF req
<1>5. PICK f \in FreshNodes(req, remote) : remote' = Applied(req, remote, f)
  BY DEF Apply, req
<1>6. DOMAIN f = NodesOf({<<h, t>>}) /\ DOMAIN f \subseteq BlankNodes
      /\ \A n \in DOMAIN f : f[n] \in BlankNodes
  BY <1>1, FreshAreNodes
<1>7. NodesOf({<<h, t>>}) = {t[1], t[3]} \cap BlankNodes
  BY DEF NodesOf
<1>. DEFINE o == Named(t[3], f)
<1>8. Relabelled(t, f) = <<t[1], t[2], o>>
  BY <1>4, <1>6 DEF Relabelled, Named
<1>9. /\ o \in BlankNodes \cup {t[3]}
      /\ o \in BlankNodes <=> t[3] \in BlankNodes
  BY <1>6, <1>7 DEF Named
<1>10. o \in Object
  BY <1>9 DEF CallsGiven, Triple
<1>11. {<<q[1], Relabelled(q[2], f)>> : q \in req.ins} = {<<h, <<t[1], t[2], o>>>>}
  BY <1>1, <1>8
<1>12. remote' = (remote \ req.del) \cup {<<h, <<t[1], t[2], o>>>>}
  BY <1>5, <1>11 DEF Applied
<1>13. remote \ req.del = remote \ Contract!Hit(SamePair(t), h)
  BY <1>1, DeletesHits
<1>. HIDE DEF o, h
<1>. QED
  BY <1>9, <1>10, <1>12, <1>13 DEF h

\* Applying a request is a step of a store: an AddN, a Remove or a Set.
LEMMA AppliedKeepsContract ==
    ASSUME CallsGiven, RemoteInv, NEW req, IsRequest(req), Apply(req)
    PROVE  Contract!Next
<1>. PICK f \in FreshNodes(req, remote) : remote' = Applied(req, remote, f)
  BY DEF Apply
<1>0. remote' \subseteq Quad
  BY ApplyStays DEF RemoteStored
<1>1. CASE req.del = {} /\ req.ins \subseteq Quad /\ IsFiniteSet(req.ins)
  <2>1. remote' = remote \cup (remote' \ remote)
    BY <1>1 DEF Applied
  <2>. QED
    BY <1>0, <2>1, SameTerms DEF Contract!Next, Contract!AddN
<1>2. ASSUME NEW g \in GraphRef, NEW pat \in Pattern, req = DeleteWhere(g, pat)
      PROVE  Contract!Next
  <2>1. req.ins = {}
    BY <1>2 DEF DeleteWhere
  <2>2. remote' = remote \ req.del
    BY <2>1 DEF Applied
  <2>3. Contract!Remove(pat, wrapGraph(g))
    BY <1>2, <2>2, DeletesHits DEF Contract!Remove
  <2>. QED
    BY <2>3, WrapIsGraph, SameTerms DEF Contract!Next
<1>3. ASSUME NEW g \in GraphRef, NEW t \in Triple, req = SetRequest(g, t)
      PROVE  Contract!Next
  <2>1. PICK o \in Object :
           remote' = (remote \ Contract!Hit(SamePair(t), wrapGraph(g)))
                        \cup {<<wrapGraph(g), <<t[1], t[2], o>>>>}
    BY <1>3, SetApplied
  <2>. DEFINE u == <<t[1], t[2], o>>
  <2>2. u \in Triple /\ SamePair(u) = SamePair(t)
    BY DEF Triple, SamePair
  <2>. HIDE DEF u
  <2>3. Contract!Set(u, wrapGraph(g))
    BY <2>1, <2>2, SameTerms DEF Contract!Set, u
  <2>. QED
    BY <2>2, <2>3, WrapIsGraph, SameTerms DEF Contract!Next
<1>. QED
  BY <1>1, <1>2, <1>3 DEF IsRequest

LEMMA StepKeepsContract == CallsGiven /\ RemoteInv /\ [Next]_vars => [Contract!Next]_remote
<1>. SUFFICES ASSUME CallsGiven, RemoteInv, [Next]_vars, remote' # remote PROVE Contract!Next
  OBVIOUS
<1>1. ASSUME NEW c \in Callers, Serve(c) PROVE Contract!Next
  <2>1. IsRequest(call[c].req)
    BY <1>1, RequestsAreRequests DEF Serve, RemoteInv, CallsKnown, InProgress
  <2>. QED
    BY <1>1, <2>1, AppliedKeepsContract DEF Serve
<1>2. CASE ServeLate
  BY <1>2, AppliedKeepsContract DEF ServeLate, RemoteInv, LateKnown
<1>. QED
  BY <1>1, <1>2 DEF Next, vars, Write, Unsent, Bind, Answer, Refuse, LoseAnswer, GiveUp, Return

(***************************************************************************)
(* The endpoint's data changes as the Store interface says, one request at *)
(* a time: also a request the client gave up on is, when it is applied at  *)
(* last, a whole Add, Remove or Set. (sparqlstore/store.go:104-163)        *)
(***************************************************************************)
THEOREM RemoteIsStore == ASSUME CallsGiven PROVE Spec => Contract!Spec
<1>1. Init => Contract!Init
  BY DEF Init, Contract!Init
<1>. QED
  BY <1>1, RemoteInvariant, StepKeepsContract, PTL DEF Spec, Contract!Spec

LEMMA ServedSetReplaces == CallsGiven /\ RemoteInv => SetStep
<1>. SUFFICES ASSUME CallsGiven, RemoteInv, NEW c \in Callers, Serve(c), call[c].x[1] = "set"
              PROVE  LET g == wrapGraph(call[c].x[2])  t == call[c].x[3]
                         Pair(h) == {q \in remote' : q[1] = h /\ Matches(q[2], SamePair(t))}
                     IN  /\ \E o \in BlankNodes \cup {t[3]} :
                               /\ Pair(g) = {<<g, <<t[1], t[2], o>>>>}
                               /\ o \in BlankNodes <=> t[3] \in BlankNodes
                         /\ \A q \in Quad : q[1] # g => (q \in remote <=> q \in remote')
  BY DEF SetStep
<1>. DEFINE g == wrapGraph(call[c].x[2])
            t == call[c].x[3]
<1>1. call[c].x \in WriteCalls /\ call[c].req \in Requests(call[c].x)
  BY DEF Serve, RemoteInv, CallsKnown, InProgress
<1>2. call[c].x[2] \in GraphRef /\ t \in Triple
  BY <1>1 DEF CallsGiven, WriteCalls
<1>3. call[c].req = SetRequest(call[c].x[2], t)
  BY <1>1 DEF Requests
<1>4. PICK o \in Object :
         /\ remote' = (remote \ Contract!Hit(SamePair(t), g)) \cup {<<g, <<t[1], t[2], o>>>>}
         /\ o \in BlankNodes \cup {t[3]}
         /\ o \in BlankNodes <=> t[3] \in BlankNodes
  BY <1>2, <1>3, SetApplied DEF Serve
<1>5. Contract!Hit(SamePair(t), g) = {q \in remote : q[1] = g /\ Matches(q[2], SamePair(t))}
  BY SameTerms DEF Contract!Hit
<1>. DEFINE u == <<t[1], t[2], o>>
<1>6. Matches(u, SamePair(t))
  BY DEF Matches, SamePair
<1>. HIDE DEF g, t, u
<1>7. {q \in remote' : q[1] = g /\ Matches(q[2], SamePair(t))} = {<<g, u>>}
  BY <1>4, <1>5, <1>6 DEF u
<1>8. \A q \in Quad : q[1] # g => (q \in remote <=> q \in remote')
  BY <1>4, <1>5
<1>. QED
  BY <1>4, <1>7, <1>8 DEF g, t, u

(***************************************************************************)
(* When the endpoint serves a Set, the graph the call was for has the new  *)
(* triple alone under its subject and predicate, and no other graph        *)
(* changed. (sparqlstore/store.go:150-163)                                 *)
(***************************************************************************)
THEOREM SetReplaces == ASSUME CallsGiven PROVE Spec => [][SetStep]_vars
BY RemoteInvariant, ServedSetReplaces, PTL DEF Spec

LEMMA BoundPairs == BindStep
<1>. SUFFICES ASSUME NEW c \in Callers, NEW x \in Calls, Bind(c, x)
              PROVE  /\ Namespace(x[2])' = {x[3]} /\ Prefix(x[3])' = {x[2]}
                     /\ \A e \in prefix : e[1] # x[2] => Namespace(e[1])' = Namespace(e[1])
                     /\ \A e \in uri : e[1] # x[3] => Prefix(e[1])' = Prefix(e[1])
  BY DEF BindStep
<1>1. prefix' = Put(prefix, x[2], x[3]) /\ uri' = Put(uri, x[3], x[2])
  BY DEF Bind
<1>2. ASSUME NEW m, NEW k, NEW v
      PROVE  \A e : e \in Put(m, k, v) <=> (e \in m /\ e[1] # k) \/ e = <<k, v>>
  BY DEF Put
<1>3. /\ \A e : e \in prefix' <=> (e \in prefix /\ e[1] # x[2]) \/ e = <<x[2], x[3]>>
      /\ \A e : e \in uri' <=> (e \in uri /\ e[1] # x[3]) \/ e = <<x[3], x[2]>>
  BY <1>1, <1>2, Zenon
<1>4. {e \in prefix' : e[1] = x[2]} = {<<x[2], x[3]>>} /\ {e \in uri' : e[1] = x[3]} = {<<x[3], x[2]>>}
  BY <1>3
<1>5. ASSUME NEW j, j # x[2] PROVE {e \in prefix' : e[1] = j} = {e \in prefix : e[1] = j}
  BY <1>3, <1>5
<1>6. ASSUME NEW j, j # x[3] PROVE {e \in uri' : e[1] = j} = {e \in uri : e[1] = j}
  BY <1>3, <1>6
<1>7. Namespace(x[2])' = {x[3]} /\ Prefix(x[3])' = {x[2]}
  <2>1. /\ Namespace(x[2])' = {e[2] : e \in {<<x[2], x[3]>>}}
        /\ Prefix(x[3])' = {e[2] : e \in {<<x[3], x[2]>>}}
    BY <1>4, Zenon DEF Namespace, Prefix
  <2>2. \A k, v : {e[2] : e \in {<<k, v>>}} = {v}
    OBVIOUS
  <2>. QED
    BY <2>1, <2>2
<1>8. ASSUME NEW j, j # x[2] PROVE Namespace(j)' = Namespace(j)
  BY <1>5, <1>8, Zenon DEF Namespace
<1>9. ASSUME NEW j, j # x[3] PROVE Prefix(j)' = Prefix(j)
  BY <1>6, <1>9, Zenon DEF Prefix
<1>. QED
  BY <1>7, <1>8, <1>9, Zenon

(***************************************************************************)
(* Bind makes the prefix and the namespace each other's answer, whatever   *)
(* either was bound to before. (sparqlstore/store.go:259-290)              *)
(***************************************************************************)
THEOREM RemoteBindPairs == Spec => [][BindStep]_vars
BY BoundPairs, PTL DEF Spec
-----------------------------------------------------------------------------
\* A row and the pattern give back the triple it came from.
LEMMA RowResolves ==
    ASSUME NEW t \in Triple, NEW pat, Matches(t, pat)
    PROVE  <<resolveVar(Row(t, pat), pat, 1), resolveVar(Row(t, pat), pat, 2),
             resolveVar(Row(t, pat), pat, 3)>> = t
<1>1. \A i \in 1..3 : resolveVar(Row(t, pat), pat, i) = t[i]
  BY DEF resolveVar, Row, Matches
<1>2. t = <<t[1], t[2], t[3]>>
  BY DEF Triple
<1>. QED
  BY <1>1, <1>2

\* A pattern without blank nodes is queried as it stands.
LEMMA GroundQuery ==
    ASSUME NEW pat, Ground(pat), NEW t
    PROVE  Matches(t, asQuery(pat)) <=> Matches(t, pat)
BY DEF Ground, asQuery, Matches

LEMMA TriplesRead ==
    ASSUME RemoteInv, NEW g, NEW pat, Ground(pat)
    PROVE  Triples(pat, g) = Contract!Triples(pat, wrapGraph(g))
<1>. DEFINE hit == {q \in remote : q[1] = wrapGraph(g) /\ Matches(q[2], pat)}
            back(r) == <<resolveVar(r, pat, 1), resolveVar(r, pat, 2), resolveVar(r, pat, 3)>>
<1>1. \A q \in hit : q = <<wrapGraph(g), q[2]>> /\ q[2] \in Triple
  BY DEF RemoteInv, RemoteStored, Quad
<1>2. \A q \in hit : back(Row(q[2], pat)) = q[2]
  BY <1>1, RowResolves
<1>3. Triples(pat, g) = {back(Row(q[2], pat)) : q \in hit}
  <2>1. hit = {q \in remote : q[1] = wrapGraph(g) /\ Matches(q[2], asQuery(pat))}
    BY GroundQuery
  <2>2. Rows(pat, g) = {Row(q[2], pat) : q \in hit}
    BY <2>1 DEF Rows
  <2>. HIDE DEF hit
  <2>. QED
    BY <2>2 DEF Triples
<1>4. Triples(pat, g) = {q[2] : q \in hit}
  <2>. HIDE DEF back
  <2>. QED
    BY <1>2, <1>3
<1>5. {q[2] : q \in hit} = {t \in Triple : <<wrapGraph(g), t>> \in remote /\ Matches(t, pat)}
  BY <1>1
<1>. QED
  BY <1>4, <1>5, SameTerms DEF Contract!Triples, Contract!Contents

LEMMA LenRead ==
    ASSUME RemoteInv, NEW g
    PROVE  LenOf(g) = Contract!Len(wrapGraph(g))
<1>. DEFINE all == <<Any, Any, Any>>
            ts == Contract!Contents(wrapGraph(g))
            f == [t \in ts |-> Row(t, all)]
<1>1. \A t : Matches(t, all) /\ Matches(t, asQuery(all))
  BY DEF Matches, asQuery
<1>2. ts = {t \in Triple : <<wrapGraph(g), t>> \in remote}
  BY SameTerms DEF Contract!Contents
<1>3. \A q \in remote : q = <<q[1], q[2]>> /\ q[2] \in Triple
  BY DEF RemoteInv, RemoteStored, Quad
<1>4. {q[2] : q \in {q \in remote : q[1] = wrapGraph(g) /\ Matches(q[2], asQuery(all))}} = ts
  BY <1>1, <1>2, <1>3
<1>5. Rows(all, g) = {Row(t, all) : t \in ts}
  <2>. HIDE DEF all, ts
  <2>. QED
    BY <1>4 DEF Rows
<1>6. f \in Surjection(ts, Rows(all, g))
  BY <1>5 DEF Surjection
<1>7. f \in Injection(ts, Rows(all, g))
  <2>1. ASSUME NEW t \in ts, NEW u \in ts, Row(t, all) = Row(u, all) PROVE t = u
    BY <1>1, <1>2, <2>1, RowResolves
  <2>2. f \in [ts -> Rows(all, g)]
    BY <1>5
  <2>. HIDE DEF all, ts
  <2>. QED
    BY <2>1, <2>2 DEF Injection, IsInjective
<1>8. IsFiniteSet(ts)
  <2>. DEFINE own == {q \in remote : q[1] = wrapGraph(g) /\ Matches(q[2], asQuery(all))}
              h == [q \in own |-> q[2]]
  <2>1. IsFiniteSet(own)
    BY FS_Subset DEF RemoteInv, RemoteStored
  <2>2. h \in Surjection(own, ts)
    BY <1>4 DEF Surjection
  <2>. HIDE DEF own, h, ts
  <2>. QED
    BY <2>1, <2>2, FS_Surjection
<1>9. Cardinality(Rows(all, g)) = Cardinality(ts)
  <2>. HIDE DEF all, ts, f
  <2>. QED
    BY <1>6, <1>7, <1>8, FS_Surjection
<1>10. Contract!Cardinality(ts) = Cardinality(ts)
  BY Zenon DEF Contract!Cardinality, Cardinality, Contract!IsFiniteSet, IsFiniteSet
<1>. QED
  BY <1>9, <1>10 DEF LenOf, Contract!Len

LEMMA ContextsRead == RemoteInv => Contexts = Contract!Contexts
<1>. SUFFICES ASSUME RemoteInv PROVE Contexts = Contract!Contexts
  OBVIOUS
<1>1. \A q \in remote : q = <<q[1], q[2]>> /\ q[1] \in Graph \cup {Default} /\ q[2] \in Triple
  BY DEF RemoteInv, RemoteStored, Quad, GraphRef
<1>2. Contexts = {g \in Graph : \E t \in Triple : <<g, t>> \in remote}
  BY <1>1, DefaultIsNoName DEF Contexts
<1>. QED
  BY <1>2, SameTerms DEF Contract!Contexts, Contract!Contents

LEMMA ContextsWithRead ==
    ASSUME RemoteInv, NEW t \in Triple, Ground(t)
    PROVE  ContextsWith(t) = Contract!ContextsWith(t)
<1>1. \A q \in remote : q = <<q[1], q[2]>> /\ q[1] \in Graph \cup {Default} /\ q[2] \in Triple
  BY DEF RemoteInv, RemoteStored, Quad, GraphRef
<1>2. \A u \in Triple : Matches(u, asQuery(t)) <=> u = t
  <2>1. \A u \in Triple : Matches(u, t) <=> u = t
    BY AnyIsNoTerm DEF Matches, Triple
  <2>. QED
    BY <2>1, GroundQuery
<1>3. ContextsWith(t) = {g \in Graph : <<g, t>> \in remote}
  BY <1>1, <1>2, DefaultIsNoName DEF ContextsWith
<1>. QED
  BY <1>3, SameTerms DEF Contract!ContextsWith, Contract!Contents

(***************************************************************************)
(* The read methods find in a graph what writes to the same name put       *)
(* there, a blank node standing for the default graph on both sides, and   *)
(* rows with the bound positions filled in again are the triples, as long  *)
(* as the pattern names no blank node.                                     *)
(* (sparqlstore/store.go:165-256)                                          *)
(***************************************************************************)
THEOREM ReadsRight == ASSUME CallsGiven PROVE Spec => []ReadsExact
<1>1. RemoteInv => ReadsExact
  BY TriplesRead, LenRead, ContextsRead, ContextsWithRead DEF ReadsExact
<1>. QED
  BY <1>1, RemoteInvariant, PTL
=============================================================================
