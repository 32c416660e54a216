--------------------------- MODULE MemoryIterators ---------------------------
(***************************************************************************)
(* The iterators of store/memory.go against its writers. Triples and       *)
(* TriplesWithLimit take the store's read lock when the caller begins to   *)
(* range over them and give it back when it stops; the caller's loop body  *)
(* runs in between and may begin an iteration of its own, as the join of   *)
(* sparql/eval.go does. sync.RWMutex is external: a writer that waits      *)
(* keeps new readers out, also one that holds the lock already.            *)
(***************************************************************************)
EXTENDS Naturals, Sequences, FiniteSets, SequencesExt

CONSTANTS Reader, Writer,
          Triple,
          Pages,        \* the [limit, offset] that iterations are begun with
          MaxDepth,     \* iterations inside each other
          MaxIterations \* outer iterations and writes in total

ASSUME GraphFinite == IsFiniteSet(Triple)
ASSUME PagesAreCounts == Pages \subseteq Nat \X Nat
ASSUME IterationBounds == MaxDepth \in Nat /\ MaxIterations \in Nat

VARIABLES data,     \* the triples of the graph
          frames,   \* per reader: its running iterations, the innermost last
          asks,     \* per reader: waits in RLock
          wpc,      \* per writer: "idle" or "waiting" (in Lock)
          page,     \* per reader: what its last finished iteration yielded
          begun     \* outer iterations and writes so far

iterVars == <<data, frames, asks, wpc, page, begun>>

NoPage == [out |-> {}, from |-> {}, limit |-> 0, offset |-> 0, whole |-> FALSE]

IterInit ==
    /\ data \in SUBSET Triple
    /\ frames = [r \in Reader |-> <<>>]
    /\ asks = [r \in Reader |-> FALSE]
    /\ wpc = [w \in Writer |-> "idle"]
    /\ page = [r \in Reader |-> NoPage]
    /\ begun = 0

Reading == {r \in Reader : frames[r] # <<>>}
Waiting == {w \in Writer : wpc[w] = "waiting"}
-----------------------------------------------------------------------------
Top(r) == Last(frames[r])
SetTop(r, f) == frames' = [frames EXCEPT ![r] = Append(Front(@), f)]

\* Begin to range over an iterator, in no other iteration.
BeginRange(r) ==
    /\ ~asks[r] /\ frames[r] = <<>> /\ begun < MaxIterations
    /\ begun' = begun + 1
    /\ asks' = [asks EXCEPT ![r] = TRUE]
    /\ UNCHANGED <<data, frames, wpc, page>>

\* Begin one in the loop body of another, for the triple just yielded.
BeginNested(r) ==
    /\ ~asks[r] /\ frames[r] # <<>> /\ Len(frames[r]) < MaxDepth /\ Top(r).body
    /\ SetTop(r, [Top(r) EXCEPT !.body = FALSE])
    /\ asks' = [asks EXCEPT ![r] = TRUE]
    /\ UNCHANGED <<data, wpc, page, begun>>

\* RLock returns: no writer inside (writing is one step) and none waiting.
RLock(r) ==
    /\ asks[r] /\ Waiting = {}
    /\ asks' = [asks EXCEPT ![r] = FALSE]
    /\ \E p \in Pages :
        frames' = [frames EXCEPT ![r] =
            Append(@, [left |-> data, out |-> {}, from |-> data, limit |-> p[1],
                       offset |-> p[2], skipped |-> 0, body |-> FALSE])]
    /\ UNCHANGED <<data, wpc, page, begun>>

\* TriplesWithLimit has yielded as many as it may.
full(f) == f.limit > 0 /\ Cardinality(f.out) >= f.limit

\* The next triple is skipped for the offset, or yielded.
passes(f, t) == IF f.skipped < f.offset THEN [f EXCEPT !.skipped = @ + 1]
                ELSE [f EXCEPT !.out = @ \cup {t}, !.body = TRUE]

Yield(r) ==
    /\ ~asks[r] /\ frames[r] # <<>> /\ ~full(Top(r))
    /\ \E t \in Top(r).left : SetTop(r, passes([Top(r) EXCEPT !.left = @ \ {t}], t))
    /\ UNCHANGED <<data, asks, wpc, page, begun>>

\* Mutant: the early return for an empty graph keeps the lock.
EndUnlessEmpty(r) ==
    /\ ~asks[r] /\ frames[r] # <<>> /\ Top(r).from # {}
    /\ frames' = [frames EXCEPT ![r] = Front(@)]
    /\ UNCHANGED <<data, asks, wpc, page, begun>>

\* RUnlock, with the iteration at its end or abandoned by its caller.
End(r) ==
    /\ ~asks[r] /\ frames[r] # <<>>
    /\ page' = [page EXCEPT ![r] =
           [out |-> Top(r).out, from |-> Top(r).from, limit |-> Top(r).limit,
            offset |-> Top(r).offset, whole |-> full(Top(r)) \/ Top(r).left = {}]]
    /\ frames' = [frames EXCEPT ![r] = Front(@)]
    /\ UNCHANGED <<data, asks, wpc, begun>>

\* A writer calls Add, Set or Remove.
CallWrite(w) ==
    /\ wpc[w] = "idle" /\ begun < MaxIterations
    /\ begun' = begun + 1
    /\ wpc' = [wpc EXCEPT ![w] = "waiting"]
    /\ UNCHANGED <<data, frames, asks, page>>

\* Mutant: a writer does not wait for iterators.
WriteAtOnce(w) ==
    /\ wpc[w] = "waiting"
    /\ data' \in SUBSET Triple
    /\ wpc' = [wpc EXCEPT ![w] = "idle"]
    /\ UNCHANGED <<frames, asks, page, begun>>

\* Lock returns once the readers have left; the write, and Unlock.
Write(w) ==
    /\ wpc[w] = "waiting" /\ Reading = {}
    /\ data' \in SUBSET Triple
    /\ wpc' = [wpc EXCEPT ![w] = "idle"]
    /\ UNCHANGED <<frames, asks, page, begun>>

IterNext ==
    \/ \E r \in Reader : BeginRange(r) \/ BeginNested(r) \/ RLock(r) \/ Yield(r) \/ End(r)
    \/ \E w \in Writer : CallWrite(w) \/ Write(w)

IterSpec == IterInit /\ [][IterNext]_iterVars

\* Mutexes let in those who can go in, and loop bodies return.
IterFairness ==
    /\ \A r \in Reader : WF_iterVars(RLock(r)) /\ WF_iterVars(Yield(r) \/ End(r))
    /\ \A w \in Writer : WF_iterVars(Write(w))

-----------------------------------------------------------------------------
\* A running iteration: what is left to look at, what it has yielded, the state
\* it began in, its page, the triples skipped, whether the loop body runs.
Frame == [left : SUBSET Triple, out : SUBSET Triple, from : SUBSET Triple,
          limit : Nat, offset : Nat, skipped : Nat, body : BOOLEAN]

IterTypeOK ==
    /\ data \subseteq Triple
    /\ frames \in [Reader -> Seq(Frame)]
    /\ \A r \in Reader : Len(frames[r]) + (IF asks[r] THEN 1 ELSE 0) <= MaxDepth + 1
    /\ asks \in [Reader -> BOOLEAN]
    /\ wpc \in [Writer -> {"idle", "waiting"}]
    /\ page \in [Reader -> [out : SUBSET Triple, from : SUBSET Triple,
                            limit : Nat, offset : Nat, whole : BOOLEAN]]
    /\ begun \in Nat

\* An iteration, with whatever its loop body iterates over meanwhile, sees one
\* state of the graph: no write comes in between its first and last triple.
IterationSeesOneState ==
    \A r \in Reader : \A i \in DOMAIN frames[r] : frames[r][i].from = data

\* An iteration that was not abandoned yields every triple once, and with a
\* limit and an offset exactly as many as the page holds.
PageExact == \A r \in Reader : page[r].whole =>
    LET rest == IF Cardinality(page[r].from) > page[r].offset
                THEN Cardinality(page[r].from) - page[r].offset ELSE 0
    IN  /\ page[r].out \subseteq page[r].from
        /\ Cardinality(page[r].out) =
               IF page[r].limit > 0 /\ page[r].limit < rest THEN page[r].limit ELSE rest

\* store/memory.go, Triples and TriplesWithLimit: each of their iterations sees one
\* state of the graph and, unless abandoned, yields exactly its page of it.
IterationsExact == IterationSeesOneState /\ PageExact

\* "All methods are safe for concurrent use" (memory.go:15): an iteration that
\* is begun comes to its end, and a write is done.
CallsReturn ==
    /\ \A r \in Reader : asks[r] ~> (~asks[r] /\ frames[r] = <<>>)
    /\ \A w \in Writer : wpc[w] = "waiting" ~> wpc[w] = "idle"

\* That is so if no loop body begins an iteration of its own, however many
\* iterations and writes overlap: the lock is given back on every way out.
FlatCallsReturn == [](\A r \in Reader : frames[r] # <<>> => ~asks[r]) => CallsReturn
=============================================================================
