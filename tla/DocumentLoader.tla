--------------------------- MODULE DocumentLoader ---------------------------
(***************************************************************************)
(* jsonld/loader.go: CachingDocumentLoader, for one URL. Callers of        *)
(* LoadDocument share one fetch: the first makes an entry and fetches, the *)
(* others wait for the entry's done channel. A failed fetch is forgotten   *)
(* and its waiters start over. AddDocument replaces the entry at any time, *)
(* also while a fetch runs, whose result then stays out of the cache.      *)
(* The wrapped loader is external: it returns a document or an error.      *)
(***************************************************************************)
EXTENDS Naturals

CONSTANTS Loading,
          NoEntry,
          MaxLoads,     \* LoadDocument calls in total
          MaxAdds       \* AddDocument calls in total

ASSUME NoEntryIsNone == NoEntry \notin Nat
ASSUME LoadBounds == MaxLoads \in Nat /\ MaxAdds \in Nat

VARIABLES current,    \* the entry of l.entries, or NoEntry
          state,      \* per entry: "new", "fetching", "ok", "failed", "added"
          closed,     \* the entries whose done channel is closed
          lpc,        \* per caller: "idle", "enter", "wait", "fetch", "close", "returned"
          mine,       \* per caller: the entry it waits for or fetches
          result,     \* per caller: the entry whose document it returned, or an error
          floor,      \* per caller: the entry added last before it called
          loads, adds

loaderVars == <<current, state, closed, lpc, mine, result, floor, loads, adds>>

\* Entries are numbered in the order they are made; a load makes at most one.
Entry == 1..(MaxLoads + MaxAdds)
Made == {e \in Entry : state[e] # "new"}
NextEntry(e) == e \in Entry \ Made /\ \A f \in Entry \ Made : e <= f
LastAdded == {e \in Entry : state[e] = "added"}

LoaderInit ==
    /\ current = NoEntry
    /\ state = [e \in Entry |-> "new"]
    /\ closed = {}
    /\ lpc = [c \in Loading |-> "idle"]
    /\ mine = [c \in Loading |-> NoEntry]
    /\ result = [c \in Loading |-> NoEntry]
    /\ floor = [c \in Loading |-> {}]
    /\ loads = 0 /\ adds = 0

Set(f, c, v) == [f EXCEPT ![c] = v]

LoadDocument(c) ==
    /\ lpc[c] \in {"idle", "returned"} /\ loads < MaxLoads
    /\ loads' = loads + 1
    /\ lpc' = Set(lpc, c, "enter")
    /\ floor' = Set(floor, c, LastAdded)
    /\ UNCHANGED <<current, state, closed, mine, result, adds>>

\* Mutant: an entry that is being fetched is not published.
LookupUnpublished(c) ==
    /\ lpc[c] = "enter"
    /\ \/ /\ current # NoEntry
          /\ mine' = Set(mine, c, current) /\ lpc' = Set(lpc, c, "wait")
          /\ UNCHANGED state
       \/ /\ current = NoEntry
          /\ \E e \in Entry :
                /\ NextEntry(e)
                /\ mine' = Set(mine, c, e) /\ lpc' = Set(lpc, c, "fetch")
                /\ state' = Set(state, e, "fetching")
    /\ UNCHANGED <<current, closed, result, floor, loads, adds>>

\* The first critical section: find the entry or make it.
Lookup(c) ==
    /\ lpc[c] = "enter"
    /\ \/ /\ current # NoEntry
          /\ mine' = Set(mine, c, current) /\ lpc' = Set(lpc, c, "wait")
          /\ UNCHANGED <<current, state>>
       \/ /\ current = NoEntry
          /\ \E e \in Entry :
                /\ NextEntry(e)
                /\ mine' = Set(mine, c, e) /\ lpc' = Set(lpc, c, "fetch")
                /\ state' = Set(state, e, "fetching")
                /\ current' = e
    /\ UNCHANGED <<closed, result, floor, loads, adds>>

\* Mutant: a fetch that fails forgets whatever the map holds.
FetchedForgetsAny(c) ==
    /\ lpc[c] = "fetch" /\ lpc' = Set(lpc, c, "close")
    /\ \/ state' = Set(state, mine[c], "ok") /\ UNCHANGED current
       \/ state' = Set(state, mine[c], "failed") /\ current' = NoEntry
    /\ UNCHANGED <<closed, mine, result, floor, loads, adds>>

\* The wrapped loader returns; an entry that failed leaves the map, if it is
\* still the one there.
Fetched(c) ==
    /\ lpc[c] = "fetch" /\ lpc' = Set(lpc, c, "close")
    /\ \/ state' = Set(state, mine[c], "ok") /\ UNCHANGED current
       \/ /\ state' = Set(state, mine[c], "failed")
          /\ current' = IF current = mine[c] THEN NoEntry ELSE current
    /\ UNCHANGED <<closed, mine, result, floor, loads, adds>>

\* Only then are the waiters woken.
Close(c) ==
    /\ lpc[c] = "close" /\ lpc' = Set(lpc, c, "returned")
    /\ closed' = closed \cup {mine[c]}
    /\ result' = Set(result, c, mine[c])
    /\ UNCHANGED <<current, state, mine, floor, loads, adds>>

\* A waiter returns the document, or starts over.
Woken(c) ==
    /\ lpc[c] = "wait" /\ mine[c] \in closed
    /\ \/ /\ state[mine[c]] # "failed"
          /\ result' = Set(result, c, mine[c])
          /\ lpc' = Set(lpc, c, "returned")
       \/ /\ state[mine[c]] = "failed"
          /\ lpc' = Set(lpc, c, "enter")
          /\ UNCHANGED result
    /\ UNCHANGED <<current, state, closed, mine, floor, loads, adds>>

AddDocument ==
    /\ adds < MaxAdds /\ adds' = adds + 1
    /\ \E e \in Entry :
          /\ NextEntry(e)
          /\ state' = Set(state, e, "added")
          /\ closed' = closed \cup {e}
          /\ current' = e
    /\ UNCHANGED <<lpc, mine, result, floor, loads>>

\* Every call has returned and no more are made.
LoaderRest ==
    /\ loads = MaxLoads /\ adds = MaxAdds
    /\ \A c \in Loading : lpc[c] \in {"idle", "returned"}
    /\ UNCHANGED loaderVars

LoaderNext ==
    \/ LoaderRest \/ AddDocument
    \/ \E c \in Loading : LoadDocument(c) \/ Lookup(c) \/ Fetched(c) \/ Close(c) \/ Woken(c)

LoaderSpec == LoaderInit /\ [][LoaderNext]_loaderVars

\* The wrapped loader returns, by its HTTP client's timeout if not before.
LoaderFairness == \A c \in Loading : WF_loaderVars(Lookup(c) \/ Fetched(c) \/ Close(c) \/ Woken(c))
-----------------------------------------------------------------------------
LoaderTypeOK ==
    /\ state \in [Entry -> {"new", "fetching", "ok", "failed", "added"}]
    /\ current \in Made \cup {NoEntry}
    /\ closed \subseteq Made
    /\ lpc \in [Loading -> {"idle", "enter", "wait", "fetch", "close", "returned"}]
    /\ mine \in [Loading -> Made \cup {NoEntry}]
    /\ result \in [Loading -> Made \cup {NoEntry}]
    /\ floor \in [Loading -> SUBSET Entry]
    /\ loads \in Nat /\ adds \in Nat

\* "Concurrent requests for a document that is not cached yet wait for a single
\* fetch" (loader.go:30-31), and none starts while a document is cached: a
\* fetch that runs is the entry in the map, or was overtaken by AddDocument.
SingleFetch ==
    /\ \A c, d \in Loading : lpc[c] = "fetch" /\ lpc[d] = "fetch" => c = d
    /\ \A c \in Loading : lpc[c] = "fetch" =>
          current = mine[c] \/ current \in LastAdded

\* A failure is never cached (loader.go:31), and an error reaches only the
\* caller whose own fetch failed.
FailuresForgotten ==
    /\ current # NoEntry => state[current] # "failed"
    /\ \A c, d \in Loading :
          c # d /\ lpc[c] = "returned" /\ lpc[d] = "returned" /\ result[c] = result[d]
          => state[result[c]] # "failed"

\* AddDocument replaces for good: a call made after it never returns an older
\* document or an error, whatever fetch was running.
AddedIsServed == \A c \in Loading : lpc[c] = "returned" =>
    /\ \A e \in floor[c] : result[c] >= e
    /\ floor[c] # {} => state[result[c]] = "added"

\* What LoadDocument returns is up to date: no failure that another call met, and
\* nothing older than the document added last before the call.
NothingStale == FailuresForgotten /\ AddedIsServed

\* Every LoadDocument returns, however often the fetches it waits for fail.
LoadsReturn == \A c \in Loading : lpc[c] = "enter" ~> lpc[c] = "returned"
=============================================================================
