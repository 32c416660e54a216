---------------------------- MODULE SharedProofs ----------------------------
(***************************************************************************)
(* Objects that goroutines share, for any number of them and of calls.     *)
(* The document loader: one fetch at a time, and nothing stale is served.  *)
(* The namespace manager: a name always has a declaration, and generating  *)
(* a prefix takes nothing away. The query cache: the list that decides     *)
(* what is evicted and the map never part, and a query is evaluated as it  *)
(* was asked.                                                              *)
(***************************************************************************)
EXTENDS DocumentLoader, NSManager, QueryCache, SequenceTheorems, FiniteSetTheorems, TLAPS

\* Entries are made in the order of their numbers.
EntriesInOrder == \A e \in Made, f \in Entry : f <= e => f \in Made

\* The map never holds a failure, and once a document was added it holds the one
\* added last: a fetch that fails takes its own entry out and no other.
CurrentUpToDate ==
    /\ current # NoEntry => state[current] # "failed"
    /\ LastAdded # {} => current \in LastAdded /\ \A e \in LastAdded : e <= current

\* A closed entry has its result, and so has the one a caller is about to close;
\* the one it fetches has none.
ResultsSet ==
    /\ \A e \in closed : state[e] # "fetching"
    /\ \A c \in Loading :
          /\ lpc[c] = "wait" => mine[c] \in Made
          /\ lpc[c] = "fetch" => mine[c] \in Made /\ state[mine[c]] = "fetching"
          /\ lpc[c] = "close" => mine[c] \in Made /\ state[mine[c]] \in {"ok", "failed"}
          /\ lpc[c] = "returned" => result[c] \in Made /\ state[result[c]] # "fetching"

\* A call that came after a document was added does not fetch, and the entry it
\* waits for or returns is one added no earlier than that.
FloorKept ==
    \A c \in Loading :
        /\ lpc[c] # "idle" => floor[c] \subseteq LastAdded
        /\ lpc[c] \in {"fetch", "close"} => floor[c] = {}
        /\ lpc[c] = "wait" /\ floor[c] # {} =>
              mine[c] \in LastAdded /\ \A e \in floor[c] : e <= mine[c]

\* The entry a caller has fetched is no other caller's, and if the fetch failed
\* nobody else has returned it.
OwnFetches ==
    \A c, d \in Loading : c # d /\ lpc[c] = "close" =>
        /\ lpc[d] = "close" => mine[c] # mine[d]
        /\ lpc[d] = "returned" /\ state[mine[c]] = "failed" => result[d] # mine[c]

LoaderInv == /\ LoaderTypeOK /\ EntriesInOrder /\ CurrentUpToDate /\ ResultsSet
             /\ FloorKept /\ OwnFetches /\ SingleFetch /\ NothingStale

LEMMA NoEntryOutside == Entry \subseteq Nat /\ NoEntry \notin Entry
BY NoEntryIsNone, LoadBounds DEF Entry

\* A new entry comes after all that were made.
LEMMA NewIsLast ==
    ASSUME LoaderInv, NEW e \in Entry, NextEntry(e)
    PROVE  \A f \in Made : f < e
BY NoEntryOutside DEF LoaderInv, EntriesInOrder, NextEntry, Made

\* Making an entry adds it to those made and changes no other.
LEMMA MakesEntry ==
    ASSUME LoaderInv, NEW e \in Entry, NextEntry(e), NEW v \in {"fetching", "added"},
           state' = Set(state, e, v)
    PROVE  /\ state' \in [Entry -> {"new", "fetching", "ok", "failed", "added"}]
           /\ e \notin Made /\ Made' = Made \cup {e}
           /\ LastAdded' = IF v = "added" THEN LastAdded \cup {e} ELSE LastAdded
           /\ state'[e] = v
           /\ \A f \in Made : state'[f] = state[f]
           /\ EntriesInOrder'
<1>1. /\ state' \in [Entry -> {"new", "fetching", "ok", "failed", "added"}]
      /\ e \notin Made /\ state'[e] = v /\ \A f \in Entry \ {e} : state'[f] = state[f]
  BY DEF LoaderInv, LoaderTypeOK, NextEntry, Set
<1>2. Made' = Made \cup {e}
  BY <1>1 DEF Made
<1>3. LastAdded' = IF v = "added" THEN LastAdded \cup {e} ELSE LastAdded
  BY <1>1 DEF LastAdded, Made, NextEntry
<1>4. EntriesInOrder'
  BY <1>2, NoEntryOutside DEF LoaderInv, EntriesInOrder, NextEntry
<1>. QED
  BY <1>1, <1>2, <1>3, <1>4 DEF Made

LEMMA LoaderInitially == LoaderInit => LoaderInv
BY NoEntryOutside
DEF LoaderInit, LoaderInv, LoaderTypeOK, EntriesInOrder, CurrentUpToDate, ResultsSet,
    FloorKept, OwnFetches, SingleFetch, NothingStale, FailuresForgotten, AddedIsServed,
    Made, LastAdded

LEMMA LoadDocumentStep ==
    ASSUME LoaderInv, NEW c \in Loading, LoadDocument(c)
    PROVE  LoaderInv'
<1>1. Made' = Made /\ LastAdded' = LastAdded /\ LastAdded \subseteq Entry
  BY DEF LoadDocument, Made, LastAdded
<1>2. LoaderTypeOK'
  BY <1>1 DEF LoaderInv, LoaderTypeOK, LoadDocument, Set
<1>3. EntriesInOrder' /\ CurrentUpToDate'
  BY <1>1 DEF LoaderInv, EntriesInOrder, CurrentUpToDate, LoadDocument
<1>4. ResultsSet' /\ FloorKept' /\ OwnFetches' /\ SingleFetch'
  BY <1>1
  DEF LoaderInv, LoaderTypeOK, ResultsSet, FloorKept, OwnFetches, SingleFetch, LoadDocument, Set
<1>5. NothingStale'
  BY <1>1
  DEF LoaderInv, LoaderTypeOK, NothingStale, FailuresForgotten, AddedIsServed, LoadDocument, Set
<1>. QED
  BY <1>2, <1>3, <1>4, <1>5 DEF LoaderInv

LEMMA LookupStep ==
    ASSUME LoaderInv, NEW c \in Loading, Lookup(c)
    PROVE  LoaderInv'
<1>1. CASE current # NoEntry
  <2>1. /\ mine' = Set(mine, c, current) /\ lpc' = Set(lpc, c, "wait")
        /\ UNCHANGED <<current, state, closed, result, floor, loads, adds>>
        /\ lpc[c] = "enter"
    BY <1>1 DEF Lookup
  <2>2. Made' = Made /\ LastAdded' = LastAdded /\ current \in Made
    BY <1>1, <2>1 DEF Made, LastAdded, LoaderInv, LoaderTypeOK
  <2>3. LoaderTypeOK'
    BY <2>1, <2>2 DEF LoaderInv, LoaderTypeOK, Set
  <2>4. EntriesInOrder' /\ CurrentUpToDate'
    BY <2>1, <2>2 DEF LoaderInv, EntriesInOrder, CurrentUpToDate
  <2>5. ResultsSet' /\ OwnFetches' /\ SingleFetch'
    BY <2>1, <2>2 DEF LoaderInv, LoaderTypeOK, ResultsSet, OwnFetches, SingleFetch, Set
  <2>6. FloorKept'
    <3>1. floor[c] \subseteq LastAdded
      BY <2>1 DEF LoaderInv, FloorKept
    <3>2. floor[c] # {} => current \in LastAdded /\ \A e \in floor[c] : e <= current
      BY <3>1 DEF LoaderInv, CurrentUpToDate
    <3>. QED
      BY <2>1, <2>2, <3>1, <3>2 DEF LoaderInv, LoaderTypeOK, FloorKept, Set
  <2>7. NothingStale'
    BY <2>1, <2>2
    DEF LoaderInv, LoaderTypeOK, NothingStale, FailuresForgotten, AddedIsServed, Set
  <2>. QED
    BY <2>3, <2>4, <2>5, <2>6, <2>7 DEF LoaderInv
<1>2. CASE current = NoEntry
  <2>1. PICK e \in Entry : /\ NextEntry(e)
                           /\ mine' = Set(mine, c, e) /\ lpc' = Set(lpc, c, "fetch")
                           /\ state' = Set(state, e, "fetching")
                           /\ current' = e
    BY <1>2 DEF Lookup
  <2>2. UNCHANGED <<closed, result, floor, loads, adds>> /\ lpc[c] = "enter"
    BY DEF Lookup
  <2>3. /\ state' \in [Entry -> {"new", "fetching", "ok", "failed", "added"}]
        /\ e \notin Made /\ Made' = Made \cup {e} /\ LastAdded' = LastAdded
        /\ state'[e] = "fetching" /\ \A f \in Made : state'[f] = state[f]
        /\ EntriesInOrder'
    BY <2>1, MakesEntry
  \* Nothing was added so far, and nobody else fetches.
  <2>4. LastAdded = {} /\ \A d \in Loading : \/ lpc[d] # "fetch" /\ floor[d] \subseteq {}
                                            \/ lpc[d] = "idle"
    BY <1>2, NoEntryOutside
    DEF LoaderInv, LoaderTypeOK, CurrentUpToDate, SingleFetch, ResultsSet, FloorKept, LastAdded, Made
  <2>5. LoaderTypeOK'
    BY <2>1, <2>2, <2>3 DEF LoaderInv, LoaderTypeOK, Set
  <2>6. CurrentUpToDate'
    BY <2>1, <2>3, <2>4 DEF CurrentUpToDate
  <2>7. ResultsSet'
    BY <2>1, <2>2, <2>3 DEF LoaderInv, LoaderTypeOK, ResultsSet, Set
  <2>8. FloorKept'
    BY <2>1, <2>2, <2>3, <2>4 DEF LoaderInv, LoaderTypeOK, FloorKept, Set
  <2>9. OwnFetches'
    BY <2>1, <2>2, <2>3 DEF LoaderInv, LoaderTypeOK, ResultsSet, OwnFetches, Set
  <2>10. SingleFetch'
    BY <2>1, <2>2, <2>3, <2>4 DEF LoaderInv, LoaderTypeOK, SingleFetch, Set
  <2>11. NothingStale'
    <3>1. \A d \in Loading : lpc'[d] = "returned" =>
             /\ lpc[d] = "returned" /\ result'[d] = result[d]
             /\ state'[result[d]] = state[result[d]]
      BY <2>1, <2>2, <2>3 DEF LoaderInv, LoaderTypeOK, ResultsSet, Set
    <3>2. FailuresForgotten'
      BY <2>1, <2>3, <3>1 DEF LoaderInv, NothingStale, FailuresForgotten
    <3>3. AddedIsServed'
      BY <2>2, <3>1 DEF LoaderInv, NothingStale, AddedIsServed
    <3>. QED
      BY <3>2, <3>3 DEF NothingStale
  <2>. QED
    BY <2>3, <2>5, <2>6, <2>7, <2>8, <2>9, <2>10, <2>11 DEF LoaderInv
<1>. QED
  BY <1>1, <1>2

LEMMA FetchedStep ==
    ASSUME LoaderInv, NEW c \in Loading, Fetched(c)
    PROVE  LoaderInv'
<1>1. /\ lpc[c] = "fetch" /\ mine[c] \in Made /\ state[mine[c]] = "fetching"
      /\ lpc' = Set(lpc, c, "close")
      /\ UNCHANGED <<closed, mine, result, floor, loads, adds>>
  BY DEF LoaderInv, ResultsSet, Fetched
<1>2. PICK v \in {"ok", "failed"} :
         /\ state' = Set(state, mine[c], v)
         /\ current' = IF v = "failed" /\ current = mine[c] THEN NoEntry ELSE current
  BY DEF Fetched
<1>3. /\ state' \in [Entry -> {"new", "fetching", "ok", "failed", "added"}]
      /\ state'[mine[c]] = v /\ \A e \in Entry \ {mine[c]} : state'[e] = state[e]
  BY <1>1, <1>2 DEF LoaderInv, LoaderTypeOK, Made, Set
<1>4. Made' = Made /\ LastAdded' = LastAdded /\ mine[c] \notin LastAdded
      /\ Made \subseteq Entry /\ LastAdded \subseteq Entry
  BY <1>1, <1>3 DEF Made, LastAdded
<1>5. LoaderTypeOK'
  BY <1>1, <1>2, <1>3, <1>4 DEF LoaderInv, LoaderTypeOK, Set
<1>6. EntriesInOrder'
  BY <1>4 DEF LoaderInv, EntriesInOrder
<1>7. CurrentUpToDate'
  BY <1>2, <1>3, <1>4 DEF LoaderInv, LoaderTypeOK, CurrentUpToDate
<1>8. ResultsSet'
  BY <1>1, <1>2, <1>3, <1>4 DEF LoaderInv, LoaderTypeOK, ResultsSet, SingleFetch, Set
<1>9. FloorKept'
  BY <1>1, <1>4 DEF LoaderInv, LoaderTypeOK, FloorKept, Set
<1>10. OwnFetches'
  BY <1>1, <1>3, <1>4 DEF LoaderInv, LoaderTypeOK, ResultsSet, OwnFetches, Set
<1>11. SingleFetch'
  BY <1>1, <1>2, <1>4 DEF LoaderInv, LoaderTypeOK, SingleFetch, Set
<1>12. NothingStale'
  <2>1. \A d \in Loading : lpc'[d] = "returned" =>
           /\ lpc[d] = "returned" /\ result'[d] = result[d]
           /\ state'[result[d]] = state[result[d]]
    BY <1>1, <1>3, <1>4 DEF LoaderInv, LoaderTypeOK, ResultsSet, Set
  <2>2. FailuresForgotten'
    BY <1>7, <2>1 DEF CurrentUpToDate, LoaderInv, NothingStale, FailuresForgotten
  <2>3. AddedIsServed'
    BY <1>1, <2>1 DEF LoaderInv, NothingStale, AddedIsServed
  <2>. QED
    BY <2>2, <2>3 DEF NothingStale
<1>. QED
  BY <1>5, <1>6, <1>7, <1>8, <1>9, <1>10, <1>11, <1>12 DEF LoaderInv

LEMMA CloseStep ==
    ASSUME LoaderInv, NEW c \in Loading, Close(c)
    PROVE  LoaderInv'
<1>1. /\ lpc[c] = "close" /\ mine[c] \in Made /\ state[mine[c]] \in {"ok", "failed"}
      /\ floor[c] = {}
      /\ lpc' = Set(lpc, c, "returned") /\ result' = Set(result, c, mine[c])
      /\ closed' = closed \cup {mine[c]}
      /\ UNCHANGED <<current, state, mine, floor, loads, adds>>
  BY DEF LoaderInv, ResultsSet, FloorKept, Close
<1>2. Made' = Made /\ LastAdded' = LastAdded
  BY <1>1 DEF Made, LastAdded
<1>3. LoaderTypeOK'
  BY <1>1, <1>2 DEF LoaderInv, LoaderTypeOK, Set
<1>4. EntriesInOrder' /\ CurrentUpToDate' /\ SingleFetch'
  BY <1>1, <1>2
  DEF LoaderInv, LoaderTypeOK, EntriesInOrder, CurrentUpToDate, SingleFetch, Set
<1>5. ResultsSet' /\ FloorKept' /\ OwnFetches'
  BY <1>1, <1>2 DEF LoaderInv, LoaderTypeOK, ResultsSet, FloorKept, OwnFetches, Set
<1>6. NothingStale'
  BY <1>1, <1>2
  DEF LoaderInv, LoaderTypeOK, OwnFetches, NothingStale, FailuresForgotten, AddedIsServed, Set
<1>. QED
  BY <1>3, <1>4, <1>5, <1>6 DEF LoaderInv

LEMMA WokenStep ==
    ASSUME LoaderInv, NEW c \in Loading, Woken(c)
    PROVE  LoaderInv'
<1>1. /\ lpc[c] = "wait" /\ mine[c] \in closed /\ mine[c] \in Made
      /\ state[mine[c]] # "fetching"
      /\ UNCHANGED <<current, state, closed, mine, floor, loads, adds>>
  BY DEF LoaderInv, ResultsSet, Woken
<1>2. Made' = Made /\ LastAdded' = LastAdded
  BY <1>1 DEF Made, LastAdded
<1>3. EntriesInOrder' /\ CurrentUpToDate'
  BY <1>1, <1>2 DEF LoaderInv, EntriesInOrder, CurrentUpToDate
<1>4. CASE /\ state[mine[c]] # "failed"
           /\ result' = Set(result, c, mine[c]) /\ lpc' = Set(lpc, c, "returned")
  <2>1. LoaderTypeOK'
    BY <1>1, <1>2, <1>4 DEF LoaderInv, LoaderTypeOK, Set
  <2>2. ResultsSet' /\ FloorKept' /\ OwnFetches' /\ SingleFetch'
    BY <1>1, <1>2, <1>4
    DEF LoaderInv, LoaderTypeOK, ResultsSet, FloorKept, OwnFetches, SingleFetch, Set
  <2>3. NothingStale'
    BY <1>1, <1>2, <1>4, NoEntryOutside
    DEF LoaderInv, LoaderTypeOK, FloorKept, NothingStale, FailuresForgotten, AddedIsServed,
        LastAdded, Set
  <2>. QED
    BY <1>3, <2>1, <2>2, <2>3 DEF LoaderInv
<1>5. CASE lpc' = Set(lpc, c, "enter") /\ UNCHANGED result
  <2>1. LoaderTypeOK'
    BY <1>1, <1>2, <1>5 DEF LoaderInv, LoaderTypeOK, Set
  <2>2. ResultsSet' /\ FloorKept' /\ OwnFetches' /\ SingleFetch'
    BY <1>1, <1>2, <1>5
    DEF LoaderInv, LoaderTypeOK, ResultsSet, FloorKept, OwnFetches, SingleFetch, Set
  <2>3. NothingStale'
    BY <1>1, <1>2, <1>5
    DEF LoaderInv, LoaderTypeOK, NothingStale, FailuresForgotten, AddedIsServed, Set
  <2>. QED
    BY <1>3, <2>1, <2>2, <2>3 DEF LoaderInv
<1>. QED
  BY <1>4, <1>5 DEF Woken

LEMMA AddDocumentStep ==
    ASSUME LoaderInv, AddDocument
    PROVE  LoaderInv'
<1>1. PICK e \in Entry : /\ NextEntry(e) /\ state' = Set(state, e, "added")
                         /\ closed' = closed \cup {e} /\ current' = e
  BY DEF AddDocument
<1>2. UNCHANGED <<lpc, mine, result, floor, loads>> /\ adds' = adds + 1
  BY DEF AddDocument
<1>3. /\ state' \in [Entry -> {"new", "fetching", "ok", "failed", "added"}]
      /\ e \notin Made /\ Made' = Made \cup {e} /\ LastAdded' = LastAdded \cup {e}
      /\ state'[e] = "added" /\ \A f \in Made : state'[f] = state[f]
      /\ EntriesInOrder'
  BY <1>1, MakesEntry
<1>4. \A f \in LastAdded' : f <= e
  BY <1>1, <1>3, NewIsLast, NoEntryOutside DEF LastAdded, Made
<1>5. LoaderTypeOK'
  BY <1>1, <1>2, <1>3 DEF LoaderInv, LoaderTypeOK
<1>6. CurrentUpToDate'
  BY <1>1, <1>3, <1>4 DEF CurrentUpToDate
<1>7. ResultsSet' /\ OwnFetches'
  BY <1>1, <1>2, <1>3 DEF LoaderInv, LoaderTypeOK, ResultsSet, OwnFetches
<1>8. FloorKept'
  BY <1>2, <1>3 DEF LoaderInv, FloorKept
<1>9. SingleFetch'
  BY <1>1, <1>2, <1>3 DEF LoaderInv, SingleFetch
<1>10. NothingStale'
  BY <1>1, <1>2, <1>3
  DEF LoaderInv, ResultsSet, NothingStale, FailuresForgotten, AddedIsServed
<1>. QED
  BY <1>3, <1>5, <1>6, <1>7, <1>8, <1>9, <1>10 DEF LoaderInv

LEMMA LoaderInductive ==
    ASSUME LoaderInv, [LoaderNext]_loaderVars
    PROVE  LoaderInv'
<1>1. CASE UNCHANGED loaderVars
  BY <1>1
  DEF loaderVars, LoaderInv, LoaderTypeOK, EntriesInOrder, CurrentUpToDate, ResultsSet,
      FloorKept, OwnFetches, SingleFetch, NothingStale, FailuresForgotten, AddedIsServed,
      Made, LastAdded
<1>. QED
  BY <1>1, LoadDocumentStep, LookupStep, FetchedStep, CloseStep, WokenStep, AddDocumentStep
  DEF LoaderNext, LoaderRest

LEMMA LoaderInvariant == LoaderSpec => []LoaderInv
BY LoaderInitially, LoaderInductive, PTL DEF LoaderSpec

\* LoadDocument: however many calls overlap, one of them fetches, and none while
\* the document is cached.
THEOREM FetchesOnce == LoaderSpec => []SingleFetch
<1>1. LoaderInv => SingleFetch
  BY DEF LoaderInv
<1>. QED
  BY <1>1, LoaderInvariant, PTL

\* LoadDocument never returns a failure that another call met, and after
\* AddDocument nothing older than what was added.
THEOREM ServesFresh == LoaderSpec => []NothingStale
<1>1. LoaderInv => NothingStale
  BY DEF LoaderInv
<1>. QED
  BY <1>1, LoaderInvariant, PTL
-----------------------------------------------------------------------------
\* NamesAreBound speaks of the cache and of callers about to fill it, and both
\* get their prefixes from the store's other table. So that table names bound
\* prefixes only, and a caller on its way has the argument it was called with
\* and, before it caches a prefix, has one.
NamesInv ==
    /\ NamesTypeOK
    /\ NamesAreBound
    /\ \A n \in Namespace : nsURI[n] # None => nsPrefix[nsURI[n]] # None
    /\ \A c \in Caller : /\ pc[c] # "idle" => arg[c] \in Namespace
                         /\ pc[c] = "store" => got[c] \in Prefix

\* Binding a prefix to a namespace keeps every prefix bound and the two tables
\* in agreement.
LEMMA BindKeeps ==
    ASSUME NamesInv, NEW p \in Prefix, NEW n \in Namespace, StoreBind(p, n)
    PROVE  /\ nsPrefix' \in [Prefix -> Namespace \cup {None}]
           /\ nsURI' \in [Namespace -> Prefix \cup {None}]
           /\ \A q \in Prefix : nsPrefix[q] # None => nsPrefix'[q] # None
           /\ nsPrefix'[p] # None
           /\ \A k \in Namespace : nsURI'[k] # None => nsPrefix'[nsURI'[k]] # None
BY NoneIsNoName DEF NamesInv, NamesTypeOK, StoreBind

LEMMA NamesInitially == NamesInit => NamesInv
BY DEF NamesInit, NamesInv, NamesTypeOK, NamesAreBound

LEMMA BindStep ==
    ASSUME NamesInv, NEW p \in UserPrefix, NEW n \in Namespace, NEW o \in BOOLEAN,
           Bind(p, n, o), UNCHANGED <<genID, pc, arg, got>>
    PROVE  NamesInv'
<1>1. CASE UNCHANGED <<nsPrefix, nsURI, cache>>
  BY <1>1 DEF NamesInv, NamesTypeOK, NamesAreBound
<1>2. CASE StoreBind(p, n) /\ cache' = [cache EXCEPT ![n] = None]
  <2>1. p \in Prefix
    BY PrefixesGiven
  <2>2. NamesTypeOK'
    BY <1>2, <2>1, BindKeeps DEF NamesInv, NamesTypeOK
  <2>3. NamesAreBound'
    BY <1>2, <2>1, BindKeeps DEF NamesInv, NamesTypeOK, NamesAreBound
  <2>. QED
    BY <1>2, <2>1, <2>2, <2>3, BindKeeps DEF NamesInv
<1>. QED
  BY <1>1, <1>2 DEF Bind

LEMMA BeginStep ==
    ASSUME NamesInv, NEW c \in Caller, NEW n \in Namespace, Begin(c, n)
    PROVE  NamesInv'
BY DEF NamesInv, NamesTypeOK, NamesAreBound, Begin

LEMMA AskStoreStep ==
    ASSUME NamesInv, NEW c \in Caller, AskStore(c)
    PROVE  NamesInv'
BY DEF NamesInv, NamesTypeOK, NamesAreBound, AskStore

LEMMA generatePrefixStep ==
    ASSUME NamesInv, NEW c \in Caller, generatePrefix(c)
    PROVE  NamesInv'
<1>1. arg[c] \in Namespace
  BY DEF NamesInv, generatePrefix
<1>2. CASE /\ nsURI[arg[c]] # None /\ got' = [got EXCEPT ![c] = nsURI[arg[c]]]
           /\ UNCHANGED <<nsPrefix, nsURI, genID>>
  BY <1>1, <1>2 DEF NamesInv, NamesTypeOK, NamesAreBound, generatePrefix
<1>3. ASSUME NEW n \in DOMAIN Generated, genID' = n, got' = [got EXCEPT ![c] = Generated[n]],
             StoreBind(Generated[n], arg[c])
      PROVE  NamesInv'
  <2>1. Generated[n] \in Prefix /\ n \in Nat
    BY PrefixesGenerated
  <2>2. NamesTypeOK'
    BY <1>1, <1>3, <2>1, BindKeeps DEF NamesInv, NamesTypeOK, generatePrefix
  <2>3. NamesAreBound'
    BY <1>1, <1>3, <2>1, BindKeeps DEF NamesInv, NamesTypeOK, NamesAreBound, generatePrefix
  <2>. QED
    BY <1>1, <1>3, <2>1, <2>2, <2>3, BindKeeps DEF NamesInv, NamesTypeOK, generatePrefix
<1>. QED
  BY <1>2, <1>3 DEF generatePrefix

LEMMA StoreNameStep ==
    ASSUME NamesInv, NEW c \in Caller, StoreName(c)
    PROVE  NamesInv'
BY DEF NamesInv, NamesTypeOK, NamesAreBound, StoreName

LEMMA NamesInductive ==
    ASSUME NamesInv, [NamesNext]_namesVars
    PROVE  NamesInv'
<1>1. CASE UNCHANGED namesVars
  BY <1>1 DEF namesVars, NamesInv, NamesTypeOK, NamesAreBound
<1>2. CASE NamesNext
  BY <1>1, <1>2, BindStep, BeginStep, AskStoreStep, generatePrefixStep, StoreNameStep
  DEF NamesNext, NamesRest, Call, ComputeQName
<1>. QED
  BY <1>1, <1>2

LEMMA NamesInvariant == NamesSpec => []NamesInv
BY NamesInitially, NamesInductive, PTL DEF NamesSpec

\* ComputeQName: every prefix that is cached, or about to be, is bound in the
\* store, whoever rebinds what between its steps.
THEOREM NamesDeclared == NamesSpec => []NamesAreBound
<1>1. NamesInv => NamesAreBound
  BY DEF NamesInv
<1>. QED
  BY <1>1, NamesInvariant, PTL

\* generatePrefix: no step that generates a prefix takes a bound one from its
\* namespace, and none gives a namespace a second one.
THEOREM NamesNeverStolen == NamesSpec => GeneratedNeverSteals
<1>1. ASSUME NamesInv, [NamesNext]_namesVars
      PROVE  [StealsNone /\ GeneratesOnce]_namesVars
  <2>1. CASE UNCHANGED namesVars
    BY <2>1
  <2>2. ASSUME NEW c \in Caller, generatePrefix(c)
        PROVE  StealsNone /\ GeneratesOnce
    <3>1. arg[c] \in Namespace
      BY <1>1, <2>2 DEF NamesInv, generatePrefix
    <3>. QED
      BY <1>1, <2>2, <3>1, PrefixesGenerated
      DEF NamesInv, NamesTypeOK, generatePrefix, StoreBind, FirstFree, FreeNumber,
          StealsNone, GeneratesOnce
  <2>3. CASE genID' = genID
    BY <2>3 DEF StealsNone, GeneratesOnce
  <2>. QED
    BY <1>1, <2>1, <2>2, <2>3
    DEF NamesNext, NamesRest, namesVars, Call, Begin, Bind, ComputeQName, AskStore, StoreName
<1>. QED
  BY <1>1, NamesInvariant, PTL DEF NamesSpec, GeneratedNeverSteals
-----------------------------------------------------------------------------
\* CacheExact needs to know that Put is given what was parsed from its text,
\* and that the size it compares with the capacity is the length of the list:
\* then a full cache has an oldest entry, and evicting it makes room for one.
CacheInv ==
    /\ QCTypeOK
    /\ CacheExact
    /\ IsFiniteSet(DOMAIN entries) /\ Cardinality(DOMAIN entries) = Len(order)
    /\ \A g \in Goroutine :
          /\ at[g] = "parse" => text[g] \in Text
          /\ at[g] = "put" => /\ text[g] \in Text \ Malformed /\ parsed[g] = text[g]
                              /\ capacity # Off

\* A list grows by one element at its end.
LEMMA AppendListed ==
    ASSUME NEW S, NEW s \in Seq(S), NEW e \in S
    PROVE  /\ Append(s, e) \in Seq(S) /\ Len(Append(s, e)) = Len(s) + 1
           /\ ToSet(Append(s, e)) = ToSet(s) \cup {e}
           /\ IsInjective(s) /\ e \notin ToSet(s) => IsInjective(Append(s, e))
<1>1. /\ Append(s, e) \in Seq(S) /\ Len(Append(s, e)) = Len(s) + 1 /\ Len(s) \in Nat
      /\ DOMAIN s = 1..Len(s) /\ DOMAIN Append(s, e) = 1..(Len(s) + 1)
      /\ \A i \in 1..Len(s) : Append(s, e)[i] = s[i]
      /\ Append(s, e)[Len(s) + 1] = e
  OBVIOUS
<1>2. \A i \in 1..(Len(s) + 1) : i = Len(s) + 1 \/ i \in 1..Len(s)
  BY <1>1
<1>3. ToSet(Append(s, e)) \subseteq ToSet(s) \cup {e}
  BY <1>1, <1>2 DEF ToSet
<1>4. ToSet(s) \cup {e} \subseteq ToSet(Append(s, e))
  BY <1>1 DEF ToSet
<1>5. ASSUME IsInjective(s), e \notin ToSet(s)
      PROVE  IsInjective(Append(s, e))
  BY <1>1, <1>2, <1>5 DEF ToSet, IsInjective
<1>. QED
  BY <1>1, <1>3, <1>4, <1>5

\* A list without repetitions loses exactly its first element.
LEMMA TailListed ==
    ASSUME NEW S, NEW s \in Seq(S), s # <<>>, IsInjective(s)
    PROVE  /\ Tail(s) \in Seq(S) /\ Len(Tail(s)) = Len(s) - 1 /\ IsInjective(Tail(s))
           /\ Head(s) \in ToSet(s) /\ ToSet(Tail(s)) = ToSet(s) \ {Head(s)}
<1>1. /\ Tail(s) \in Seq(S) /\ Len(Tail(s)) = Len(s) - 1 /\ Len(s) \in Nat /\ Len(s) > 0
      /\ DOMAIN s = 1..Len(s) /\ DOMAIN Tail(s) = 1..(Len(s) - 1)
      /\ \A i \in 1..(Len(s) - 1) : Tail(s)[i] = s[i + 1]
      /\ Head(s) = s[1]
  OBVIOUS
<1>2. \A i \in 1..(Len(s) - 1) : i + 1 \in 1..Len(s) /\ i + 1 # 1
  BY <1>1
<1>3. IsInjective(Tail(s))
  BY <1>1, <1>2 DEF IsInjective
<1>4. ToSet(Tail(s)) \subseteq ToSet(s) \ {Head(s)}
  BY <1>1, <1>2 DEF ToSet, IsInjective
<1>5. ASSUME NEW i \in 1..Len(s), s[i] # Head(s)
      PROVE  s[i] \in ToSet(Tail(s))
  <2>1. i - 1 \in 1..(Len(s) - 1) /\ Tail(s)[i - 1] = s[i]
    BY <1>1, <1>5
  <2>. QED
    BY <1>1, <2>1 DEF ToSet
<1>6. /\ \A x \in ToSet(s) : \E i \in 1..Len(s) : x = s[i]
      /\ Head(s) \in ToSet(s)
  BY <1>1 DEF ToSet
<1>. QED
  BY <1>1, <1>3, <1>4, <1>5, <1>6

LEMMA QCInitially == QCInit => CacheInv
<1>. SUFFICES ASSUME QCInit PROVE CacheInv
  OBVIOUS
<1>1. order = <<>> /\ DOMAIN entries = {} /\ capacity = Off /\ DOMAIN order = {}
  BY DEF QCInit
<1>2. QCTypeOK
  BY <1>1 DEF QCInit, QCTypeOK
<1>3. CacheExact
  BY <1>1 DEF QCInit, CacheExact, OrderListsEntries, IsInjective, ToSet
<1>. QED
  BY <1>1, <1>2, <1>3, FS_EmptySet DEF QCInit, CacheInv

LEMMA FreshCache ==
    ASSUME CacheInv, AtRest, capacity' \in {Off} \cup (Nat \ {0}),
           entries' = <<>>, order' = <<>>, UNCHANGED <<at, text, parsed, asked>>
    PROVE  CacheInv'
<1>1. DOMAIN entries' = {} /\ DOMAIN order' = {} /\ Len(order') = 0
  OBVIOUS
<1>2. QCTypeOK'
  BY <1>1 DEF CacheInv, QCTypeOK
<1>3. CacheExact'
  BY <1>1, <1>2 DEF CacheInv, CacheExact, OrderListsEntries, IsInjective, ToSet, QCTypeOK
<1>. QED
  BY <1>1, <1>2, <1>3, FS_EmptySet DEF CacheInv, AtRest

LEMMA GetStep ==
    ASSUME CacheInv, NEW g \in Goroutine, NEW t \in Text, Get(g, t)
    PROVE  CacheInv'
<1>1. UNCHANGED <<capacity, entries, order>> /\ text' = [text EXCEPT ![g] = t]
  BY DEF Get
<1>2. OrderListsEntries' /\ \A u \in DOMAIN entries' : entries'[u] = u
  BY <1>1 DEF CacheInv, CacheExact, OrderListsEntries
<1>3. CASE t \in DOMAIN entries /\ parsed' = [parsed EXCEPT ![g] = entries[t]] /\ GoTo(g, "eval")
  BY <1>1, <1>2, <1>3 DEF CacheInv, QCTypeOK, CacheExact, GoTo
<1>4. CASE parsed' = [parsed EXCEPT ![g] = Off] /\ GoTo(g, "parse")
  BY <1>1, <1>2, <1>4 DEF CacheInv, QCTypeOK, CacheExact, GoTo
<1>. QED
  BY <1>3, <1>4 DEF Get

LEMMA ParseStep ==
    ASSUME CacheInv, NEW g \in Goroutine, Parse(g)
    PROVE  CacheInv'
<1>1. UNCHANGED <<capacity, entries, order, text>> /\ text[g] \in Text
  BY DEF CacheInv, Parse
<1>2. OrderListsEntries' /\ \A u \in DOMAIN entries' : entries'[u] = u
  BY <1>1 DEF CacheInv, CacheExact, OrderListsEntries
<1>3. CASE GoTo(g, "out") /\ UNCHANGED parsed
  BY <1>1, <1>2, <1>3 DEF CacheInv, QCTypeOK, CacheExact, GoTo
<1>4. CASE /\ text[g] \notin Malformed /\ parsed' = [parsed EXCEPT ![g] = text[g]]
           /\ GoTo(g, IF capacity = Off THEN "eval" ELSE "put")
  BY <1>1, <1>2, <1>4 DEF CacheInv, QCTypeOK, CacheExact, GoTo
<1>. QED
  BY <1>3, <1>4 DEF Parse

LEMMA PutStep ==
    ASSUME CacheInv, NEW g \in Goroutine, Put(g)
    PROVE  CacheInv'
<1>1. /\ text[g] \in Text \ Malformed /\ parsed[g] = text[g] /\ capacity \in Nat \ {0}
      /\ at' = [at EXCEPT ![g] = "eval"] /\ UNCHANGED <<capacity, text, parsed>>
      /\ order \in Seq(Text) /\ Len(order) \in Nat /\ Len(order) <= capacity
      /\ IsInjective(order) /\ ToSet(order) = DOMAIN entries
      /\ IsFiniteSet(DOMAIN entries) /\ Cardinality(DOMAIN entries) = Len(order)
  BY DEF CacheInv, QCTypeOK, CacheExact, OrderListsEntries, Put, GoTo
<1>2. ASSUME QCTypeOK', OrderListsEntries', \A t \in DOMAIN entries' : entries'[t] = t,
             IsFiniteSet(DOMAIN entries'), Cardinality(DOMAIN entries') = Len(order')
      PROVE  CacheInv'
  BY <1>1, <1>2 DEF CacheInv, CacheExact, QCTypeOK
<1>3. CASE UNCHANGED <<entries, order>>
  <2>1. QCTypeOK'
    BY <1>1, <1>3 DEF CacheInv, QCTypeOK
  <2>. QED
    BY <1>1, <1>2, <1>3, <2>1 DEF CacheInv, CacheExact, OrderListsEntries
<1>4. CASE text[g] \notin DOMAIN entries
  <2>. DEFINE full == Cardinality(DOMAIN entries) >= capacity
              kept == IF full THEN DOMAIN entries \ {Head(order)} ELSE DOMAIN entries
              rest == IF full THEN Tail(order) ELSE order
  <2>1. /\ entries' = [t \in kept \cup {text[g]} |-> IF t = text[g] THEN parsed[g] ELSE entries[t]]
        /\ order' = Append(rest, text[g])
    BY <1>4 DEF Put
  <2>2. /\ rest \in Seq(Text) /\ Len(rest) \in Nat /\ Len(rest) + 1 <= capacity
        /\ IsInjective(rest) /\ ToSet(rest) = kept
        /\ IsFiniteSet(kept) /\ Cardinality(kept) = Len(rest)
        /\ kept \subseteq DOMAIN entries
    <3>1. CASE full
      <4>1. order # <<>>
        BY <1>1, <3>1
      <4>2. /\ Tail(order) \in Seq(Text) /\ Len(Tail(order)) = Len(order) - 1
            /\ IsInjective(Tail(order)) /\ Head(order) \in ToSet(order)
            /\ ToSet(Tail(order)) = ToSet(order) \ {Head(order)}
        BY <1>1, <4>1, TailListed
      <4>3. /\ IsFiniteSet(DOMAIN entries \ {Head(order)})
            /\ Cardinality(DOMAIN entries \ {Head(order)}) = Len(order) - 1
        BY <1>1, <4>2, FS_RemoveElement
      <4>. QED
        BY <1>1, <3>1, <4>1, <4>2, <4>3
    <3>2. CASE ~full
      BY <1>1, <3>2
    <3>. QED
      BY <3>1, <3>2
  <2>. HIDE DEF kept, rest
  <2>3. /\ order' \in Seq(Text) /\ Len(order') = Len(rest) + 1 /\ IsInjective(order')
        /\ ToSet(order') = kept \cup {text[g]}
    BY <1>1, <1>4, <2>1, <2>2, AppendListed
  <2>4. DOMAIN entries' = kept \cup {text[g]} /\ \A t \in DOMAIN entries' : entries'[t] = t
    BY <1>1, <2>1, <2>2 DEF CacheInv, CacheExact
  <2>5. IsFiniteSet(DOMAIN entries') /\ Cardinality(DOMAIN entries') = Len(order')
    <3>1. text[g] \notin kept
      BY <1>4, <2>2
    <3>2. /\ IsFiniteSet(kept \cup {text[g]})
          /\ Cardinality(kept \cup {text[g]}) = Cardinality(kept) + 1
      BY <2>2, <3>1, FS_AddElement
    <3>. QED
      BY <2>2, <2>3, <2>4, <3>2
  <2>6. QCTypeOK'
    BY <1>1, <2>2, <2>3, <2>4 DEF CacheInv, QCTypeOK
  <2>7. OrderListsEntries'
    BY <1>1, <2>2, <2>3, <2>4 DEF OrderListsEntries
  <2>. QED
    BY <1>2, <2>4, <2>5, <2>6, <2>7
<1>. QED
  BY <1>3, <1>4 DEF Put

LEMMA EvaluatedStep ==
    ASSUME CacheInv, NEW g \in Goroutine, Evaluated(g)
    PROVE  CacheInv'
BY DEF CacheInv, QCTypeOK, CacheExact, OrderListsEntries, Evaluated, GoTo

LEMMA QCInductive ==
    ASSUME CacheInv, [QCNext]_qcVars
    PROVE  CacheInv'
<1>1. CASE UNCHANGED qcVars
  BY <1>1 DEF qcVars, CacheInv, QCTypeOK, CacheExact, OrderListsEntries
<1>2. CASE DisableQueryCache
  BY <1>2, FreshCache DEF DisableQueryCache
<1>3. ASSUME NEW n \in Capacities, EnableQueryCache(n)
      PROVE  CacheInv'
  <2>1. capacity' \in Nat \ {0}
    BY <1>3, CapacitiesGiven DEF EnableQueryCache
  <2>. QED
    BY <1>3, <2>1, FreshCache DEF EnableQueryCache
<1>. QED
  BY <1>1, <1>2, <1>3, GetStep, ParseStep, PutStep, EvaluatedStep DEF QCNext

\* QueryContext with a cache evaluates the query it was asked, and the cache lists
\* each text once and keeps to its capacity, however Get and Put interleave.
THEOREM CacheCorrect == QCSpec => []CacheExact
<1>1. CacheInv => CacheExact
  BY DEF CacheInv
<1>. QED
  BY <1>1, QCInitially, QCInductive, PTL DEF QCSpec
=============================================================================
