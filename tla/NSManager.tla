----------------------------- MODULE NSManager -----------------------------
(***************************************************************************)
(* namespace/namespace.go: NSManager, over the prefix tables of            *)
(* store/memory.go. A step is one critical section of the manager's mutex  *)
(* or one call of the store outside it. A URI is known by its namespace    *)
(* (SplitURI); the cache maps it to the prefix it was last given.          *)
(***************************************************************************)
EXTENDS Naturals

CONSTANTS Caller,
          Prefix,       \* prefixes
          UserPrefix,   \* those of them that callers of Bind use
          Generated,    \* Generated[n], a prefix too, is "ns<n>"
          Namespace,
          None,
          MaxCalls      \* calls in total

ASSUME NoneIsNoName == None \notin Prefix /\ None \notin Namespace
ASSUME PrefixesGiven == UserPrefix \subseteq Prefix
ASSUME PrefixesGenerated == DOMAIN Generated \subseteq Nat
                            /\ \A n \in DOMAIN Generated : Generated[n] \in Prefix

VARIABLES nsPrefix,   \* the store: prefix -> namespace
          nsURI,      \* the store: namespace -> prefix
          cache,      \* the manager: namespace of a URI -> prefix
          genID,      \* the last generated number
          pc, arg, got,   \* per caller: where it is, its argument, the prefix it found
          calls

namesVars == <<nsPrefix, nsURI, cache, genID, pc, arg, got, calls>>

NamesInit ==
    /\ nsPrefix = [p \in Prefix |-> None]
    /\ nsURI = [n \in Namespace |-> None]
    /\ cache = [n \in Namespace |-> None]
    /\ genID = 0
    /\ pc = [c \in Caller |-> "idle"]
    /\ arg = [c \in Caller |-> None]
    /\ got = [c \in Caller |-> None]
    /\ calls = 0

\* Mutant: only one of the two maps is written.
StoreBindOneWay(p, n) == UNCHANGED nsPrefix /\ nsURI' = [nsURI EXCEPT ![n] = p]

\* MemoryStore.Bind: two map writes; an older entry of either map stays.
StoreBind(p, n) == /\ nsPrefix' = [nsPrefix EXCEPT ![p] = n]
                   /\ nsURI' = [nsURI EXCEPT ![n] = p]

\* Bind: without override a bound prefix is left alone; a new binding of n
\* drops the cached names of n.
Bind(p, n, override) ==
    \/ ~override /\ nsPrefix[p] # None /\ UNCHANGED <<nsPrefix, nsURI, cache>>
    \/ /\ override \/ nsPrefix[p] = None
       /\ StoreBind(p, n)
       /\ cache' = [cache EXCEPT ![n] = None]

\* ComputeQName: a cache hit returns at once.
Begin(c, n) ==
    /\ pc[c] = "idle"
    /\ arg' = [arg EXCEPT ![c] = n]
    /\ got' = [got EXCEPT ![c] = cache[n]]
    /\ pc' = [pc EXCEPT ![c] = IF cache[n] # None THEN "idle" ELSE "ask"]
    /\ UNCHANGED <<nsPrefix, nsURI, cache, genID>>

\* The store is asked without the manager's lock.
AskStore(c) ==
    /\ pc[c] = "ask"
    /\ got' = [got EXCEPT ![c] = nsURI[arg[c]]]
    /\ pc' = [pc EXCEPT ![c] = IF nsURI[arg[c]] # None THEN "store" ELSE "generate"]
    /\ UNCHANGED <<nsPrefix, nsURI, cache, genID, arg, calls>>

\* The numbers generatePrefix tries, up to the first whose prefix is free.
FreeNumber(n) == n > genID /\ nsPrefix[Generated[n]] = None
FirstFree(n) == FreeNumber(n) /\ \A m \in DOMAIN Generated : FreeNumber(m) => n <= m

\* Mutant: the store is not asked again under the lock.
generatePrefixUnchecked(c) ==
    /\ pc[c] = "generate" /\ pc' = [pc EXCEPT ![c] = "store"]
    /\ \E n \in DOMAIN Generated :
          /\ FirstFree(n) /\ genID' = n
          /\ got' = [got EXCEPT ![c] = Generated[n]]
          /\ StoreBind(Generated[n], arg[c])
    /\ UNCHANGED <<cache, arg, calls>>

\* generatePrefix, under the lock: another caller may have bound a prefix.
generatePrefix(c) ==
    /\ pc[c] = "generate" /\ pc' = [pc EXCEPT ![c] = "store"]
    /\ \/ nsURI[arg[c]] # None /\ got' = [got EXCEPT ![c] = nsURI[arg[c]]]
          /\ UNCHANGED <<nsPrefix, nsURI, genID>>
       \/ /\ nsURI[arg[c]] = None
          /\ \E n \in DOMAIN Generated :
                /\ FirstFree(n) /\ genID' = n
                /\ got' = [got EXCEPT ![c] = Generated[n]]
                /\ StoreBind(Generated[n], arg[c])
    /\ UNCHANGED <<cache, arg, calls>>

\* The prefix found is cached, whatever has been bound since it was found.
StoreName(c) ==
    /\ pc[c] = "store" /\ pc' = [pc EXCEPT ![c] = "idle"]
    /\ cache' = [cache EXCEPT ![arg[c]] = got[c]]
    /\ UNCHANGED <<nsPrefix, nsURI, genID, arg, got, calls>>

ComputeQName(c) == AskStore(c) \/ generatePrefix(c) \/ StoreName(c)

Call(c) == /\ calls < MaxCalls /\ calls' = calls + 1
           /\ \/ \E n \in Namespace : Begin(c, n)
              \/ \E p \in UserPrefix, n \in Namespace, o \in BOOLEAN :
                  Bind(p, n, o) /\ pc[c] = "idle" /\ UNCHANGED <<genID, pc, arg, got>>

\* Every call has returned.
NamesRest == calls = MaxCalls /\ (\A c \in Caller : pc[c] = "idle") /\ UNCHANGED namesVars

NamesNext == NamesRest \/ \E c \in Caller : Call(c) \/ ComputeQName(c)

NamesSpec == NamesInit /\ [][NamesNext]_namesVars
-----------------------------------------------------------------------------
NamesTypeOK ==
    /\ nsPrefix \in [Prefix -> Namespace \cup {None}]
    /\ nsURI \in [Namespace -> Prefix \cup {None}]
    /\ cache \in [Namespace -> Prefix \cup {None}]
    /\ genID \in Nat
    /\ pc \in [Caller -> {"idle", "ask", "generate", "store"}]
    /\ arg \in [Caller -> Namespace \cup {None}]
    /\ got \in [Caller -> Prefix \cup {None}]

\* The prefix that a call returned or is about to cache was bound, to that
\* namespace or by now to another: a qualified name always has a declaration.
NamesAreBound ==
    /\ \A n \in Namespace : cache[n] # None => nsPrefix[cache[n]] # None
    /\ \A c \in Caller : pc[c] = "store" => nsPrefix[got[c]] # None

\* "two callers cannot pick the same prefix" (namespace.go:194-196): a
\* generated prefix never takes away one that is bound to another namespace;
\* only Bind with override does.
StealsNone ==
    \A p \in Prefix : nsPrefix[p] # None /\ nsPrefix'[p] # nsPrefix[p] => genID' = genID

\* Nobody generates a second prefix for a namespace that has one.
GeneratesOnce ==
    genID' # genID => \A n \in Namespace : nsURI[n] # None => nsURI'[n] = nsURI[n]

\* generatePrefix, "the generate-and-bind sequence is atomic" (namespace.go:158):
\* what one caller generates neither takes a prefix from a namespace nor gives
\* a second one to a namespace, whoever binds between its steps.
GeneratedNeverSteals == [][StealsNone /\ GeneratesOnce]_namesVars

\* "rebinding the namespace with override=true must purge the cached entry"
\* (namespace_test.go:340-342): when no call is under way, a cached name has
\* the prefix the namespace is bound to.
CacheFollowsBind ==
    (\A c \in Caller : pc[c] = "idle") =>
        \A n \in Namespace : cache[n] \in {None, nsURI[n]}
=============================================================================
