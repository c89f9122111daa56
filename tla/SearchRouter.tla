----------------------------- MODULE SearchRouter -----------------------------
(***************************************************************************)
(* The router of one listen port with its LRU cache of resolved hosts,     *)
(* src/src/core/search_router.rs, shared by all client tasks of the port.  *)
(* A lookup holds the cache's mutex from the cache probe to the insertion, *)
(* so it is one step.  The LRU policy itself is the `lru` crate's.         *)
(***************************************************************************)
EXTENDS HostRouter

CONSTANTS
    Tasks,     \* client tasks that call find
    Capacity   \* entries the cache may hold (128 in the program)

ASSUME CapacityAssumption == Capacity \in Nat \ {0}

VARIABLES
    shared,   \* SearchRouter::new has returned: the router is in its Arc
    cache,    \* the entries, most recently used first
    answer    \* the last result of find in each task

svars == <<configured, router, shared, cache, answer>>

\* What find computes and caches; index None (0) is a failed lookup.
Resolution(h) == [host |-> h, index |-> Matches(router, h)]

Resolutions == {Resolution(h) : h \in Hosts}

DistinctHosts(entries) ==
    \A i, j \in DOMAIN entries : entries[i].host = entries[j].host => i = j

\* The host has no entry.
IsMiss(entries, h) == \A i \in DOMAIN entries : entries[i].host # h

\* A task that has not called find.
NoAnswer == [host |-> <<>>, index |-> None]

\* Fault: the entry is copied to the front.
PromotedCopy(i) == <<cache[i]>> \o cache

\* LruCache::get of the i-th entry: it becomes the most recently used one.
Promoted(i) == <<cache[i]>> \o RemoveAt(cache, i)

\* Fault: nothing is evicted.
WithEntryGrowing(e) == <<e>> \o cache

\* LruCache::put of a host that is absent: the least recently used entry
\* makes room for it in a full cache.
WithEntry(e) == <<e>> \o (IF Len(cache) < Capacity THEN cache ELSE Front(cache))

-----------------------------------------------------------------------------
SearchInit ==
    /\ Init
    /\ shared = FALSE
    /\ cache = <<>>
    /\ answer = [t \in Tasks |-> NoAnswer]

\* Fault: patterns are added to a router that tasks already use.
BuildLate(p) ==
    /\ Configure(p)
    /\ UNCHANGED <<shared, cache, answer>>

\* SearchRouter::new adds the patterns of the port one after the other.
Build(p) ==
    /\ ~shared
    /\ Configure(p)
    /\ UNCHANGED <<shared, cache, answer>>

\* SearchRouter::new returns.
Share ==
    /\ ~shared
    /\ shared' = TRUE
    /\ UNCHANGED <<configured, router, cache, answer>>

\* Fault: the entry at the front is answered before the promotion.
FindFront(t, h) ==
    /\ shared
    /\ \E i \in DOMAIN cache :
          /\ cache[i].host = h
          /\ cache' = Promoted(i)
          /\ answer' = [answer EXCEPT ![t] = [host |-> h, index |-> cache[1].index]]
    /\ UNCHANGED <<configured, router, shared>>

\* find of a cached host.
FindCached(t, h) ==
    /\ shared
    /\ \E i \in DOMAIN cache :
          /\ cache[i].host = h
          /\ cache' = Promoted(i)
          /\ answer' = [answer EXCEPT ![t] = cache[i]]
    /\ UNCHANGED <<configured, router, shared>>

\* find of a host that is not cached: a host without a route is cached too.
FindResolved(t, h) ==
    /\ shared
    /\ IsMiss(cache, h)
    /\ cache' = WithEntry(Resolution(h))
    /\ answer' = [answer EXCEPT ![t] = Resolution(h)]
    /\ UNCHANGED <<configured, router, shared>>

Find(t, h) == FindCached(t, h) \/ FindResolved(t, h)

SearchNext ==
    \/ \E p \in Patterns : Build(p)
    \/ Share
    \/ \E t \in Tasks, h \in Hosts : Find(t, h)

SearchSpec == SearchInit /\ [][SearchNext]_svars

-----------------------------------------------------------------------------
\* Whatever the mix of hits, misses and evictions, the cache stays within its
\* capacity and never holds a host twice, so that every host has one result
\* (search_router.rs:49-54).
CacheIsBounded ==
    /\ Len(cache) <= Capacity
    /\ DistinctHosts(cache)

\* A cached result is what the router would resolve now: nothing is cached
\* before the last pattern is added, and a promotion or an eviction never
\* pairs a host with another host's result (search_router.rs:47-57).
CacheIsCoherent ==
    \A i \in DOMAIN cache : cache[i].index = Matches(router, cache[i].host)

\* Whichever tasks raced for the cache before, what find last told a task is
\* the route of the host it asked for (search_router.rs:49-56).
AnswersAreRoutes ==
    \A t \in Tasks : answer[t].host # <<>> =>
        answer[t].index = Matches(router, answer[t].host)

\* The inductive invariant of SearchRouterProofs: every entry is the
\* resolution of its host.
CacheInv ==
    /\ shared \in BOOLEAN
    /\ cache \in Seq(Resolutions)
    /\ CacheIsBounded
    /\ ~shared => cache = <<>> /\ answer = [t \in Tasks |-> NoAnswer]
    /\ answer \in [Tasks -> Resolutions \cup {NoAnswer}]
=============================================================================
