----------------------------- MODULE TrendFeed -----------------------------
(***************************************************************************)
(* The three trends endpoints: apps/server/src/feeds/trend_feed.rs with    *)
(* trending_statuses.rs, trending_tags.rs and trending_links.rs, the       *)
(* requests to CommonFeed providers behind them (crates/sources), and the  *)
(* offset pages of feeds/engine.rs.                                        *)
(*                                                                         *)
(* A list is cached per set of languages and served while it is there;     *)
(* every hit spawns a task that collects the list anew and stores it, with *)
(* nothing to order or to join these tasks.  Items are numbers, the lower  *)
(* the higher ranked; FeedPipeline has the ranking.                        *)
(***************************************************************************)
EXTENDS SequencesExt, FiniteSetsExt, Sublists

CONSTANTS
    Clients,        \* clients, each of them reading one page after another
    Providers,      \* approved providers with an enabled source of the route
    Filtering,      \* those whose capability lists the language filter
    MaxResults,     \* per provider: its max_results
    PoolSize,       \* MAX_RESULTS or POOL_SIZE: the length of a list
    Languages,      \* sets of languages that requests ask for, each one key
    Speaks,         \* the items: the elements of Languages that each matches
    Offers,         \* per provider: the sets of items it may have to offer
    PageLimit,      \* the items of a page
    MaxJobs,        \* bound on rebuilds under way at once
    MaxChanges,     \* bound on changes of what is on offer
    Disruptions, MaxDisruptions, \* what may go wrong, and how often
    Nothing         \* no list under the key

ASSUME TrendAssumption ==
    /\ Filtering \subseteq Providers /\ Speaks \in Seq(SUBSET Languages)
    /\ Offers \in [Providers -> SUBSET SUBSET DOMAIN Speaks]
    /\ MaxResults \in [Providers -> Nat \ {0}] /\ {PoolSize, PageLimit} \subseteq Nat \ {0}
    /\ {MaxJobs, MaxChanges, MaxDisruptions} \subseteq Nat

VARIABLES
    offer,   \* per provider: what it has to offer
    entry,   \* per key: the cached list or Nothing
    req,     \* per client: its request and the scroll it belongs to
    jobs,    \* the rebuilds under way
    changes, \* changes of the offers so far
    used     \* disruptions so far

trendVars == <<offer, entry, req, jobs, changes, used>>

\* "db": find_sources fails; "provider": requests to providers fail; "redis":
\* an operation on the cache fails or is skipped by the circuit breaker.
Disrupt(d) == d \in Disruptions /\ used < MaxDisruptions /\ used' = used + 1

End == -1   \* no next link
Resting == [pc |-> "idle", lang |-> Nothing, offset |-> 0, list |-> <<>>, bound |-> {},
            next |-> End, shown |-> <<>>, cuts |-> {}]

TrendInit ==
    /\ offer \in [Providers -> UNION {Offers[p] : p \in Providers}]
    /\ \A p \in Providers : offer[p] \in Offers[p]
    /\ entry = [l \in Languages |-> Nothing]
    /\ req = [c \in Clients |-> Resting]
    /\ jobs = {} /\ changes = 0 /\ used = 0

----------------------------------------------------------------------------
Ranking(items) == Ascending[items]
FirstOf(list, n) == SubSeq(list, 1, Min({n, Len(list)}))

\* for_provider: a filter that the provider does not know is left out.
Matching(p, l) == {i \in offer[p] : p \in Filtering => l \in Speaks[i]}
\* fetch_json: the best of what the provider has.
Answered(p, l) == FirstOf(Ranking(Matching(p, l)), Min({PoolSize, MaxResults[p]}))
Fetched(p, l) == ToSet(Answered(p, l))

\* Mutant: the merged list is not cut to the length of the pool.
CollectedAll(answering, l) == Ranking(UNION {Fetched(p, l) : p \in answering})
\* The list made of what the given providers answer.
Collected(answering, l) ==
    FirstOf(Ranking(UNION {Fetched(p, l) : p \in answering}), PoolSize)

\* The providers found, and of those found the ones that answer.
Found(set) ==
    \/ set = Providers /\ UNCHANGED used
    \/ set = {} /\ Disrupt("db")
Answering(set, bound) ==
    \/ set = bound /\ UNCHANGED used
    \/ set \in SUBSET bound \ {bound} /\ Disrupt("provider")

\* cache_key: the languages in alphabetical order.
Key(l) == l

At(c, pc) == req[c].pc = pc

\* A client opens the trends, or follows the link to the next page.  The feed
\* and its sources are made before the cache is asked.
Begin(c, l, offset) ==
    /\ At(c, "idle")
    /\ offset = 0 \/ (offset = req[c].next /\ l = req[c].lang)
    /\ \E set \in {{}, Providers} :
          /\ Found(set)
          /\ req' = [req EXCEPT ![c] =
                [Resting EXCEPT !.pc = "get", !.lang = l, !.offset = offset, !.bound = set,
                                !.shown = IF offset = 0 THEN <<>> ELSE req[c].shown,
                                !.cuts = IF offset = 0 THEN {} ELSE req[c].cuts]]
    /\ UNCHANGED <<offer, entry, jobs, changes>>

Open(c, l) == Begin(c, l, 0)
Follow(c) == req[c].next # End /\ Begin(c, req[c].lang, req[c].next)

\* Mutant: the task stores the list again that was just served.
Restore(l, list) == [lang |-> l, pc |-> "set", list |-> list]
Spawn(l, list) == [lang |-> l, pc |-> "collect", list |-> <<>>]

\* cache.get.  A hit is served, an empty list too, and starts a rebuild.
Get(c) ==
    LET l == req[c].lang  e == entry[Key(l)]
    IN /\ At(c, "get")
       /\ \/ /\ e # Nothing /\ Cardinality(jobs) < MaxJobs
             /\ req' = [req EXCEPT ![c].pc = "page", ![c].list = e]
             /\ jobs' = jobs \cup {Spawn(l, e)} /\ UNCHANGED used
          \/ /\ e = Nothing
             /\ req' = [req EXCEPT ![c].pc = "collect"] /\ UNCHANGED <<jobs, used>>
          \/ /\ e # Nothing /\ Disrupt("redis")
             /\ req' = [req EXCEPT ![c].pc = "collect"] /\ UNCHANGED jobs
       /\ UNCHANGED <<offer, entry, changes>>

Collect(c) ==
    /\ At(c, "collect")
    /\ \E set \in SUBSET Providers :
          /\ Answering(set, req[c].bound)
          /\ req' = [req EXCEPT ![c].pc = "set", ![c].list = Collected(set, req[c].lang)]
    /\ UNCHANGED <<offer, entry, jobs, changes>>

\* cache.set, whatever the list.
Store(l, list) ==
    \/ entry' = [entry EXCEPT ![Key(l)] = list] /\ UNCHANGED used
    \/ UNCHANGED entry /\ Disrupt("redis")

StoreOwn(c) ==
    /\ At(c, "set") /\ Store(req[c].lang, req[c].list)
    /\ req' = [req EXCEPT ![c].pc = "page"]
    /\ UNCHANGED <<offer, jobs, changes>>

\* Mutant: the next page starts one behind the end.
EndPlus(offset, total) == Min({offset + PageLimit + 1, total})
EndOf(offset, total) == Min({offset + PageLimit, total})

\* engine::paginate, the mapping of the page and the Link header.
Page(c) ==
    LET list == req[c].list
        from == Min({req[c].offset, Len(list)})
        to == Min({from + PageLimit, Len(list)})
        end == EndOf(from, Len(list))
    IN /\ At(c, "page")
       /\ req' = [req EXCEPT ![c] =
             [req[c] EXCEPT !.pc = "idle", !.list = <<>>, !.bound = {},
                            !.next = IF end < Len(list) THEN end ELSE End,
                            !.shown = @ \o SubSeq(list, from + 1, to),
                            !.cuts = @ \cup {list}]]
       /\ UNCHANGED <<offer, entry, jobs, changes, used>>

\* A rebuild makes its feed anew, asks the providers, and stores the list.
Rebuild(j) ==
    /\ j.pc = "collect"
    /\ \E bound \in {{}, Providers}, set \in SUBSET Providers :
          /\ \/ Found(bound) /\ set = bound
             \/ bound = Providers /\ set # bound /\ Answering(set, bound)
          /\ jobs' = (jobs \ {j}) \cup
                {[lang |-> j.lang, pc |-> "set", list |-> Collected(set, j.lang)]}
    /\ UNCHANGED <<offer, entry, req, changes>>

StoreRebuilt(j) ==
    /\ j.pc = "set" /\ Store(j.lang, j.list)
    /\ jobs' = jobs \ {j}
    /\ UNCHANGED <<offer, req, changes>>

\* Redis drops an entry when its 60 seconds are over; providers change.
Expire(k) == /\ entry[k] # Nothing
             /\ entry' = [entry EXCEPT ![k] = Nothing]
             /\ UNCHANGED <<offer, req, jobs, changes, used>>
OfferChanges(p) == /\ changes < MaxChanges /\ changes' = changes + 1
                   /\ \E items \in Offers[p] \ {offer[p]} : offer' = [offer EXCEPT ![p] = items]
                   /\ UNCHANGED <<entry, req, jobs, used>>

Proceed(c) == Get(c) \/ Collect(c) \/ StoreOwn(c) \/ Page(c)

TrendNext ==
    \/ \E c \in Clients : (\E l \in Languages : Open(c, l)) \/ Follow(c) \/ Proceed(c)
    \/ \E j \in jobs : Rebuild(j) \/ StoreRebuilt(j)
    \/ \E k \in Languages : Expire(k)
    \/ \E p \in Providers : OfferChanges(p)

TrendSpec == TrendInit /\ [][TrendNext]_trendVars

\* Handlers and spawned tasks run on, each of their requests has a timeout, and
\* people go on opening the trends.
TrendFairSpec ==
    /\ TrendSpec
    /\ \A c \in Clients : WF_trendVars(Proceed(c))
    /\ \A l \in Languages :
          /\ SF_trendVars(\E c \in Clients : Open(c, l))
          /\ WF_trendVars(\E j \in jobs : j.lang = l /\ Rebuild(j))
          /\ WF_trendVars(\E j \in jobs : j.lang = l /\ StoreRebuilt(j))

----------------------------------------------------------------------------
Lists == UNION {[1..n -> UNION UNION {Offers[p] : p \in Providers}] : n \in 0..PoolSize}

TrendTypeOK ==
    /\ \A p \in Providers : offer[p] \in Offers[p]
    /\ entry \in [Languages -> Lists \cup {Nothing}]
    /\ \A c \in Clients :
          /\ req[c].pc \in {"idle", "get", "collect", "set", "page"}
          /\ req[c].list \in Lists /\ req[c].next \in -1..(PoolSize - 1)
          /\ req[c].lang \in Languages \cup {Nothing}
    /\ \A j \in jobs : j.pc \in {"collect", "set"} /\ j.list \in Lists /\ j.lang \in Languages
    /\ Cardinality(jobs) <= MaxJobs /\ changes \in 0..MaxChanges /\ used \in 0..MaxDisruptions

(* As long as the same list was cut into the pages of a scroll, the pages  *)
(* put together are that list: nothing is repeated or left out at the      *)
(* seams, and no next link means that it was read to its end.              *)
ScrollExact ==
    \A c \in Clients : \A list \in req[c].cuts :
        req[c].cuts = {list} /\ At(c, "idle") =>
            /\ req[c].shown = FirstOf(list, Len(req[c].shown))
            /\ req[c].next = End => req[c].shown = list

(* A failed rebuild caches what it got, if need be the empty list, and a   *)
(* slow one overwrites newer lists.  Once the providers keep their offers  *)
(* and nothing fails any more, the trends show them in the end and for     *)
(* good, even where requests keep an entry from expiring.                  *)
Heals == <>[](\A l \in Languages : entry[l] \in {Nothing, Collected(Providers, l)})
=============================================================================
