------------------------------ MODULE HomeFeed ------------------------------
(***************************************************************************)
(* The home timeline of one user, apps/server/src/feeds/home.rs, with the  *)
(* list of seen posts of feeds/seen.rs.  The ranked pool and the seen list *)
(* are two cache entries that requests of the user (another tab, a retry,  *)
(* a client that prefetches) read and write without a lock, and each is    *)
(* read some awaits before what was computed from it is written back.      *)
(*                                                                         *)
(* A post stands for its URI.  An absent cache entry, an empty one and a   *)
(* get that fails are all treated alike by the code: the empty sequence.   *)
(* The pipeline's outcome is the ranking it offers at the time, see        *)
(* FeedPipeline, whose PreferredCopy is RankingAssumption.                    *)
(***************************************************************************)
EXTENDS Sublists

CONSTANTS
    Requests,       \* requests of the user that can be under way at once
    Posts,
    Network,        \* the posts of the group in RELOAD_BYPASSES_SEEN
    Rankings,       \* what the pipeline may come to offer
    Blockable,      \* posts of authors whom the user may come to block
    Limits,         \* params.limit, clamped to 1..40
    Reloads,        \* whether max_id may be absent, present, or either
    Cap,            \* CAP of the seen list
    Disruptions,    \* what may go wrong, see Disrupt
    MaxDisruptions  \* how often, all kinds together

ASSUME RankingAssumption ==
    /\ IsFiniteSet(Posts) /\ Network \cup Blockable \subseteq Posts
    /\ \A ranking \in Rankings : /\ ranking \in Seq(Posts)
                                 /\ \A i, j \in DOMAIN ranking :
                                       ranking[i] = ranking[j] => i = j

ASSUME HomeAssumption ==
    /\ Limits \subseteq Nat \ {0} /\ Reloads \subseteq BOOLEAN
    /\ Cap \in Nat \ {0} /\ MaxDisruptions \in Nat

VARIABLES
    offer,     \* the ranking the pipeline would collect now, but for the policy
    blocked,   \* posts of authors that the user has blocked
    pool,      \* the cache entry home:<user>
    seen,      \* the cache entry home_seen:<user>
    req,       \* per request: where it is, and its local variables
    log,       \* history: the last Cap posts chosen for a page, while Undisturbed
    delivered, \* history: every post that was ever answered
    lost,      \* history: posts marked as seen whose answer was never given
    used,      \* disruptions so far
    faults     \* those of their kinds that the properties tell apart

trouble == <<used, faults>>
vars == <<offer, blocked, pool, seen, req, log, delivered, lost, trouble>>

Elements(s) == {s[i] : i \in DOMAIN s}

Idle == [pc |-> "idle", reload |-> FALSE, limit |-> 1, policy |-> {}, list |-> <<>>,
         known |-> {}, chosen |-> <<>>, answer |-> <<>>, prev |-> <<>>,
         offers |-> {}]

\* "get" and "set": the cache call fails, or the breaker swallows it;
\* "policy": policy::load fails, which is taken for an empty policy;
\* "poolExpires", "seenExpires": a TTL ends; "statuses": to_statuses fails;
\* "gone": it no longer finds some posts; "cancel": the client hangs up.
\* An overlap of two requests is noted like them, but costs nothing.
ToldApart == {"overlap", "policy", "get", "set", "seenExpires"}
Suffer(kinds) ==
    /\ kinds \ {"overlap"} \subseteq Disruptions
    /\ used' = used + Cardinality(kinds \ {"overlap"}) /\ used' <= MaxDisruptions
    /\ faults' = faults \cup (kinds \cap ToldApart)
Disrupt(d) == Suffer({d})

\* Requests came one after the other, and the seen list was kept.
Undisturbed == faults \cap {"overlap", "get", "set", "seenExpires"} = {}

Init ==
    /\ offer \in Rankings
    /\ blocked = {} /\ pool = <<>> /\ seen = <<>>
    /\ req = [r \in Requests |-> Idle]
    /\ log = <<>> /\ delivered = {} /\ lost = {}
    /\ used = 0 /\ faults = {}

\* Mutant: the bypass applies to scrolling too.
KeepNetwork(list, reload, known) ==
    Only(list, {p \in Posts : p \in Network \/ p \notin known})

\* The closure keep of serve, followed by take(limit).
Keep(list, reload, known) ==
    Only(list, {p \in Posts : (reload /\ p \in Network) \/ p \notin known})
Slice(list, q) ==
    LET kept == Keep(list, q.reload, q.known)
    IN SubSeq(kept, 1, IF Len(kept) < q.limit THEN Len(kept) ELSE q.limit)

\* Mutant: one too many is left.
NewestPlus(s) == IF Len(s) > Cap THEN SubSeq(s, Len(s) - Cap, Len(s)) ELSE s

\* What extend leaves of a list that has grown beyond CAP.
Newest(s) == IF Len(s) > Cap THEN SubSeq(s, Len(s) - Cap + 1, Len(s)) ELSE s

----------------------------------------------------------------------------
\* What a cache get returns, and what a set leaves in the entry.
Got(entry, value) == \/ value = entry /\ UNCHANGED trouble
                     \/ value = <<>> /\ Disrupt("get")
Stored(entry, value, result) == \/ result = value /\ UNCHANGED trouble
                                \/ result = entry /\ Disrupt("set")

\* policy::load, and what an error leaves of it.
Policy(policy, failed) ==
    \/ policy = blocked /\ failed = {}
    \/ policy = {} /\ failed = {"policy"}

\* A request comes in: HomeFeed::new loads the policy.
Alone(r) == \A q \in Requests \ {r} : req[q].pc = "idle"
Request(r) ==
    /\ req[r].pc = "idle"
    /\ \E reload \in Reloads, limit \in Limits, policy \in {blocked, {}},
          failed \in SUBSET {"policy"} :
          /\ Policy(policy, failed)
          /\ Suffer(failed \cup (IF Alone(r) THEN {} ELSE {"overlap"}))
          /\ req' = [req EXCEPT ![r] =
                [@ EXCEPT !.pc = "pool", !.reload = reload, !.limit = limit,
                          !.policy = policy, !.offers = {offer}]]
    /\ UNCHANGED <<offer, blocked, pool, seen, log, delivered, lost>>

\* load_pool asks the cache for the pool.
LoadPool(r) ==
    /\ req[r].pc = "pool"
    /\ \E hit \in {pool, <<>>} :
          /\ Got(pool, hit)
          /\ req' = [req EXCEPT ![r] =
                [@ EXCEPT !.pc = IF hit = <<>> THEN "build" ELSE "seen", !.list = hit]]
    /\ UNCHANGED <<offer, blocked, pool, seen, log, delivered, lost>>

\* Mutant: the policy is left to whoever serves the pool.
CollectedRaw(r) == offer
\* What the pipeline with its policy filter collects.
Collected(r) == Only(offer, Posts \ req[r].policy)

\* rebuild_pool, called by load_pool and by serve, first collects.
Collect(r) ==
    /\ req[r].pc \in {"build", "rebuild"}
    /\ req' = [req EXCEPT ![r] =
          [@ EXCEPT !.pc = IF req[r].pc = "build" THEN "store" ELSE "restore",
                    !.list = Collected(r)]]
    /\ UNCHANGED <<offer, blocked, pool, seen, log, delivered, lost, trouble>>

\* Then it caches what was collected, which may be older than the pool by now,
\* or older than a block.
Store(r) ==
    /\ req[r].pc = "store"
    /\ Stored(pool, req[r].list, pool')
    /\ req' = [req EXCEPT ![r].pc = "seen"]
    /\ UNCHANGED <<offer, blocked, seen, log, delivered, lost>>

\* seen::load, and the first choice out of the pool.
LoadSeen(r) ==
    /\ req[r].pc = "seen"
    /\ \E got \in {seen, <<>>} :
          /\ Got(seen, got)
          /\ LET q == [req[r] EXCEPT !.known = Elements(got)]
             IN \E chosen \in {Slice(q.list, q)} :
                   req' = [req EXCEPT ![r] =
                      [q EXCEPT !.pc = IF chosen = <<>> THEN "rebuild" ELSE "render",
                                !.chosen = chosen]]
    /\ UNCHANGED <<offer, blocked, pool, seen, log, delivered, lost>>

\* Mutant: load_pool instead of rebuild_pool.
Reload(r) ==
    /\ req[r].pc = "restore"
    /\ req' = [req EXCEPT ![r] = [@ EXCEPT !.pc = "render", !.list = pool,
                                           !.chosen = Slice(pool, req[r])]]
    /\ UNCHANGED <<offer, blocked, pool, seen, log, delivered, lost, trouble>>

\* Nothing unseen was left in the pool: the new one is cached and chosen from,
\* with the seen list as it was read before.
Restore(r) ==
    /\ req[r].pc = "restore"
    /\ Stored(pool, req[r].list, pool')
    /\ req' = [req EXCEPT ![r] = [@ EXCEPT !.pc = "render",
                                           !.chosen = Slice(req[r].list, req[r])]]
    /\ UNCHANGED <<offer, blocked, seen, log, delivered, lost>>

\* to_statuses.  Its error is logged and answered with an empty page, and
\* posts it does not find are left out of the page.  The pool and the seen set
\* are not used any more.
Rendered(q, answer) ==
    \/ answer = q.chosen /\ UNCHANGED trouble
    \/ answer = <<>> /\ q.chosen # <<>> /\ Disrupt("statuses")
    \/ /\ Disrupt("gone")
       /\ \E gone \in SUBSET Elements(q.chosen) \ {{}} : answer = Only(q.chosen, Posts \ gone)

Render(r) ==
    /\ req[r].pc = "render"
    /\ \E answer \in {Only(req[r].chosen, kept) : kept \in SUBSET Elements(req[r].chosen)} :
          /\ Rendered(req[r], answer)
          /\ req' = [req EXCEPT ![r] = [@ EXCEPT !.pc = "load", !.answer = answer,
                                                 !.list = <<>>, !.known = {},
                                                 !.policy = {}, !.limit = 1]]
    /\ UNCHANGED <<offer, blocked, pool, seen, log, delivered, lost>>

\* Mutant: the posts are marked while the page may still be lost.
MarkSeen(r) ==
    /\ req[r].pc = "load"
    /\ seen' = Newest(seen \o req[r].chosen)
    /\ req' = [req EXCEPT ![r] = IF @.chosen = <<>> THEN Idle
                                 ELSE [@ EXCEPT !.pc = "extend", !.prev = seen]]
    /\ UNCHANGED <<offer, blocked, pool, log, delivered, lost, trouble>>

\* seen::extend returns at once when nothing was chosen; otherwise it first
\* reads the list again.
ReadSeen(r) ==
    /\ req[r].pc = "load"
    /\ IF req[r].chosen = <<>>
       THEN req' = [req EXCEPT ![r] = Idle] /\ UNCHANGED trouble
       ELSE \E got \in {seen, <<>>} :
               /\ Got(seen, got)
               /\ req' = [req EXCEPT ![r] = [@ EXCEPT !.pc = "extend", !.prev = got,
                                                      !.offers = {}]]
    /\ UNCHANGED <<offer, blocked, pool, seen, log, delivered, lost>>

\* The set of seen::extend takes effect.  The handler still waits for it, so
\* nothing was answered yet; posts that to_statuses did not find never will be.
Extend(r) ==
    /\ req[r].pc = "extend"
    /\ Stored(seen, Newest(req[r].prev \o req[r].chosen), seen')
    /\ log' = IF Undisturbed THEN Newest(log \o req[r].chosen) ELSE <<>>
    /\ lost' = lost \cup ((Elements(req[r].chosen) \cap Elements(seen'))
                             \ Elements(req[r].answer))
    /\ req' = [req EXCEPT ![r] =
          [Idle EXCEPT !.pc = "answer", !.chosen = req[r].chosen,
                       !.answer = req[r].answer, !.prev = seen']]
    /\ UNCHANGED <<offer, blocked, pool, delivered>>

\* The handler goes on and returns the page.
Answer(r) ==
    /\ req[r].pc = "answer"
    /\ delivered' = delivered \cup Elements(req[r].answer)
    /\ req' = [req EXCEPT ![r] = Idle]
    /\ UNCHANGED <<offer, blocked, pool, seen, log, lost, trouble>>

----------------------------------------------------------------------------
\* The page is chosen, or there is none.
Served == {"idle", "extend", "answer"}

\* New posts, votes and follows change what the pipeline would rank.
NewOffer ==
    /\ offer' \in Rankings
    /\ req' = [r \in Requests |->
          IF req[r].pc \in Served THEN req[r]
          ELSE [req[r] EXCEPT !.offers = @ \cup {offer'}]]
    /\ UNCHANGED <<blocked, pool, seen, log, delivered, lost, trouble>>

\* The user blocks an author.
Block == /\ \E p \in Blockable \ blocked : blocked' = blocked \cup {p}
         /\ UNCHANGED <<offer, pool, seen, req, log, delivered, lost, trouble>>

PoolExpires == /\ pool # <<>> /\ pool' = <<>> /\ Disrupt("poolExpires")
               /\ UNCHANGED <<offer, blocked, seen, req, log, delivered, lost>>
SeenExpires == /\ seen # <<>> /\ seen' = <<>> /\ Disrupt("seenExpires")
               /\ UNCHANGED <<offer, blocked, pool, req, log, delivered, lost>>

\* What a request has marked as seen and is about to answer.
Pending(r) == IF req[r].pc = "answer"
              THEN Elements(req[r].answer) \cap Elements(req[r].prev) ELSE {}

\* The connection closes: the handler's future is dropped at an await.  If that
\* is the one for the set of seen::extend, the posts marked by it are lost.
Cancel(r) ==
    /\ req[r].pc # "idle" /\ Disrupt("cancel")
    /\ lost' = lost \cup Pending(r)
    /\ req' = [req EXCEPT ![r] = Idle]
    /\ UNCHANGED <<offer, blocked, pool, seen, log, delivered>>

Serve(r) == Request(r) \/ LoadPool(r) \/ Collect(r) \/ Store(r) \/ LoadSeen(r)
            \/ Restore(r) \/ Render(r) \/ ReadSeen(r) \/ Extend(r) \/ Answer(r)

Next == (\E r \in Requests : Serve(r) \/ Cancel(r))
        \/ NewOffer \/ Block \/ PoolExpires \/ SeenExpires

Spec == Init /\ [][Next]_vars

\* The server works on a request until it is answered, and the user asks on.
FairSpec == Spec /\ \A r \in Requests : WF_vars(Serve(r))

----------------------------------------------------------------------------
Pcs == {"idle", "pool", "build", "store", "seen", "rebuild", "restore", "render",
        "load", "extend", "answer"}
Lists == UNION {[1..n -> Posts] : n \in 0..Cardinality(Posts)}

TypeOK ==
    /\ offer \in Rankings /\ pool \in Lists /\ blocked \subseteq Blockable
    /\ Elements(seen) \subseteq Posts /\ Len(seen) <= Cap
    /\ \A r \in Requests :
          /\ req[r].pc \in Pcs /\ req[r].limit \in Limits \cup {1}
          /\ req[r].list \in Lists /\ req[r].policy \subseteq blocked
          /\ req[r].known \subseteq Posts
          /\ req[r].chosen \in Lists
          /\ req[r].chosen = <<>> \/ \E n \in Limits : Len(req[r].chosen) <= n
          /\ Elements(req[r].answer) \subseteq Elements(req[r].chosen)
    /\ used \in 0..MaxDisruptions /\ faults \subseteq ToldApart

(* Scrolling does not repeat: as long as the user's requests come one      *)
(* after the other and the cache keeps the seen list, a scroll answers     *)
(* none of the last Cap posts chosen for a page, over reloads, rebuilt and *)
(* expired pools, failed pages and requests given up halfway.              *)
NoRepeat ==
    Undisturbed =>
        \A r \in Requests : req[r].pc = "extend" /\ ~req[r].reload =>
            Elements(req[r].answer) \cap Elements(log) = {}

Answering == UNION {Pending(r) : r \in Requests}
Spent == delivered \cup lost \cup Answering

(* A post is only withheld because it was answered or is about to be, but  *)
(* for two losses: its status was not found when it was chosen, or the     *)
(* client hung up on the very last await.  Hanging up anywhere before,     *)
(* overlapping requests and a cache that fails or forgets cost nothing.    *)
SeenWasDelivered ==
    /\ Elements(seen) \subseteq Spent
    /\ \A r \in Requests : req[r].known \subseteq Spent

(* A client takes an empty page for the end of the timeline.  Nothing is   *)
(* chosen for a page only when a ranking offered while the request was     *)
(* served held nothing that was not answered before, is about to be, was   *)
(* lost or is blocked, however old the pool is.                            *)
EmptyOnlyIfExhausted ==
    \A r \in Requests : req[r].pc = "load" /\ req[r].chosen = <<>> =>
        \E o \in req[r].offers : Elements(o) \ blocked \subseteq Spent

\* Where a request may yet collect a ranking.
Collecting == {"pool", "build", "store", "seen", "rebuild"}

Circulates(p) ==
    \/ p \in Elements(pool)
    \/ \E r \in Requests :
          \/ p \in Elements(req[r].list) \cup Elements(req[r].chosen)
          \/ req[r].pc \in Collecting /\ p \notin req[r].policy

(* A block takes effect late, because the pool is cached and requests keep *)
(* the policy they began with, but for good: once neither the pool nor a   *)
(* request has a post of the author, no request brings one back, whether   *)
(* pools are rebuilt, written late or expire, unless a policy fails to     *)
(* load.                                                                   *)
BlocksLast ==
    [][\A p \in blocked : ~Circulates(p) /\ "policy" \notin faults' => ~Circulates(p)']_vars

(* A user who scrolls on comes to see every post the pipeline goes on      *)
(* offering, whatever the age of the pool the scroll began in, provided    *)
(* the seen list has room for all of them, and unless the post is lost.    *)
EventuallyShown ==
    Cap >= Cardinality(Posts) => \A p \in Posts :
        p \in Elements(offer) ~> p \in delivered \cup blocked \cup lost
                                \/ p \notin Elements(offer)
=============================================================================
