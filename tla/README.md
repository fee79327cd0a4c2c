# Fediway in TLA+

Fediway puts a ranking server in front of a Mastodon instance. A Rust server
(`apps/server`) answers the timelines, trends and statuses that Mastodon's
clients ask for and forwards the rest to Mastodon; a worker (`workers/orbit`)
turns the engagements of local users into vectors; a command line tool
(`apps/cli`) registers *providers*, remote services that offer posts. All of
them share the PostgreSQL database of Mastodon, with tables of their own beside
Mastodon's, and Redis.

This directory holds TLA+ models of the parts whose correctness depends on the
order of things: what a crash leaves behind, which of two requests reads first,
what a failed call has already changed. Paths below are relative to the
repository.

- [1. The system](#1-the-system)
- [2. What is hard](#2-what-is-hard)
- [3. Modules and the code](#3-modules-and-the-code)
- [4. Runs](#4-runs)
- [5. Fairness](#5-fairness)
- [6. Theorems](#6-theorems)
- [7. Where code and documentation disagree](#7-where-code-and-documentation-disagree)
- [8. Not modelled](#8-not-modelled)
- [9. Plan](#9-plan)

## 1. The system

| component | source | state it keeps | operations | correct when |
|---|---|---|---|---|
| orbit worker | `workers/orbit`, `crates/state/src/orbit.rs` | tables `orbit_cursors` and `orbit_user_vectors`, written by separate statements; the batch of a cycle in memory | start, `--fresh` wipe, `init_cursors`, `poll_cycle` (poll, embed, load vectors, upsert, save cursors), ctrl-c | no engagement is lost or folded twice, folds keep the order of the engagements |
| feed pipeline | `crates/feed`, `policy_filter.rs` | the candidate vector of one run | collect from sources concurrently, fall back, `Dedup`, `PolicyFilter`, `Diversity`, `TopK`/`QuotaSampler` | no duplicates, quotas kept, nothing dropped, best first |
| cache and breaker | `crates/state/src/cache.rs` | two atomics shared by all tasks | `get`, `set`, record of success and failure | a dead Redis is left alone, a live one is used again |
| home timeline | `apps/server/src/feeds/home.rs`, `seen.rs` | the cache entries `home:<user>` and `home_seen:<user>` | `serve`: load or build the pool, read seen, slice, rebuild, render, extend seen | a scroll does not repeat, nothing is withheld unseen, an empty page means the end |
| resolver | `apps/server/src/mastodon/resolve.rs`, `routes/mastodon/statuses.rs`, `engagements.rs`, `crates/state/src/statuses/mapping.rs` | the map of searches under way; the column `mastodon_local_id` | resolve (single flight), search, store, forward, clear on 404 | one search per post, all callers answered, the mapping follows Mastodon |
| write routing | `middleware/mastodon_fallback.rs`, `routes/mastodon` (`engagements.rs`, `create_status.rs`, `create_report.rs`, `error.rs`), `mastodon/forward.rs`, `translate.rs` | none | handle a write, translating the ids in it and in the answer, or pass it on to Mastodon when the handlers do not know the route | a write is performed at most once, the client is told the truth about it, ids keep what they mean |
| id translation and page assembly | `mastodon/statuses.rs`, `crates/state/src/statuses`, `routes/mastodon/statuses.rs` | the table `commonfeed_statuses`: a snowflake per copy of a post, with Mastodon's id once it is resolved | `to_statuses`, `from_posts`, `map_posts`, `paginate`; the context of a status: ancestors, descendants (at most 5 pages), translation | a snowflake means one post for good, a page follows its ranking, a scroll ends |
| trends | `feeds/trend_feed.rs`, `trending_*.rs`, `engine.rs` | a cached list per set of languages, served while a task rebuilds it | serve or collect, rebuild, cut by offset | the pages of a list fit together, a failed rebuild is made good |
| tag and link timelines | `feeds/timeline_feed.rs`, `tag_timeline.rs`, `link_timeline.rs` | none | rank anew, assemble, cut below `max_id` | see page assembly |
| provider registry | `apps/cli`, `crates/state/src/providers`, `routes/commonfeed` | the tables of providers (with the registration's key and status), of their capabilities and of the sources enabled per route | add, register, poll status, approval callback, verify, enable, disable | no status without a key, no approval of another key than the stored one, the row comes to show the provider's decision |
| authentication, policy, language | `auth.rs`, `crates/state/src/policy.rs`, `language.rs` | none | token and block list lookups | guards of the handlers above |
| candidate sources | `crates/sources` | none | requests to providers and SQL over Mastodon's tables | conversions of rows |
| entities, configuration, start-up, metrics | `crates/mastodon`, `crates/common`, `crates/config`, `main.rs`, `state.rs` | none | serialisation, parsing, logging | - |

How they interact: the worker's vectors make up one of the quotas of the home
pipeline. The home timeline runs the pipeline (`engine.rs`) and keeps its
outcome in the cache; every cache call goes through the breaker, so a cache
failure reaches the home timeline as an absent entry, which is how `HomeFeed`
models it. A rendered page (`to_statuses`) creates the rows (`map_posts`) that
the resolver and the status handlers later find. The handlers share the
resolver's map of flights within the process and `mastodon_local_id` across
processes; a search, a 404 of Mastodon and a refresh change the rows while
other requests translate by them. A write of a client passes the middleware
twice: on its way in, to have its body kept, and on its way out, where a 404 or
405 of the inner router, or of a handler, sends it on to Mastodon. The CLI and the server share the provider tables.

## 2. What is hard

`PROJECT.json` lists each hazard at its line with the properties that watch it.
They come in a few kinds.

- **Two durable writes that are not one.** The worker upserts a vector per
  account and then saves a cursor per source; each can fail alone, and the
  process can die in between.
- **Failures that are logged and passed over.** `upsert_vector`, `save_cursor`,
  a failing chunk of embeddings, `cache.set`, `clear_mastodon_local_id`,
  `to_statuses`: all return nothing the caller looks at.
- **Read, await, write.** The seen list, the cached pool, the breaker's counter
  and its deadline, and the resolver's map are read before an await or an
  unlock and written after it, without comparing.
- **Futures that are dropped.** axum drops a handler when the client hangs up:
  a search stays halted in the map, a chosen page is never marked, or marked and
  never answered.
- **Two clocks of ids.** Ids are drawn before a row commits, so a row can appear
  behind a cursor; favourites, bookmarks and statuses have separate sequences.
- **Writes that go by less than they were decided on.** `update_status` names the
  provider and not the key the status is about, `enable_source`'s conflict target
  leaves out the resource, a waiter removes whatever flight is under its key.
- **One status code, two meanings.** A 404 says that no handler knows the route,
  that a post cannot be resolved, and that Mastodon does not know it. The
  middleware sees the number only, after the handler may have sent something.
- **A page from several statements.** `to_statuses` reads which posts are
  resolved, then statuses, their flags and the snowflakes in statements of
  their own; others change the rows in between, and each may fail alone.
- **Links into lists that change.** Both kinds of next link (an offset, the id of
  the last status) lead into a list that is collected or ranked anew.
- **Served while rebuilt.** Every hit of a trends list spawns a task that will
  overwrite the entry with whatever it got, in any order.
- **A vector that is reordered while it is sampled.** `swap_remove` moves the
  last candidate to the hole, quotas and ties are decided on what is left.

## 3. Modules and the code

`PROJECT.json`, "map", names the lines of every definition. Definitions whose
comment starts with "Mutant" are not part of a specification: each is a wrong
version of the operator below it, the kind of slip the property named in
PROJECT.json, "mutants", must notice.

Modules that let things go wrong count it: `used` is the number of disruptions
so far, at most `MaxDisruptions`, and `faults` (`Orbit`, `HomeFeed`, `ProviderRegistry`) the kinds
that have happened. A guarantee that a kind of failure voids is stated as
`faults \cap {...} = {} => ...`: it must hold in every behaviour until one of
these kinds has really happened, in the presence of all others.

### Orbit (`Orbit.tla`, `MCOrbit.tla`, `OrbitProofs.tla`)

One process and two tables. `pc` walks through the code: `Start` (`main`),
`WipeCursors`, `WipeVectors` (`--fresh`), `InitCursor` once per source,
then `LoadCursors`, `Poll`, `Embed`, `LoadVectors`, `Upsert(a)` for each account
in any order (a `HashMap` is iterated) and `SaveCursor` once per source, in the
order of `init_cursors`. `Crash` may happen at any step; `Stop` (ctrl-c) only
between cycles, because the worker `select`s on it there.

Each poll returns the first `BatchSize` visible rows past the loaded cursor;
batches are merged in the order of `sort_by_key(created_at)`, which is stable
over the four polls. Texts are embedded in chunks of `TeiBatch`, a chunk fails
as a whole, and an engagement is folded if its text has an embedding. The
vector arithmetic is abstracted to the set of `<<row, n>>`, "row was the n-th
fold": the moving average is determined by that sequence. `base` is a history
variable: where `init_cursors` placed the cursor of a source.

`Commit` is Mastodon: rows become visible in any order of tables, and also
behind a row with a higher id of the same table if "late" is allowed. A failing
load of cursors skips the cycle and changes nothing, so it is a stutter.

### FeedPipeline (`FeedPipeline.tla`, `MCFeedPipeline.tla`, `FeedProofs.tla`)

One run of `Pipeline::execute`. `built` is the pipeline a builder made. Sources
answer one by one in any order (`Arrive`, `join_all`); `Gather` concatenates in
the order of the sources and goes to the fallback sources when fewer than
`limit / 2` candidates came; `Rank` is the synchronous part, dedup, policy
filter and diversity; `Pick` is one turn of the sampler's loop with its
`swap_remove`, `Finish` its end. Scores are integers in hundredths and deficits
are exact fractions instead of f64 (see the module's comment).
Most builders deduplicate; the link timeline does not (`dedup`).

### CacheBreaker (`CacheBreaker.tla`, `MCCacheBreaker.tla`, `HomeFeedProofs.tla`)

Tasks that each do `get` or `set` again and again: `Send` tests `is_open`,
`Succeed` and `Fail` record the outcome, `Trip` is the store of
`skip_until_unix` that follows the `fetch_add` in a step of its own. The
deadline is held as the seconds left. The counter saturates at `MaxFailures`,
beyond the threshold its value decides nothing.

### HomeFeed (`HomeFeed.tla`, `MCHomeFeed.tla`, `HomeFeedProofs.tla`)

Requests of one user, each with the local variables of `serve`. An action ends
at an await: `Request` (`HomeFeed::new`, which loads the policy), `LoadPool`,
`Collect` and `Store` (`rebuild_pool`), `LoadSeen`, `Collect` again and `Restore`
if nothing unseen was left, `Render` (`to_statuses`), `ReadSeen` and `Extend` (the
get and the set of `seen::extend`), and `Answer`. The set is still awaited before
the page goes out: posts can be marked whose page nobody gets. `lost` is the
history of posts that were marked and never answered, be it for this or because
`to_statuses` did not find them; `Pending` are those marked and about to be
answered, and `Spent` is all that a later request may withhold. A pool is built under the policy the
request began with (`Policy`, `Collected`) and cached for all. `NewOffer` changes
what the pipeline would rank, `Block` is the user blocking an author; entries
expire; cache calls fail; the policy fails to load, and a pool is then built
without one; `to_statuses` fails or no longer finds posts; `Cancel` drops the
request at any await, the one between `Extend` and `Answer` included. What a request no longer uses is reset at once, so that
states do not differ by dead variables.

### Resolver (`Resolver.tla`, `MCResolver.tla`, `ResolverProofs.tla`)

Callers about one post. `Open` and `Engage` are the handlers, `Lookup` the read
of the row, `Join` the critical section under the map's lock, `Wake` and
`Remove` the end of `resolve`. A search is a `Shared` future: `Search` and
`Store` need a caller that polls it, `Answer` (Mastodon) does not. A search
whose callers are all gone stays in the map, halted, and goes on when the next
caller joins. `Forward` asks Mastodon about the copy; its 404 leads `detail` and
`context` to `Clear`. `Mapped`, `CopyDropped` and `Cached` are the rest of the
world: a feed maps the post, Mastodon drops its copy, the provider withdraws
the post. `hasUri` is fixed from the start, since no upsert of an existing row
sets `post_uri`: without one the search ends before it asks Mastodon.

### ProviderRegistry (`ProviderRegistry.tla`, `MCProviderRegistry.tla`, `ProviderRegistryProofs.tla`)

One provider's row, the capabilities it published and the sources enabled from
it; rows of different providers never meet. Three parties change or read them
statement by statement:

- `feedctl` processes (`shell`). Each command that talks to a provider begins with
  `sync_provider`: `Begin` (upsert of the row), `UpsertCapability` once per
  capability. `register` goes on with `Post` (the provider issues a key) and
  `Save`; `status` with `Find`, `Ask` and `Update`. `Enable` and `Disable` are one
  statement each. `Abort` ends a command after any statement: nothing is rolled
  back, because nothing is in a transaction.
- The server's handlers. `Receive` and `Write` are the two statements of the
  callback: read the key and check the signature, then `update_status`. `Verify`
  is the lookup of the verify path.
- The provider (`Post`, `Ask`, `Decide`), external. `grants` is its own view: the
  status of each key it issued. It approves after a successful verification, may
  refuse, may change its mind from refusal to approval, and withdraws an approval
  only as the disruption "revoke". Every decision puts a callback into `callbacks`,
  a set: callbacks arrive in any order, some never (nothing makes them arrive),
  and again as the disruption "again".

A signature is right if and only if it was made with the stored key. `overlap` in
`faults` is not a failure but a note: a registration was saved while another
operation stood between reading the key and writing the status.

### WriteRouting (`WriteRouting.tla`, `Delivery.tla`, `MCWriteRouting.tla`, `WriteRoutingProofs.tla`)

A write of a client from the middleware to the answer. `Receive` is what comes
before a handler's own steps: buffering, the choice of the route, the account,
the parsing of the body. `Resolve` translates one id of the request (an
engagement has one, in its path; a new status or a report those in its body),
`Forward` sends the handler's message, `Render` translates the answer, `Fall` is
the middleware's look at the status code, `Proxy` and `Pass` the message it
sends itself and the answer's way to the client. The resolver's search is one
step here, with the errors it may end in; `Resolver` has its steps. The rows of
`Uriless` have no `post_uri`, the column's default: the resolver answers `NotFound`
for them as it does for a row that is gone, and the callers pass the snowflake on. Of the six
engagements two are told apart, because a reblog is answered with a new status.
Meanwhile `RowChanges` and `CopyChanges` are the other requests and Mastodon.

`sent` and `applied` are history: the messages Mastodon was sent for a request
and how often it performed it. `Delivery` is what a client may rely on: a
request is performed at most once, and "done" or "refused" are true. The
refinement `OnceAndTruthful` maps `performed` to `applied` and `told` to what
the final status code tells a client: 200 "done", below 500 "refused", otherwise
"unsure". `DeliverySpec` is both a property of the run `writes` and a theorem.

### TrendFeed (`TrendFeed.tla`, `MCTrendFeed.tla`, `FeedProofs.tla`)

The three trends endpoints share their code. `Open` and `Follow` begin a request
(the feed is made and its sources are found before the cache is asked), `Get`,
`Collect`, `StoreOwn` and `Page` are `trend_feed::serve`, and every hit spawns a
job: `Rebuild` finds the sources again and asks them, `StoreRebuilt` overwrites
the entry. Nothing orders the jobs. A provider that does not list the language
filter is asked without it; it may fail, and then its items are missing. Items
are their own rank. `Expire` is Redis, `OfferChanges` the providers.

### StatusRows and StatusPages (`StatusRows.tla`, `StatusPages.tla`, `MCStatusPages.tla`, `StatusPagesProofs.tla`)

`StatusRows` is the table `commonfeed_statuses` beside Mastodon's statuses. A
source offers *copies* of posts (a provider and its id); a row gives a copy a
snowflake, and Mastodon's id once it is resolved. Both kinds of ids come from
one clock; `meaning` is the history of what each id was given to. `Upsert` is
`map_posts`; `Repeats` says when PostgreSQL refuses it as a whole. `Resolved`,
`Cleared`, `Deleted`, `Hidden` and `Favourited` are what others do meanwhile.

`StatusPages` is a viewer's requests on it. A timeline: `Begin` ranks anew (the
tag timeline with `Dedup`, the link timeline without), `Lookup` asks which posts
are resolved, then `FetchBase` and `Enrich` (Mastodon's statuses, then what
belongs to them) run beside `MapPosts` (a snowflake for each of the rest), and
`Serve` puts the page together and cuts it below `max_id`. A context:
`OpenContext`, `Forward` to Mastodon if the row is resolved, then `Translate`
item by item and `Answer`; on a 404 `Clear` and, as after any failure, the
cached post: `BuildAncestors` from its chain of `reply_to`, `AskReplies` page by
page from the provider, `MapDescendants`. `touched` and `favs0` are history, for
the properties: what others changed and what was favourited before. What Mastodon
shows of a status that the base query leaves out (one of a silenced author, say)
is its own affair: a context forwarded for it may be answered or not (`Views`).
The parent of a status that Mastodon holds is Mastodon's id, untranslated
(`parents`), as `build_status` copies it.

### Sublists (`Sublists.tla`, `SublistsProofs.tla`)

What Rust's `filter`, `retain` and `sort` do to a list, for `FeedPipeline`,
`HomeFeed`, `TrendFeed` and `StatusPages`. `Arranged` puts the members of a finite set in a given order: at place
`k` stands the one with `k - 1` before it. `Sublist` is a list's elements at some
positions, in the list's order. The definitions count instead of recursing, so
that the prover can expand them: it knows neither what `SelectSeq` does nor any
recursive operator. The lemmas say that an arrangement is the order-preserving
bijection (`ArrangedOrder`, `AscendingOrder`) and that a sublist holds what was
kept, in order (`SublistParts`, `OnlyParts`).

## 4. Runs

Every component has one type invariant, `TypeOK` (`BreakerTypeOK`, `TrendTypeOK`,
see section 6); the table names what else a run
asks. All instances are small on purpose: each is the smallest in which the
situations named under "why enough" occur.

| run | configuration | what it shows | bounds and why they are enough |
|---|---|---|---|
| `orbit` | `MCOrbit.cfg` | `NoLoss`: until an embedding, an upsert or the order of commits has failed, everything a cursor passed is folded. `AtMostOnce`: until a crash or a failed cursor write, nothing is folded twice. `FoldOrder`: until then a source is folded in order. `CursorAtRow`: a cursor that moved stands at a row of its own kind. `EventuallyFolded`: a visible engagement is folded in the end, or lies before the replay window | one disruption of nine kinds (the four safety properties are theorems for any number of them); four polled rows of two sources and one that is never polled but shares a table; batches of two, so that a source needs two cycles; requests of one text, so that one can fail alone; a text two rows share; two window starts, so that a restart may see another window |
| `orbit_retry` | `MCOrbitRetry.cfg` | `FailedStayAhead` is violated, see section 7 | one failing embedding |
| `pipeline` | `MCFeedPipeline.cfg` | `PreferredCopy`: with `Dedup`, one copy of a post, the preferred one, whoever answered first. `QuotaKept`: shares kept to within a post, posts without a quota last. `BestFirst`: the best of a group or of all, nothing lost, the page full | four pipelines (quotas 6:3:1 with fallback, 7:3 without, none, none and no `Dedup`), each source answering nothing, a part or all; posts from two sources, one banned author, equal scores, authors with several posts, groups that run out |
| `breaker` | `MCCacheBreaker.cfg` | `OneProbePerTask`: after a trip, a task reaches a failing Redis at most once per cooldown. `Recovers`: with Redis back, the breaker closes and stays closed | three tasks and a threshold of two, so that a task can still be under way when two others have tripped the breaker; a cooldown of two, so that a trip can fall into a running one |
| `home` | `MCHomeFeed.cfg` | `NoRepeat`: sequential scrolls repeat none of the last `Cap` posts. `SeenWasDelivered`: a post is withheld only if it was answered or is about to be, its status was not found, or the client hung up on the last await. `EmptyOnlyIfExhausted`: an empty page means that nothing else was on offer | two requests, any overlap; pages of two and `Cap` two, so that the second page overflows the list; two rankings that share a post of the bypassing group; one disruption of seven kinds. Nobody is blocked here |
| `home_live` | `MCHomeFeedLive.cfg` | `EventuallyShown`: whoever scrolls on sees all that stays offered, is not blocked and was not lost. `BlocksLast`: a blocked author who has left the pool and the requests never comes back | one request, pages of two, a seen list with room for all posts, one author who may be blocked at any time, two disruptions. `BlocksLast` is about single steps: what an older request could bring back counts as still circulating |
| `resolver` | `MCResolver.cfg` | `NoPinnedFlight`: no finished search stays in the map. `WaitersServed`: who waits is answered. `MappingHeals`: the row comes to hold Mastodon's last id for the post, if it has a URI to search for | two callers, two ids in turn (a copy is dropped and fetched again), two disruptions: one for each caller |
| `registry` | `MCProviderRegistry.cfg` | `StatusNeedsKey`: no status stands next to a missing key. `ApprovalOfKey`: the stored key of an approved row was approved by the provider, until an overlap. `StatusConverges`: the row comes to show the provider's decision about the stored key, for good, unless an approval was withdrawn or an overlap occurred | one shell and two handlers, so that a callback can overtake a status request and another callback; two keys, so that everything about the first can still be on its way when the second is saved; two disruptions of four kinds. One capability and one route: they do not meet the registration |
| `writes` | `MCWriteRouting.cfg` | `DeliverySpec`: a write is performed at most once and the client is told the truth. `NamesKept`: messages and answers are about the posts that were named and answered; an engagement goes out translated or not at all, unless its row is gone or has no URI | one request (requests meet only in the rows, and `RowChanges` makes any of the changes that others make), of every kind, with no, one or two ids; three snowflakes of one post, one of them without a URI, and one of another; native ids; two ids for Mastodon's copies, so that one is dropped and fetched anew; two disruptions of six kinds, so that a lost answer can meet a failing statement |
| `writes_reject` | `MCWriteRoutingReject.cfg` | `UnresolvableRejected` is violated, see section 7 | as `writes` |
| `trends` | `MCTrendFeed.cfg` | `ScrollExact`: the pages cut from one list are that list. `Heals`: with providers that keep their offers and nothing failing any more, the right list of each language is shown for good | one client: a miss of a second one collects and stores as a job does, with what it stores chosen in the same way; two jobs, so that a slow one can overwrite a newer list; lists of three and pages of one; two languages, a provider that cannot filter and one with a low `max_results`; one change of the offers, one disruption of three kinds |
| `pages` | `MCStatusPages.cfg` | `PageFollowsRanking`: the ranking's order, nothing left out without a reason, each post once in a tag timeline. `SnowflakeKept`: ids mean the post they stand at, and are no urls without a reason. `HandlesKept`: a snowflake outlives everything but the deletion. `FavouriteShown`, `ContextWhole`, `ScrollEnds` | two timelines of two rankings each: two copies of a post, a copy twice in one batch, one without an id, a post of the instance; pages of two over lists of three; a thread of three, two contexts, one at a provider without cursors; two changes by others, one disruption of three kinds; room for all ids (`MaxId`) |

Deadlock is checked in all runs but `pipeline`, where a run of the pipeline
ends, and `writes` and `writes_reject`, where every request is sent once.

The bounds of the models are these: `MaxDisruptions` (section 3),
`MaxFailures` in `CacheBreaker` (the counter saturates), `MaxId` in `Resolver`
and `WriteRouting` (how often Mastodon fetches a post again) and in `StatusRows`
(the ids given out), `MaxKeys` in `ProviderRegistry` (the registrations a
provider accepts), `MaxChanges` (what others do, in `StatusRows`, and how often
offers change, in `TrendFeed`), `MaxJobs` in `TrendFeed` (rebuilds at once), and
the finite `Rows`, `Rankings`, `Pipelines`, `Offers`, `Bodies` and `NamedIds` the
world may offer.

## 5. Fairness

Weak fairness of the steps of a running program, and what its environment must
do for a promise to be kept at all. Nothing that may go wrong is ever fair.

- **Orbit**, `WF(Work)`: the interval ticks for ever, `main` loops over it, every
  statement returns or fails, and a supervisor starts the worker again when it
  has stopped. `Work` is one weak fairness condition for the whole worker, which
  is sequential. `Disrupt` bounds failures, so they do not happen for ever.
- **CacheBreaker**, `WF(Tick)` and weak fairness of a request that was sent: time
  passes, and Redis answers or the connection fails. Nobody is obliged to use
  the cache or Redis to come back; `Recovers` assumes the latter.
- **HomeFeed**, `WF(Serve(r))`: tokio runs a handler on, and the user asks again.
  The premise of `EventuallyShown` is this user's.
- **Resolver**, weak fairness of a handler's steps and of a polled search,
  Mastodon answering or timing out included; strong fairness of `View`, signed-in
  users go on opening the post although they are not always idle; `WF(Mapped)`, a
  feed maps the post again. `MappingHeals` needs somebody who looks: nothing else
  in the code repairs the column.

- **ProviderRegistry**, weak fairness of a command's statements and of a handler's
  write: a statement that was begun returns. Strong fairness of beginning
  `status`: the operator asks for the status again and again although the shell is
  not always free. Without that nothing converges, because a callback may be lost
  and the code has no other poll. Callbacks, verification and decisions are not
  fair: the provider owes nothing.

- **TrendFeed**, weak fairness of a handler's steps and of the jobs, which tokio
  runs on and whose requests have timeouts; strong fairness of opening the
  trends in each language: `Heals` needs somebody who looks, because an entry
  that is never asked for again is never rebuilt (and expires after 60 seconds).
  Expiry is not fair, since every rebuild sets the time to live anew.
- **StatusPages**, `WF(Handle \/ Follow \/ Close)`: statements and requests
  return, and the viewer of `ScrollEnds` follows the links.

## 6. Theorems

Checked by tlapm for all values of the constants that satisfy the modules'
`ASSUME`s: any finite set of rows, any batch and chunk size, any set and number
of disruptions; any set of tasks, any threshold and cooldown; any number of
shells, handlers, capabilities, routes and registrations; any number of
requests, callers, posts, rankings and ids; any pipelines, sources, answers,
policies and limits. One theorem, `SharesKept`, has a hypothesis besides, which is
named below.

| theorem | module | states |
|---|---|---|
| `TypeCorrect` | `OrbitProofs` | `Spec => []TypeOK` |
| `NothingLost` | `OrbitProofs` | `Spec => []NoLoss` |
| `FoldedAtMostOnce` | `OrbitProofs` | `Spec => []AtMostOnce` |
| `ResumedAtRow` | `OrbitProofs` | `Spec => []CursorAtRow` |
| `FoldedInOrder` | `OrbitProofs` | `Spec => []FoldOrder` |
| `PipelineTyped` | `FeedProofs` | `Spec => []TypeOK` |
| `CopiesPreferred` | `FeedProofs` | `Spec => []PreferredCopy` |
| `BestPicked` | `FeedProofs` | `Spec => []BestFirst` |
| `QuotedBeforeRest` | `FeedProofs` | `Spec => []QuotedFirst` |
| `ShareNotExceeded` | `FeedProofs` | `Spec => []NeverAbove` |
| `SharesKept` | `FeedProofs` | with at most three quotas, `Spec => []QuotaKept` |
| `BreakerTypeCorrect` | `HomeFeedProofs` | `BreakerSpec => []BreakerTypeOK` |
| `ProbesBounded` | `HomeFeedProofs` | `BreakerSpec => []OneProbePerTask` |
| `HomeTyped` | `HomeFeedProofs` | `Spec => []TypeOK` |
| `ScrollsWithoutRepeats` | `HomeFeedProofs` | `Spec => []NoRepeat` |
| `OnlySeenWithheld` | `HomeFeedProofs` | `Spec => []SeenWasDelivered` |
| `EmptyPageIsTheEnd` | `HomeFeedProofs` | `Spec => []EmptyOnlyIfExhausted` |
| `BlocksHold` | `HomeFeedProofs` | `Spec => BlocksLast` |
| `ResolverTyped` | `ResolverProofs` | `Spec => []TypeOK` |
| `NoFlightPinned` | `ResolverProofs` | `Spec => []NoPinnedFlight` |
| `RegistryTypeCorrect` | `ProviderRegistryProofs` | `Spec => []TypeOK` |
| `KeyWithEveryStatus` | `ProviderRegistryProofs` | `Spec => []StatusNeedsKey` |
| `ApprovedKeyIsStored` | `ProviderRegistryProofs` | `Spec => []ApprovalOfKey` |
| `RoutingTyped` | `WriteRoutingProofs` | `Spec => []TypeOK` |
| `WritesDelivered` | `WriteRoutingProofs` | `Spec => DeliverySpec` |
| `TranslationKeeps` | `WriteRoutingProofs` | `Spec => []NamesKept` |
| `TrendsTyped` | `FeedProofs` | `TrendSpec => []TrendTypeOK` |
| `ScrollsExact` | `FeedProofs` | `TrendSpec => []ScrollExact` |
| `PagesTyped` | `StatusPagesProofs` | `Spec => []TypeOK` |
| `SnowflakesStay` | `StatusPagesProofs` | `Spec => HandlesKept` |
| `PagesNameTheirPosts` | `StatusPagesProofs` | `Spec => []SnowflakeKept` |
| `FavouritesShown` | `StatusPagesProofs` | `Spec => []FavouriteShown` |
| `PagesFollowRankings` | `StatusPagesProofs` | `Spec => []PageFollowsRanking` |
| `ContextsWhole` | `StatusPagesProofs` | `Spec => []ContextWhole` |

Every invariant and every action property of the passing runs is among them, and
so is the refinement of `Delivery`. Two modules of proofs serve two components
each, which have something in common: `HomeFeedProofs` the home timeline and the
breaker of the cache that it lives on, `FeedProofs` the pipeline and the trends,
which are cut from what it ranks, and whose lemmas about lists are the same.
That is why `CacheBreaker` and `TrendFeed` have names of their own for `Spec` and
its parts.

Assumed of `Orbit`: ids are unique within a table, a polled row lies in its
kind's table, the rows are finitely many (`RowsAssumption`), sizes are positive
(`ConfigAssumption`). `FoldOrder` alone also needs ids to follow time, which is a
premise of the property, not an assumption.

**`NothingLost`.** `PassedAreFolded` is not inductive: when a cursor is saved, it
jumps over all rows up to the greatest embedded id, and one has to know that
they were in the batch and are folded. `LossInv` adds what the cycle carries
from step to step. `BatchClosed`: the batch holds every visible row of a source
between the loaded cursor and its own rows, because `LIMIT` keeps a prefix
(`PolledClosed`) and no row appears late. `AllEmbedded`, `BatchFolded`: from
embedding to saving, every row of the batch is embedded, then folded or its
account still to do. `FromBehind`: cursors only grow within a cycle.
`CursorBehindTable`: no cursor leads its table, so a row that commits in order
is ahead of every cursor. `WipedFirst`: `--fresh` drops the cursors before the
vectors, so a crash between the two wipes loses nothing. The invariant proved is
`TypeOK /\ (Lossless => LossInv)`; `FaultsGrow` lets a step assume that no such
fault had happened before it.

**`FoldedAtMostOnce`.** What has been folded must not be polled again.
`FoldedPassed`: a folded row lies at or below the cursor of its source, or the
cycle that folded it has that cursor still to write (`Unsaved`, after position
`next` of the loop). `BatchAhead`: the rows of the batch lie above the cursors not
yet written. `LoadedCursors`: what the poll uses is what is stored. A crash or
a failed write between the fold and the cursor breaks exactly `FoldedPassed`,
which is why `AtMostOnce` excludes these two and nothing else. Here the order of
the wipes matters the other way round: between them folded rows have no cursor,
and `FoldedPassed` must leave that moment out.

**`ResumedAtRow`.** A cursor gets its value together with `base`, or from a row of
the batch; `BatchVisible` says that such a row is visible.

**`FoldedInOrder`.** `FoldOrder` follows from `OnceInv` and two facts about
positions. `CountedFolds`: no fold has a position beyond the vector's count, so
that a new fold comes after every old one. `SortFollowsIds`: where ids follow
time, the sort of the batch by time leaves the rows of one source in the order
of their ids. Between cycles the cursor decides: what is folded lies at or below
it, what is in the batch above it. It takes the same two faults as `AtMostOnce` to
break this, and no others.

**`CopiesPreferred`, `BestPicked`, `QuotedBeforeRest`.** `PipelineInv` describes
the sampling loop. `Represented`: the ranked pool has, of each post, the copy that
the stable sort by priority puts first, unless its author is banned.
`Conserved`, `Apart`: page and rest together are the pool, and no post stands in
them twice, which `swap_remove` must not disturb (`SwapRemoved`). `Ranked`:
nothing left, or picked later, beats a rival picked before, a rival being a post
of the same group, or any post if the pipeline has no quotas. `Filling`: after
the first post without a quota none with one is left, since the code falls back
only when no quota's group has a candidate (`NeediestAvailable`). The stages
before the loop are lemmas about their operators: `SortedParts`, `DedupParts`,
`PermittedParts`, `RankedParts`.

**`ShareNotExceeded`, `SharesKept`.** Each pick goes to the neediest quota among
those that still have candidates. `SomeDeficit`: as long as posts of all quotas
are left, the deficits sum to more than zero, so the neediest one is positive
and a quota that is picked was below its share of the page to come; hence it is
never a whole post above (`NeverAbove`, for any number of quotas). The other
direction (`NeverBelow`) goes by sums: the excesses of all quotas over their
shares sum to zero (`ExcessesCancel`), and a quota that falls a whole post
behind without being picked does so behind another one that lacks as much; the
others would have to be ahead by a whole post together. With at most three
quotas there is one other, and `NeverAbove` excludes that. `FewQuotas` says "at
most three"; `home.rs` builds three, or two for a user
without vectors, and `tag_timeline.rs` three. With five it is
false: of weights 1, 1, 1, 6, 6 in this order, the tenth pick leaves the last
quota a whole post short of its share. The sampler's promise is therefore one
about the pipelines that exist, and the hypothesis of `SharesKept` belongs to
it. Sums over quotas are cardinalities of families of intervals (`Outnumbered`,
`Families`), because the prover cannot do induction over a sequence.

Assumed of `FeedPipeline` (`PipelineAssumption`): a pipeline names a group in at
most one quota, weights and limits are natural numbers, priorities integers and
the penalty a percentage, and `NoGroup` is no group.

**`ScrollsWithoutRepeats`, `OnlySeenWithheld`, `EmptyPageIsTheEnd`.** One
invariant, `HomeInv`. `InStep`: as long as no requests overlap and the seen list
is neither lost nor unreachable, it is what was chosen, and what a scroll has
chosen avoids it (`Single`: only one request is under way then). `Accounted`: what a request has
read of the list is `Spent`, that is answered, about to be or lost, and nothing
is chosen only out of a ranking that has nothing else left. `SpentGrows` is what
makes this last: a post leaves `Answering` when its page is answered or its
request dropped, and is then `delivered` or `lost`. `Offered`: the ranking on
offer now was on offer to every request under way. Only the first needs requests
that do not overlap; the other two hold for any interleaving, whatever the cache
and the status query do. Assumed are finitely many posts, rankings without repetition and a
seen list of at least one post.

**`BlocksHold`.** An action property: a post of a blocked author that no longer
circulates, be it in the pool or in a request that holds a list, does not begin
to again, unless a policy has failed to load. `ServeKeepsOut` shows it of every
step of a request: a list is copied from the pool or collected under the policy
(`CollectedParts`), and a request that began before the block still carries the
older policy, which counts as circulating (`Carries`).

**`NoFlightPinned`.** A finished future stands in the map only while some caller
has the removal still to do. `FlightInv` adds what the futures hold: one that
Mastodon has answered has an id, a finished one a result (`AnswerGiven`), and
nobody starts anew the one whose result a caller is about to use (`ResultKept`).
That `Join` finds a future to use, for any number of callers, is a pigeonhole
argument (`SomeFree`): there is one for each caller, a future in use is held by
some caller, and the one that joins holds none. Assumed are finitely many
callers (`ResolverAssumption`).

**`ProbesBounded`.** `CounterHeld`: during an outage the counter stands at the
threshold or above, so each failure goes through the store that opens the
breaker again. Nothing else in the code stops all tasks from going to Redis
when the cooldown ends.

**`KeyWithEveryStatus`.** `StatusNeedsKey` alone does not survive a callback that is
about to write. `ReadKeys` (in `KeyInv`) says what is known from the read of the
key on: as long as a shell asks or updates or a handler writes, the row is there
and has a key. It holds because no code takes a key away; a new registration
replaces it. `Null` must differ from every row, key and status
(`RegistryAssumption`).

**`ApprovedKeyIsStored`.** `ApprovalInv` adds to that what the parties know about
keys. `ApprovalsSaid`: whoever holds an approval, be it the provider, a callback
on its way, a registration not yet saved or the answer to a status request, holds
it of a key that the provider approved at some time. `SameKey`: without an overlap,
an operation under way is about the key that is stored now, so what it writes is
about that key. `SaveApprovalInv` is the step that matters: a new key is saved
while nobody is about to write a status, or the overlap is noted.

**`RoutingTyped`.** That Mastodon is sent at most two messages for a request is not
visible in one step: `Counted` bounds the messages sent by the place the request
has reached (`Quota`), none before the handler's, one before the middleware's.

**`WritesDelivered`.** The refinement of `Delivery`. That a step of the routing
is a step of `Delivery` needs to know, of each request, whether it was performed
already: `Truthful` says so by the place it has reached and the status it holds
(not before the handler or the middleware has sent its message; yes while an
answer is rendered; and a status below 500 that is no success means no). The
crucial place is `Fall`: a message goes out a second time only for 404 and 405,
which `Truthful` says were not performed. `Step` collects what one step of a
request does, each action has a lemma `Step(r)`, and `StepDelivers` maps it to
`Perform`, `Tell` or a stutter. Nothing is assumed of the constants.

**`TranslationKeeps`.** `NamesKept` speaks of messages and answers; what carries it
is `Names`. `Rows`: an id that Mastodon gave belongs to one post for ever, and a row
holds no id but one of its snowflake's post. `Evolves`: a step gives out new ids
and never creates a row (so one passed on because it was gone stays gone), which is why an id translated earlier stays `Faithful`
while other requests change the rows (`DenotesKept`, `FaithfulKept`). `Outgoing`: each
id translated so far is faithful to the one it replaces, and none is missing when
the message goes out. `Messaged`: a handler sends exactly these ids, and an
engagement's answer is marked before the middleware looks at it. `Truthfully`: the
ids of the answer mean what Mastodon's answer meant; its two cases are the
lowest snowflake of an id (`BackDenotes`) and the pinned one (`Pinned`). Assumed
(`RoutingAssumption`): snowflakes, Mastodon's ids, native ids and the wrapper's are
distinct, `Uriless` are snowflakes, and snowflakes are numbers, so that there is a lowest.

**`ScrollsExact`.** A link is an offset into a list that may be another one when
it is followed. `ScrollExact` speaks of scrolls that were cut from one list only,
but looks at them only at rest; `Scrolled` says the same of every moment: what was
shown is the list up to the offset at which the request or the link goes on, and
all of it when there is no link. Each page appends what `paginate` cut from that
offset on, and `Seam` is the fact about sequences that makes the two ends meet.
`Stock` and `JobsTyped` say that whatever enters the cache, be it stored by a
request or by a job that is long out of date, is a list of what providers offer,
no longer than the pool (`CollectedTyped`); nothing needs to be known of the order of the jobs.
Assumed (`TrendAssumption`): positive sizes, and providers that offer items there
are.

**The pages of `StatusPages`.** One invariant, `PagesInv`, for all five properties
of its states. A page is made from statements of different times, and its
properties hold because of what remains true from one to the next. `TableInv`
says what ids mean: a row's own id and its local one are of its post. `Evolves`
and `RowsMove` are what every step keeps of that, whoever takes it: no id changes
its meaning, what is hidden stays hidden, a favourite stays one, and a row
changes only with its post noted as touched, or begins without a local id. With
these, `Held` (the ids that the request has read are of their posts), `Settled`
(the lookup's answer still stands, but for touched posts), `Looked` (a status that
the base query did not find is hidden, and the flags of the others were read
after `favs0`) and `Named` (a foreign copy has a snowflake, or a reason for having
none) survive everything that others do between any two statements
(`Meanwhile`). `PageMade` says that the page is the ranking without what is not served, cut; `PageFollowsRanking`
reads its cases off `Served`. That a tag timeline shows a post once is `Single`,
the parts of a deduplicated list, carried past the resolution of one of two
copies. For contexts, `Items` and `Translation` say of each item translated so
far that its id is the lowest snowflake of Mastodon's (`BackKept`: it still is, as
long as the post is untouched), which is why a parent and the item it names agree
(`ContextsWhole`); `Walked` is the cached thread.

`SnowflakesStay` needs little more than the table: of the steps that write rows,
the upsert keeps those there are, and the rest set the local id or delete.

Assumed: finitely many copies, seeds that fit the ids there are
(`RowsAssumption`), lists of copies, and that a row exists only of a copy whose
provider gave it an id (`PagesAssumption`).

The attempt to prove `SnowflakeKept` corrected it: it excused a url in place of an
id by a batch that names a row twice, but looked for one only in the request's
own list. The chain of ancestors of a cached post is a batch as well, and a
provider that lists a post among its own ancestors leaves all of them without
ids (`BatchRepeats`).

Model-checked only: liveness (`EventuallyFolded`, `Recovers`, `EventuallyShown`,
`WaitersServed`, `MappingHeals`, `StatusConverges`, `Heals`, `ScrollEnds`), which is
out of the prover's reach, as is `ENABLED`: that no component deadlocks is for
TLC too. So are the two refuted properties of section 7.

## 7. Where code and documentation disagree

Two of these are runs whose property is the quoted sentence, and which TLC
refutes.

- **Failed engagements are not retried** (`orbit_retry`). `main.rs:277` of the
  worker promises that engagements whose embedding failed remain ahead of the
  cursor. `main.rs:286` takes the greatest id that *was* embedded: a later
  engagement of the same source in another chunk carries the cursor past the
  failed one.
- **Unresolvable posts are proxied** (`writes_reject`). `resolve.rs:22` says that
  callers must reject `Unresolvable` rather than proxy, since Mastodon would answer
  404 to a snowflake. `create_status` and `create_report` do reject it, with a 404
  of their own; but only engagements mark their answers with `NoFallback`, so the
  middleware takes the 404 for an unhandled route and forwards the original body.
  Mastodon answers 404 to a new status, but may file a report without the post.

The models contain the behaviour of these too; the properties that held in their
place are stated so that they exclude it.

- **A quiet source replays everything.** `poll.rs:268` promises a first poll
  without years of history. With no row in the window, `COALESCE` gives 0, nothing
  is saved, and the first poll starts at id 0 (`InitCursor`, `Poll`).
- **Two scrolls, one slice.** `home.rs:163` promises that any request means the
  next unseen slice. The seen list is read before the page is rendered and
  written after; two requests that overlap get the same posts. `NoRepeat` is
  about requests that do not overlap.
- **Posts nobody saw count as seen.** `home.rs:161` promises that seen posts are
  filtered and that any request means the next unseen slice. What is marked as
  seen is what was chosen: when `to_statuses` fails, the page is answered empty and
  its posts are withheld from then on (`Rendered`). The same happens to a page
  whose client hangs up while the list is written, at `seen.rs:33` (`Cancel` between
  `Extend` and `Answer`). `SeenWasDelivered`, `EmptyOnlyIfExhausted` and
  `EventuallyShown` except the posts in `lost` and nothing else.
- **A row without a URI counts as none.** `resolve.rs:18` says of `NotFound` that the
  snowflake has no row and is safe to pass on as an id of Mastodon's.
  `resolve.rs:155` returns it for a row that is there and has an empty `post_uri`, so
  `translate.rs:28` and `engagements.rs:127` forward its snowflake (`Resolve`,
  `Uriless`). `NamesKept` is about rows with a URI.
- **Two searches for one post.** `resolve.rs:81` promises a single search for
  concurrent callers. Every waiter removes whatever is under the key, so a late
  one removes a newer search and the next caller starts another beside it
  (`Remove`; `Slots` has room for it).
- **Enabling another resource keeps the old one.** `publish/mod.rs:124` says that
  `enable_source` enables a capability for a route. The conflict target at
  `publish/mod.rs:140` leaves out the resource: where tags/trending was enabled
  before, even if it has been disabled since, enabling posts/trending switches
  tags/trending on, and `feedctl` reports success (`Enable`).
- **Flags of copies.** `timeline_feed.rs:26` says that every status of a response
  carries the viewer's flags. A copy whose own row is not resolved is built from
  the provider's answer with all flags false, also when another copy of the post
  is resolved and favourited (`RemoteEntry`). `FavouriteShown` is about copies
  whose row is resolved.

## 8. Not modelled

- The arithmetic of vectors and scores (floating point). What is checked is which
  values enter, in which order.
- SQL beyond the rows a statement selects and writes; statements are atomic. The
  ranking queries over Mastodon's tables (`network.rs`)
  and the decoding of JSON are data: models take their results as choices.
- Of pages: `min_id`, `since_id` and the previous links (filters of the same kind
  as `max_id`, which no next link carries); media, cards, emojis, quotes, counters
  and other columns that are only copied; the ids of quotes in an answer, which
  are translated in the same loop as those of parents.
- Of contexts: a server without `MASTODON_API_URL`, which goes straight to the
  cached post.
- Of writes: the syntax of multipart and JSON bodies, which is abstracted to
  whether ids are found in it; headers.
- Lifting a block; mutes, which take the same way through the policy.
- Parsing of languages and tokens, sanitising, formatting, serialisation,
  configuration, metrics, start-up: conversions and pure I/O without state of
  their own. `ctrl-c` during a cycle of the worker is looked at when it ends.

## 9. Plan

Done, in this order: `Orbit` and its proofs, `FeedPipeline`, `CacheBreaker` and
its proofs, `HomeFeed`, `Resolver`, `ProviderRegistry` and its proofs,
`WriteRouting` with `Delivery` and its proofs, `TrendFeed`, `StatusRows` and
`StatusPages`, the policy in `HomeFeed`; then the proofs of `FoldOrder`, of
`Resolver`, `HomeFeed` and `FeedPipeline` with the lemmas of `Sublists`, of
`WriteRouting`'s types; last those of `TrendFeed` and `StatusPages`.

Left, the most consequential first:

1. Refinements: `Orbit` implements a ledger that folds each engagement once, until
   a fault; `ProviderRegistry` implements, until an overlap, a copy of the
   provider's view of the stored key; `Resolver` implements a map that is looked
   up and set atomically.
2. Composition: `StatusPages` with `HomeFeed`'s pool, whose posts are resolved
   between the building of the pool and the page.
