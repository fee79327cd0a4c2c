---------------------------- MODULE StatusPages ----------------------------
(***************************************************************************)
(* Pages of statuses over the rows of StatusRows: the tag and the link     *)
(* timeline (feeds/timeline_feed.rs, mastodon/statuses.rs) and the context *)
(* of a status (routes/mastodon/statuses.rs), of one viewer, statement by  *)
(* statement, while other requests change the rows.                        *)
(*                                                                         *)
(* A timeline serves a post from Mastodon's database when its row has a    *)
(* local id, and from the provider's answer otherwise; a context asks      *)
(* Mastodon when there is one and walks the cached post otherwise.         *)
(* FeedPipeline has the ranking of a timeline's candidates, Resolver the   *)
(* detail of a status.                                                     *)
(***************************************************************************)
EXTENDS StatusRows

CONSTANTS
    Rankings,    \* per timeline: the rankings of copies its pipeline may yield
    Uriless,     \* copies that come without an ActivityPub uri
    Anonymous,   \* copies that come without an id of the provider
    Above,       \* per post: the posts it replies to, the nearest first
    CachedAbove, \* per copy: the reply_to chain in its post_data
    ReplyPages,  \* per copy: its provider's pages of replies
    Cursorless,  \* copies whose provider gives has_more without a cursor
    Asked,       \* copies whose context may be asked for
    Limit,       \* the statuses of a page
    MaxPages,    \* DESCENDANTS_MAX_PAGES
    Disruptions, MaxDisruptions \* what may go wrong, and how often

ASSUME PagesAssumption ==
    /\ Uriless \cup Anonymous \cup Cursorless \cup Asked \subseteq Remote
    /\ (UNION Seeds) \cap Anonymous = {}
    /\ Rankings \in [{"tag", "link"} -> SUBSET Seq(Copies)]
    /\ \A p \in Posts : Above[p] \in Seq(Posts)
    /\ \A c \in Asked : /\ CachedAbove[c] \in Seq(Remote)
                       /\ ReplyPages[c] \in Seq(Seq(Remote)) /\ ReplyPages[c] # <<>>
    /\ {Limit, MaxPages} \subseteq Nat \ {0} /\ MaxDisruptions \in Nat

VARIABLES
    req, \* the viewer's request and what its handler holds
    used \* disruptions so far

vars == <<rowVars, req, used>>

\* "db": a statement fails; "forward", "provider": a request to Mastodon or
\* to the provider fails or is answered with an error.
Disrupt(d) == d \in Disruptions /\ used < MaxDisruptions /\ used' = used + 1

Url == 0   \* the url of the post in place of an id
Null == 0  \* no in_reply_to_id
End == -1  \* no next link
Nothing == [c \in {} |-> 0]

Idle == [pc |-> "idle", kind |-> "tag", max |-> Url, list |-> <<>>, resolved |-> Nothing,
         fetch |-> "ready", base |-> {}, parents |-> [p \in Posts |-> Null], flags |-> {},
         map |-> "ready", ids |-> Nothing, page |-> <<>>, next |-> End, touched |-> {},
         favs0 |-> {}, asked |-> "none", rowId |-> 0, local |-> 0, items |-> <<>>, cursor |-> 1,
         asks |-> 0]

Init == InitRows /\ req = Idle /\ used = 0

At(pc) == req.pc = pc

\* The client is answered.
Show(page, next) == req' = [req EXCEPT !.pc = "shown", !.page = page, !.next = next]

Entry(c, id, fav, parent) ==
    [copy |-> c, post |-> PostOf[c], id |-> id, fav |-> fav, parent |-> parent]

----------------------------------------------------------------------------
Key(c) == IF c \in Uriless THEN <<"url", c>> ELSE <<"uri", PostOf[c]>>

\* Dedup, of the tag timeline only: Mastodon's own copy or else the first.
Before(list, i, j) ==
    IF list[i] \in Natives <=> list[j] \in Natives THEN i < j ELSE list[i] \in Natives
Deduped(list) ==
    LET kept == {i \in DOMAIN list : \A j \in DOMAIN list :
                    j # i /\ Key(list[j]) = Key(list[i]) => Before(list, i, j)}
    IN Sublist(list, kept)

\* The viewer opens a timeline, or follows its next link: either way the
\* pipeline collects and ranks anew.
TagCandidates == {Deduped(list) : list \in Rankings.tag}
LinkCandidates == Rankings.link
Begin(kind, max) ==
    /\ \E list \in IF kind = "tag" THEN TagCandidates ELSE LinkCandidates :
          req' = [Idle EXCEPT !.pc = "lookup", !.kind = kind, !.max = max, !.favs0 = favs,
                              !.list = list]
    /\ UNCHANGED <<rowVars, used>>
Open(kind) == At("idle") /\ Begin(kind, Url)
Follow == At("shown") /\ req.next # End /\ Begin(req.kind, req.next)
Close == At("shown") /\ req.next = End /\ req' = Idle /\ UNCHANGED <<rowVars, used>>

\* The id a copy is served from Mastodon's database under.
NativeId(c) == Min({i \in DOMAIN meaning : meaning[i] = Status(PostOf[c])})
IsLocal(c) == c \in Natives \cup DOMAIN req.resolved
LocalId(c) == IF c \in Natives THEN NativeId(c) ELSE req.resolved[c]
Locals(resolved) == (ToSet(req.list) \cap Natives) \cup DOMAIN resolved

\* to_statuses: which of the posts Mastodon has.
Lookup ==
    /\ At("lookup")
    /\ \/ LET resolved == LocalIds(ToSet(req.list) \cap Remote)
          IN /\ req' = [req EXCEPT !.pc = "join", !.resolved = resolved, !.map = "todo",
                            !.fetch = IF Locals(resolved) = {} THEN "ready" ELSE "base"]
             /\ UNCHANGED <<rowVars, used>>
       \/ /\ Show(<<>>, End) /\ Disrupt("db")
          /\ UNCHANGED rowVars

\* The status that stands for a post in the database, and the one it replies to.
StatusIn(ids, p) == Max({i \in ids : meaning[i] = Status(p)} \cup {Null})
Parent(ids, p) == IF Above[p] = <<>> THEN Null ELSE StatusIn(ids, Head(Above[p]))

\* Mastodon itself goes by the statuses that BASE_QUERY finds, or also by those
\* it leaves out, whose authors may only be silenced.
Views == {visible, DOMAIN meaning}

\* BASE_QUERY: of the statuses, those that are not deleted and whose author is
\* neither suspended nor silenced.
Based(ids) == visible \cap ids

\* fetch_by_ids runs beside from_posts: the statuses ...
FetchBase ==
    /\ At("join") /\ req.fetch = "base"
    /\ \/ LET base == Based({LocalId(c) : c \in Locals(req.resolved)})
          IN /\ \E ids \in Views :
                    req' = [req EXCEPT !.fetch = IF base = {} THEN "ready" ELSE "enrich",
                                       !.base = base,
                                       !.parents = [p \in Posts |-> Parent(ids, p)]]
             /\ UNCHANGED used
       \/ req' = [req EXCEPT !.fetch = "failed"] /\ Disrupt("db")
    /\ UNCHANGED rowVars

\* Mutant: the viewer is not threaded through.
FlagsOfNobody(ids) == {}
\* fetch_viewer_state: those that the viewer has favourited.
Flags(ids) == favs \cap ids

\* ... then what belongs to them.  One failing statement fails all.
Enrich ==
    /\ At("join") /\ req.fetch = "enrich"
    /\ \/ /\ req' = [req EXCEPT !.fetch = "ready", !.flags = Flags(req.base)]
          /\ UNCHANGED used
       \/ req' = [req EXCEPT !.fetch = "failed"] /\ Disrupt("db")
    /\ UNCHANGED rowVars

\* post_from_result passes on that a provider gave a post no id: such a copy
\* has no provenance and is never mapped.
Identified == Remote \ Anonymous

\* from_posts: the batch is mapped to snowflakes, or gets no ids at all.
Maps(batch) ==
    /\ ~Repeats(batch) /\ Upsert(batch)
    /\ UNCHANGED <<visible, favs, changes, used>>
Refused(batch) ==
    /\ (Repeats(batch) /\ UNCHANGED used) \/ Disrupt("db")
    /\ UNCHANGED rowVars

IdIfMapped(ids, c) == IF c \in DOMAIN ids THEN ids[c] ELSE Url

Foreign(c) == ~IsLocal(c)
Posted(ids) == req' = [req EXCEPT !.map = "ready", !.ids = ids]
MapPosts ==
    /\ At("join") /\ req.map = "todo"
    /\ \E batch \in {Only(req.list, {c \in Identified : Foreign(c)})} :
          \/ Maps(batch) /\ Posted(Returning(batch, row'))
          \/ Refused(batch) /\ Posted(Nothing)

\* Mutant: the two kinds of statuses are put together one after the other.
LocalsFirst == Only(req.list, {c \in Copies : IsLocal(c)})
                  \o Only(req.list, {c \in Copies : Foreign(c)})
Ordered == req.list

\* build_status, of a row of Mastodon's, whose in_reply_to_id it copies, and
\* Status::from_post, of an answer of a provider, which has no viewer and names
\* what it replies to by its url.
LocalEntry(c) ==
    Entry(c, LocalId(c), LocalId(c) \in req.flags, req.parents[PostOf[c]])
RemoteEntry(ids, c) == Entry(c, IdIfMapped(ids, c), FALSE, Url)

EntryOf(c) == IF IsLocal(c) THEN LocalEntry(c) ELSE RemoteEntry(req.ids, c)

\* Mutant: max_id is taken to be inclusive.
BelowOrAt(id, max) == id <= max
Below(id, max) == id < max
\* Mutant: the page is not cut.
Whole(statuses) == statuses
Cut(statuses) == SubSeq(statuses, 1, Min({Limit, Len(statuses)}))

\* What becomes an entry: not what Mastodon hides; and paginate leaves out what is
\* not below max_id, which is ignored if it is no number, or has no number itself.
Served(c) ==
    /\ Foreign(c) \/ LocalId(c) \in req.base
    /\ LET id == EntryOf(c).id
       IN req.max = Url \/ (id # Url /\ Below(id, req.max))

\* The statuses in the order of the ranking, then paginate.
Serve ==
    /\ At("join") /\ req.fetch \in {"ready", "failed"} /\ req.map = "ready"
    /\ \E kept \in {IF req.fetch = "failed" THEN <<>>
                    ELSE Only(Ordered, {c \in Copies : Served(c)})} :
          LET page == Cut([k \in DOMAIN kept |-> EntryOf(kept[k])])
          IN Show(page, IF page = <<>> THEN End ELSE page[Len(page)].id)
    /\ UNCHANGED <<rowVars, used>>

----------------------------------------------------------------------------
\* The viewer asks for the context of a snowflake.
OpenContext(c) ==
    /\ At("idle") /\ row[c] # NoRow
    /\ req' = [Idle EXCEPT !.kind = "context", !.asked = c, !.rowId = row[c].id,
                           !.local = row[c].local, !.favs0 = favs,
                           !.pc = IF Mapped(c) THEN "forward" ELSE "ancestors"]
    /\ UNCHANGED <<rowVars, used>>

Replies(p) == SetToSeq({q \in Posts : p \in ToSet(Above[q])})

\* Mastodon's thread around a post: what it shows of it, the root first.
Thread(ids, p) ==
    LET posts == Only(Reverse(Above[p]) \o Replies(p), {q \in Posts : StatusIn(ids, q) # Null})
    IN [k \in DOMAIN posts |->
           [copy |-> "none", post |-> posts[k], id |-> StatusIn(ids, posts[k]), fav |-> FALSE,
            parent |-> Parent(ids, posts[k])]]

Forward ==
    /\ At("forward")
    /\ \/ /\ \E ids \in Views :
                req' = IF req.local \in ids
                       THEN [req EXCEPT !.pc = "translate",
                                        !.items = Thread(ids, meaning[req.local].post)]
                       ELSE [req EXCEPT !.pc = "clear"]
          /\ UNCHANGED used
       \/ req' = [req EXCEPT !.pc = "ancestors"] /\ Disrupt("forward")
       \/ Show(<<>>, End) /\ Disrupt("forward")
    /\ UNCHANGED rowVars

\* translate_response: one statement for the ids of an item.
Translated(item) ==
    [item EXCEPT !.id = Back(@), !.parent = IF @ = Null THEN Null ELSE Back(@)]

\* Mutant: an item that cannot be translated is left as it is.
KeepRaw == req' = [req EXCEPT !.page = Append(@, req.items[Len(@) + 1])]
\* One item that cannot be translated, and none of them is used.
GiveUp == req' = [req EXCEPT !.pc = "ancestors", !.page = <<>>]

Translate ==
    /\ At("translate") /\ Len(req.page) < Len(req.items)
    /\ \/ /\ req' = [req EXCEPT !.page = Append(@, Translated(req.items[Len(@) + 1]))]
          /\ UNCHANGED used
       \/ GiveUp /\ Disrupt("db")
    /\ UNCHANGED rowVars

Answer ==
    /\ At("translate") /\ Len(req.page) = Len(req.items)
    /\ Show(req.page, End)
    /\ UNCHANGED <<rowVars, used>>

\* The row is cleared by its own id, and the error of that ignored.
Clear ==
    /\ At("clear") /\ req' = [req EXCEPT !.pc = "ancestors"]
    /\ \/ ClearRow(req.asked, req.rowId) /\ UNCHANGED used
       \/ UNCHANGED row /\ Disrupt("db")
    /\ UNCHANGED <<meaning, visible, favs, changes>>

FromPosts(batch, ids) == [k \in DOMAIN batch |-> RemoteEntry(ids, batch[k])]

\* build_ancestors: the chain of reply_to in the cached post, the root first.
Ancestors(ids) ==
    req' = [req EXCEPT !.pc = "replies", !.items = <<>>,
                       !.page = Reverse(FromPosts(CachedAbove[req.asked], ids))]
BuildAncestors ==
    /\ At("ancestors")
    /\ \E batch \in {Only(CachedAbove[req.asked], Identified)} :
          \/ Maps(batch) /\ Ancestors(Returning(batch, row'))
          \/ Refused(batch) /\ Ancestors(Nothing)

\* fetch_descendants: a page of replies, and whether another one is asked for.
AskReplies ==
    LET pages == ReplyPages[req.asked]
        more == req.cursor < Len(pages) /\ req.asks + 1 < MaxPages
    IN /\ At("replies")
       /\ \/ /\ req' = [req EXCEPT !.list = @ \o pages[req.cursor], !.asks = @ + 1,
                                   !.cursor = IF ~more THEN @
                                              ELSE IF req.asked \in Cursorless THEN 1 ELSE @ + 1,
                                   !.pc = IF more THEN "replies" ELSE "descendants"]
             /\ UNCHANGED used
          \/ req' = [req EXCEPT !.pc = "descendants"] /\ Disrupt("provider")
       /\ UNCHANGED rowVars

Descendants(ids) == Show(req.page \o FromPosts(req.list, ids), End)
MapDescendants ==
    /\ At("descendants")
    /\ \E batch \in {Only(req.list, Identified)} :
          \/ Maps(batch) /\ Descendants(Returning(batch, row'))
          \/ Refused(batch) /\ Descendants(Nothing)

----------------------------------------------------------------------------
\* What others do while the request is under way, noted per post.
Touch(p) == req' = IF At("idle") THEN req ELSE [req EXCEPT !.touched = @ \cup {p}]
Others ==
    /\ \/ \E c \in Remote : (Resolved(c) \/ Cleared(c) \/ Deleted(c)) /\ Touch(PostOf[c])
       \/ \E id \in visible : Hidden(id) /\ Touch(meaning[id].post)
       \/ \E id \in visible \ favs : Favourited(id) /\ UNCHANGED req
    /\ UNCHANGED used

Handle ==
    \/ Lookup \/ FetchBase \/ Enrich \/ MapPosts \/ Serve
    \/ Forward \/ Translate \/ Answer \/ Clear
    \/ BuildAncestors \/ AskReplies \/ MapDescendants

Next ==
    \/ \E kind \in DOMAIN Rankings : Open(kind)
    \/ \E c \in Asked : OpenContext(c)
    \/ Follow \/ Close \/ Handle \/ Others

Spec == Init /\ [][Next]_vars

\* Handlers run on, their statements and requests end, and the viewer follows
\* the links.
FairSpec == Spec /\ WF_vars(Handle \/ Follow \/ Close)

----------------------------------------------------------------------------
Pcs == {"idle", "lookup", "join", "forward", "translate", "clear", "ancestors", "replies",
        "descendants", "shown"}
Timeline == req.kind # "context" /\ At("shown")

TypeOK ==
    /\ \A c \in Remote : row[c] = NoRow \/
          /\ row[c].id \in DOMAIN meaning /\ meaning[row[c].id] = RowOf(c)
          /\ row[c].local # 0 => meaning[row[c].local] = Status(PostOf[c])
    /\ Len(meaning) <= MaxId /\ visible \cup favs \subseteq DOMAIN meaning
    /\ req.pc \in Pcs /\ req.fetch \in {"base", "enrich", "ready", "failed"}
    /\ Timeline => Len(req.page) <= Limit /\ req.next \in {End, Url} \cup DOMAIN meaning
    /\ changes \in 0..MaxChanges /\ used \in 0..MaxDisruptions

(* A page has the statuses of its candidates in the order of the ranking,  *)
(* although they come from three statements made at different times.       *)
(* Nothing is left out of a first page but what Mastodon hides and what    *)
(* was changed meanwhile; and a tag timeline shows a post once, even if    *)
(* some of its copies were resolved in between, unless a copy has no uri.  *)
PageFollowsRanking ==
    Timeline =>
        /\ \E at \in [DOMAIN req.page -> DOMAIN req.list] :
              /\ \A k \in DOMAIN at : req.list[at[k]] = req.page[k].copy
              /\ \A k, l \in DOMAIN at : k < l => at[k] < at[l]
        /\ used = 0 /\ req.max = Url /\ Len(req.page) < Limit =>
              \A i \in DOMAIN req.list :
                 LET c == req.list[i]
                 IN \/ \E k \in DOMAIN req.page : req.page[k].copy = c
                    \/ PostOf[c] \in req.touched
                    \/ c \in Natives /\ NativeId(c) \notin visible
                    \/ c \in Remote /\ Mapped(c) /\ row[c].local \notin visible
        /\ req.kind = "tag" =>
              \A k, l \in DOMAIN req.page :
                 k < l /\ req.page[k].post = req.page[l].post =>
                     {req.page[k].copy, req.page[l].copy} \cap Uriless # {}

(* The snowflake of a post stays the same from page to page, so that links *)
(* to it and the ids of a scroll go on working, until the provider says    *)
(* that the post is gone: however often feeds and contexts map it again,   *)
(* and the resolver fills the row and a 404 clears it.                     *)
HandlesKept ==
    [][\A c \in Remote : row[c] # NoRow /\ row'[c] # NoRow => row'[c].id = row[c].id]_vars

\* A batch that the request maps names a row twice.
BatchRepeats ==
    \/ Repeats(Only(req.list, Identified))
    \/ req.kind = "context" /\ Repeats(Only(CachedAbove[req.asked], Identified))

(* A status is served under an id of its very post, and a url appears in   *)
(* place of an id only when a statement failed, the provider gave no id or *)
(* a batch names one row twice.                                            *)
SnowflakeKept ==
    At("shown") =>
        \A k \in DOMAIN req.page :
            LET e == req.page[k]
            IN IF e.id # Url
               THEN Timeline => meaning[e.id].post = e.post
               ELSE used > 0 \/ e.copy \in Anonymous \/ BatchRepeats

(* A context that Mastodon answered is translated as a whole: what nobody  *)
(* changed meanwhile appears under its snowflake, and a reply names the    *)
(* status it replies to by the id that one has in the same answer.         *)
ContextWhole ==
    At("shown") /\ req.items # <<>> =>
        \A k \in DOMAIN req.page : req.page[k].post \notin req.touched =>
            /\ req.page[k].id = Back(req.items[k].id)
            /\ \A l \in DOMAIN req.page :
                  req.items[l].id = req.items[k].parent /\ req.page[l].post \notin req.touched
                  => req.page[k].parent = req.page[l].id

(* What the viewer favourited before asking for a page is shown as such    *)
(* where the row of the copy on the page has the status's id throughout.   *)
FavouriteShown ==
    Timeline => \A k \in DOMAIN req.page :
        LET e == req.page[k]
        IN \A id \in req.favs0 :
              /\ e.post \notin req.touched
              /\ \/ e.copy \in Natives /\ NativeId(e.copy) = id
                 \/ e.copy \in Remote /\ Mapped(e.copy) /\ row[e.copy].local = id
              => e.fav

(* Whoever follows the next links of a timeline comes to its end, while    *)
(* every page is ranked anew and posts change ids as they are resolved,    *)
(* if all have ids and no batch names a row twice.                         *)
ScrollEnds ==
    <>[](~Repeats(req.list) /\ ToSet(req.list) \cap Anonymous = {}) => []<>At("idle")
=============================================================================
