---------------------------- MODULE WriteRouting ----------------------------
(***************************************************************************)
(* How a client's write reaches Mastodon: the fallback middleware of       *)
(* apps/server/src/middleware/mastodon_fallback.rs around the handlers of  *)
(* routes/mastodon (create_status, create_report, the six engagements, and *)
(* proxy_fallback for all the others), the translation of the ids in the   *)
(* request and in the answer, and the mapping of errors to statuses.       *)
(*                                                                         *)
(* An id in a request is a snowflake, which stands for a row of            *)
(* commonfeed_statuses, or an id of Mastodon's own.  Several snowflakes    *)
(* may stand for one post, found through several providers.  The search of *)
(* the resolver is one step here; Resolver has its steps.                  *)
(***************************************************************************)
EXTENDS Integers, Sequences

CONSTANTS
    Requests,       \* the requests of clients, each sent once
    Snowflakes,     \* ids of rows
    OriginOf,       \* the post that a snowflake stands for
    Uriless,        \* the snowflakes whose rows have an empty post_uri
    Native,         \* the id of a post of the instance: no row has it
    Wrapper,        \* the id of the status that a request creates
    MaxId,          \* bound on the ids Mastodon gives its copies
    Bodies,         \* the bodies of requests, among those of Receive
    NamedIds,       \* the sequences of ids that a request may name
    Disruptions,    \* what may go wrong, see Disrupt
    MaxDisruptions, \* how often, all kinds together
    NoRow, Unmapped \* no row, mastodon_local_id IS NULL

Origins == {OriginOf[s] : s \in Snowflakes}
Ids == 1..MaxId

ASSUME RoutingAssumption ==
    /\ MaxId \in Nat /\ MaxDisruptions \in Nat
    /\ Snowflakes \subseteq Nat /\ Snowflakes \cap Ids = {}
    /\ Uriless \subseteq Snowflakes
    /\ Native \notin Snowflakes \cup Ids /\ Wrapper \notin Snowflakes \cup Ids \cup {Native}
    /\ {NoRow, Unmapped} \cap (Snowflakes \cup Ids \cup {Native, Wrapper}) = {}
    /\ NoRow # Unmapped
    /\ NamedIds \subseteq Seq(Snowflakes \cup {Native})

VARIABLES
    base,    \* whether MASTODON_API_URL is set
    column,  \* per snowflake: mastodon_local_id, Unmapped or NoRow
    copy,    \* per post: the id of Mastodon's copy of it, 0 if it has none
    owner,   \* the post that each id Mastodon gave so far is of
    req,     \* per request: what is known of it
    sent,    \* history: per request the messages Mastodon was sent
    applied, \* history: per request how often Mastodon performed it
    used     \* disruptions so far

vars == <<base, column, copy, owner, req, sent, applied, used>>
posts == <<copy, owner>>

Engagements == {"favourite", "reblog"}   \* the other four are like the first
Handled == Engagements \cup {"status", "report"}
Ops == Handled \cup {"other"}            \* proxy_fallback: PUT, DELETE, ...

Blank == [pc |-> "new", op |-> "other", body |-> "json", ids |-> <<>>, out |-> <<>>,
          error |-> "none", status |-> 0, final |-> FALSE, answer |-> <<>>]

Init ==
    /\ base \in BOOLEAN
    /\ column \in [Snowflakes -> {Unmapped}]
    /\ copy = [o \in Origins |-> 0] /\ owner = <<>>
    /\ req = [r \in Requests |-> Blank]
    /\ sent = [r \in Requests |-> <<>>] /\ applied = [r \in Requests |-> 0]
    /\ used = 0

\* "db": a statement fails; "lost": a request to Mastodon fails or times out,
\* before or after it was performed; "body": the answer cannot be parsed;
\* "search": the resolver's search fails; "refused": Mastodon refuses or fails;
\* "cancel": the client hangs up.
Disrupt(d) == d \in Disruptions /\ used < MaxDisruptions /\ used' = used + 1

At(r, pc) == req[r].pc = pc
Goto(r, pc) == req' = [req EXCEPT ![r].pc = pc]

----------------------------------------------------------------------------
\* EngagementError::into_response, and From<ResolveError>.
StatusOf(error) ==
    CASE error \in {"NotFound", "Unresolvable", "Upstream404"} -> 404
      [] error \in {"Forbidden", "Blocked"} -> 403
      [] error \in {"Unreachable", "BadBody"} -> 502
      [] error = "RateLimited" -> 429
      [] error = "Db" -> 500
      [] error = "Upstream500" -> 500

\* NoFallback is inserted into whatever an engagement answers.
Marked(op) == op \in Engagements

\* What the handler answers, for the middleware to look at.
Reply(r, status, error, answer) ==
    req' = [req EXCEPT ![r].pc = "fall", ![r].status = status, ![r].error = error,
                       ![r].answer = answer, ![r].final = Marked(req[r].op)]
Fail(r, error) == Reply(r, StatusOf(error), error, <<>>)

\* The middleware buffers the body of a request it may have to send on.
Buffered(body) == ~base \/ body # "large"

\* The Account extractor: no token or none that is valid, a failing statement.
Turned(status) ==
    \/ status = 401 /\ UNCHANGED used
    \/ status = 500 /\ Disrupt("db")

\* What precedes the handler's own steps.  The id of an engagement is in its
\* path and always translated, the ids in a body that is not JSON never are.
Receive(r, op, body, ids) ==
    LET begin(pc, status) ==
            req' = [req EXCEPT ![r] =
                [Blank EXCEPT !.pc = pc, !.op = op, !.body = body, !.ids = ids, !.status = status,
                              !.out = IF pc = "forward" THEN ids ELSE <<>>]]
    IN /\ At(r, "new")
       /\ op \in Engagements \cup {"other"} => Len(ids) = 1
       /\ \/ /\ ~Buffered(body)
             /\ begin("done", 413) /\ UNCHANGED used
          \/ /\ Buffered(body) /\ op = "other"
             /\ begin("fall", 404) /\ UNCHANGED used
          \/ /\ Buffered(body) /\ op \in Handled
             /\ \/ \E status \in {401, 500} : Turned(status) /\ begin("fall", status)
                \/ /\ op \notin Engagements /\ (~base \/ body = "broken")
                   /\ begin("fall", 502) /\ UNCHANGED used
                \/ /\ op \in Engagements \/ (base /\ body = "json")
                   /\ begin("resolve", 0) /\ UNCHANGED used
                \/ /\ op \notin Engagements /\ base /\ body = "form"
                   /\ begin("forward", 0) /\ UNCHANGED used
       /\ UNCHANGED <<base, column, posts, sent, applied>>

----------------------------------------------------------------------------
\* The id to be translated next, and the request once it is.
NextId(r) == req[r].ids[Len(req[r].out) + 1]
\* Mutant: only the first id is translated.
ResolvedOne(r, id) ==
    req' = [req EXCEPT ![r].out = Append(@, id), ![r].pc = "forward"]
Resolved(r, id) ==
    req' = [req EXCEPT ![r].out = Append(@, id),
                       ![r].pc = IF Len(req[r].out) + 1 = Len(req[r].ids) THEN "forward" ELSE @]

SearchErrors == {"Forbidden", "Blocked", "RateLimited", "Upstream404", "Upstream500", "Unreachable"}

\* The errors of resolve that leave the id as it is; in the mutant also that
\* of a post the search does not find.
LeftAloneToo == {"NotFound", "Unresolvable"}
LeftAlone == {"NotFound"}
Missed(r, error) ==
    IF error \in LeftAlone THEN Resolved(r, NextId(r)) ELSE Fail(r, error)

\* translate_request_id, and the match in apply.  An id without a row is left
\* as it is, and so is that of a row without a URI to search for; every other
\* error ends the request.
Resolve(r) ==
    /\ At(r, "resolve") /\ req[r].ids # <<>>
    /\ LET id == NextId(r)
           in(values) == id \in Snowflakes /\ column[id] \in values
           searched == in({Unmapped}) /\ base /\ id \notin Uriless
       IN \/ /\ ~in(Ids \cup {Unmapped}) \/ (in({Unmapped}) /\ base /\ id \in Uriless)
             /\ Missed(r, "NotFound") /\ UNCHANGED <<column, posts, used>>
          \/ /\ in(Ids) /\ Resolved(r, column[id]) /\ UNCHANGED <<column, posts, used>>
          \/ /\ id \in Snowflakes /\ Fail(r, "Db") /\ Disrupt("db") /\ UNCHANGED <<column, posts>>
          \/ /\ in({Unmapped}) /\ ~base
             /\ Fail(r, "Unreachable") /\ UNCHANGED <<column, posts, used>>
          \/ /\ searched
             /\ \/ /\ copy[OriginOf[id]] # 0
                   /\ column' = [column EXCEPT ![id] = copy[OriginOf[id]]]
                   /\ Resolved(r, column'[id]) /\ UNCHANGED <<posts, used>>
                \/ /\ copy[OriginOf[id]] = 0 /\ Len(owner) < MaxId
                   /\ owner' = Append(owner, OriginOf[id])
                   /\ copy' = [copy EXCEPT ![OriginOf[id]] = Len(owner')]
                   /\ column' = [column EXCEPT ![id] = Len(owner')]
                   /\ Resolved(r, Len(owner')) /\ UNCHANGED used
                \/ Missed(r, "Unresolvable") /\ UNCHANGED <<column, posts, used>>
                \/ /\ \E e \in SearchErrors : Fail(r, e)
                   /\ Disrupt("search") /\ UNCHANGED <<column, posts>>
    /\ UNCHANGED <<base, sent, applied>>

\* A body without ids.
NothingToResolve(r) ==
    /\ At(r, "resolve") /\ req[r].ids = <<>>
    /\ Goto(r, "forward")
    /\ UNCHANGED <<base, column, posts, sent, applied, used>>

----------------------------------------------------------------------------
\* The post an id means.
Denotes(id) == CASE id \in Snowflakes -> OriginOf[id]
                 [] id \in Ids -> owner[id]
                 [] OTHER -> id

Known(id) == id = Native \/ (id \in Ids /\ copy[owner[id]] = id)

\* Mastodon gets the message, performs it or not, and answers with the status,
\* 0 for an answer that is lost: 404 for an id it does not know, although a
\* report may be filed without such ids.
Mastodon(r, via, ids, status) ==
    LET knows == \A k \in DOMAIN ids : Known(ids[k])
        performs == applied' = [applied EXCEPT ![r] = @ + 1]
    IN /\ sent' = [sent EXCEPT ![r] = Append(@, [via |-> via, ids |-> ids])]
       /\ \/ (knows \/ req[r].op = "report") /\ performs /\ status = 200 /\ UNCHANGED used
          \/ ~knows /\ UNCHANGED applied /\ status = 404 /\ UNCHANGED used
          \/ status \in {405, 422, 503} /\ UNCHANGED applied /\ Disrupt("refused")
          \/ status = 0 /\ (performs \/ UNCHANGED applied) /\ Disrupt("lost")

Statuses == {0, 200, 404, 405, 422, 503}

\* forward.  An answer other than a success is passed on as it is.
Forward(r) ==
    LET then(s) == CASE s = 0 -> Fail(r, "Unreachable")
                     [] s = 200 -> Goto(r, "render")
                     [] OTHER -> Reply(r, s, "none", <<>>)
    IN /\ At(r, "forward")
       /\ \/ /\ base
             /\ \E s \in Statuses : Mastodon(r, "handler", req[r].out, s) /\ then(s)
          \/ /\ ~base /\ Fail(r, "Unreachable") /\ UNCHANGED <<sent, applied, used>>
       /\ UNCHANGED <<base, column, posts>>

\* reverse_map: the lowest snowflake mapped to the id, if there is one.
Back(id) ==
    LET rows == {s \in Snowflakes : column[s] = id}
    IN IF rows = {} THEN id ELSE CHOOSE s \in rows : \A t \in rows : s <= t

\* The ids in Mastodon's answer: a new status and what it replies to or quotes,
\* a report's statuses, the status itself or the wrapper that reblogs it.
Answered(r) ==
    CASE req[r].op = "status" -> <<Wrapper>> \o req[r].out
      [] req[r].op = "reblog" -> <<Wrapper>> \o req[r].out
      [] OTHER -> req[r].out

\* apply sets the top id back to the snowflake if it still is the forwarded id.
Pin(r, ids) ==
    IF /\ req[r].op \in Engagements /\ req[r].out # req[r].ids
       /\ ids[1] = req[r].out[1]
    THEN [ids EXCEPT ![1] = req[r].ids[1]] ELSE ids

\* The answer to a success is parsed and its ids are translated back.
Render(r) ==
    /\ At(r, "render")
    /\ \/ Fail(r, "BadBody") /\ Disrupt("body")
       \/ Fail(r, "Db") /\ Disrupt("db")
       \/ /\ Reply(r, 200, "none", Pin(r, [k \in DOMAIN Answered(r) |-> Back(Answered(r)[k])]))
          /\ UNCHANGED used
    /\ UNCHANGED <<base, column, posts, sent, applied>>

\* Mutant: an unreachable Mastodon is asked once more.
UnhandledOrBad == {404, 405, 502}
Unhandled == {404, 405}

\* The middleware looks at the answer of the handler.
Fall(r) ==
    /\ At(r, "fall")
    /\ Goto(r, IF base /\ ~req[r].final /\ req[r].status \in Unhandled
               THEN "proxy" ELSE "done")
    /\ UNCHANGED <<base, column, posts, sent, applied, used>>

\* The original request goes to Mastodon.
Proxy(r) ==
    LET then(s) == req' = [req EXCEPT ![r].pc = "passing", ![r].status = IF s = 0 THEN 502 ELSE s,
                                      ![r].answer = IF s = 200 THEN req[r].ids ELSE <<>>]
    IN /\ At(r, "proxy")
       /\ \E s \in Statuses : Mastodon(r, "fallback", req[r].ids, s) /\ then(s)
       /\ UNCHANGED <<base, column, posts>>

\* Its answer goes to the client once it is read to its end.
Pass(r) ==
    /\ At(r, "passing")
    /\ \/ Goto(r, "done") /\ UNCHANGED used
       \/ /\ req' = [req EXCEPT ![r].pc = "done", ![r].status = 502, ![r].answer = <<>>]
          /\ Disrupt("body")
    /\ UNCHANGED <<base, column, posts, sent, applied>>

----------------------------------------------------------------------------
\* The handler is dropped at an await.
Cancel(r) ==
    /\ req[r].pc \notin {"new", "done", "gone"} /\ Disrupt("cancel")
    /\ Goto(r, "gone")
    /\ UNCHANGED <<base, column, posts, sent, applied>>

\* Meanwhile, in other requests: a search stores an id, a 404 of Mastodon clears
\* one, a refresh deletes a row.
RowChanges(s) ==
    /\ \/ /\ column[s] = Unmapped /\ s \notin Uriless /\ copy[OriginOf[s]] # 0
          /\ column' = [column EXCEPT ![s] = copy[OriginOf[s]]]
       \/ column[s] \in Ids /\ column' = [column EXCEPT ![s] = Unmapped]
       \/ column[s] # NoRow /\ column' = [column EXCEPT ![s] = NoRow]
    /\ UNCHANGED <<base, posts, req, sent, applied, used>>

\* Mastodon drops its copy of a post, or fetches the post.
CopyChanges(o) ==
    /\ \/ copy[o] # 0 /\ copy' = [copy EXCEPT ![o] = 0] /\ UNCHANGED owner
       \/ /\ copy[o] = 0 /\ Len(owner) < MaxId
          /\ owner' = Append(owner, o) /\ copy' = [copy EXCEPT ![o] = Len(owner')]
    /\ UNCHANGED <<base, column, req, sent, applied, used>>

Handle(r) ==
    \/ Resolve(r) \/ NothingToResolve(r) \/ Forward(r) \/ Render(r)
    \/ Fall(r) \/ Proxy(r) \/ Pass(r)

Next ==
    \/ \E r \in Requests :
          \/ \E op \in Ops, body \in Bodies, ids \in NamedIds : Receive(r, op, body, ids)
          \/ Handle(r) \/ Cancel(r)
    \/ \E s \in Snowflakes : RowChanges(s)
    \/ \E o \in Origins : CopyChanges(o)

Spec == Init /\ [][Next]_vars

----------------------------------------------------------------------------
Pcs == {"new", "resolve", "forward", "render", "fall", "proxy", "passing", "done", "gone"}

TypeOK ==
    /\ base \in BOOLEAN /\ used \in 0..MaxDisruptions
    /\ column \in [Snowflakes -> Ids \cup {Unmapped, NoRow}]
    /\ owner \in Seq(Origins) /\ Len(owner) <= MaxId
    /\ copy \in [Origins -> 0..Len(owner)]
    /\ \A r \in Requests :
          /\ req[r].pc \in Pcs /\ req[r].op \in Ops
          /\ Len(req[r].out) <= Len(req[r].ids)
          /\ At(r, "forward") \/ At(r, "render") => Len(req[r].out) = Len(req[r].ids)
          /\ applied[r] \in 0..2 /\ Len(sent[r]) \in 0..2

Verdict(status) == IF status = 200 THEN "done" ELSE IF status < 500 THEN "refused" ELSE "unsure"

(* A write is performed at most once, although the middleware sends it to  *)
(* Mastodon again when the handler's answer is a 404 or a 405, and what    *)
(* the client is told is true: a success was performed, and anything       *)
(* refused below 500 was not, whichever of the two requests was answered.  *)
OnceAndTruthful == INSTANCE Delivery WITH
    performed <- applied,
    told <- [r \in Requests |-> IF At(r, "done") THEN Verdict(req[r].status) ELSE "nothing"]
DeliverySpec == OnceAndTruthful!Spec

(* Translation keeps what a request means.  What a handler sends is about  *)
(* the very posts the client named, in their order, and a snowflake goes   *)
(* out only when its row is gone (resolve.rs:23: callers must not forward  *)
(* it) or has no URI that Mastodon could be asked for; an engagement is    *)
(* never sent by the fallback, 404 or not; and the ids the client is       *)
(* handed stand for the posts Mastodon answered about, so that the wrapper *)
(* of a reblog is not given the id of the post it reblogs                  *)
(* (engagements.rs:163).  Rows, copies and mappings change between the     *)
(* steps.                                                                  *)
NamesKept ==
    \A r \in Requests :
        /\ \A k \in DOMAIN sent[r] :
              /\ req[r].op \in Engagements => sent[r][k].via = "handler"
              /\ /\ sent[r][k].via = "handler"
                 /\ req[r].op \in Engagements \/ req[r].body = "json"
                 => \A i \in DOMAIN sent[r][k].ids :
                       LET id == sent[r][k].ids[i]
                       IN /\ Denotes(id) = Denotes(req[r].ids[i])
                          /\ id \in Snowflakes \ Uriless => column[id] = NoRow
        /\ /\ req[r].pc \in {"fall", "done"} /\ req[r].answer # <<>>
           /\ Len(sent[r]) = 1 /\ sent[r][1].via = "handler"
           => \A i \in DOMAIN req[r].answer :
                 Denotes(req[r].answer[i]) = Denotes(Answered(r)[i])

(* resolve.rs:22-23, of Unresolvable: "forwarding the snowflake to         *)
(* Mastodon would 404, so callers must reject rather than proxy."          *)
UnresolvableRejected ==
    \A r \in Requests : req[r].error = "Unresolvable" => sent[r] = <<>>
=============================================================================
