------------------------------ MODULE Resolver ------------------------------
(***************************************************************************)
(* How one CommonFeed post is tied to its copy on the Mastodon instance:   *)
(* Resolver::resolve of apps/server/src/mastodon/resolve.rs, the handlers  *)
(* that call it (detail and context of routes/mastodon/statuses.rs, the    *)
(* engagements), and the column mastodon_local_id they share.              *)
(*                                                                         *)
(* A search is a Shared future: it runs only while a caller polls it, is   *)
(* handed to another caller when the one that drove it goes away, and      *)
(* stays in the map, halted, when all of them do.                          *)
(***************************************************************************)
EXTENDS Integers, FiniteSets

CONSTANTS
    Callers,        \* requests about the post that can be under way at once
    MaxId,          \* bound on the ids Mastodon gives the post in turn
    Disruptions,    \* what may go wrong, see Disrupt
    MaxDisruptions, \* how often, all kinds together
    NoRow,          \* the post has no row in commonfeed_statuses
    Unmapped,       \* mastodon_local_id IS NULL
    Failed          \* an Err of a flight, whatever the ResolveError

ASSUME ResolverAssumption ==
    /\ IsFiniteSet(Callers) /\ MaxId \in Nat \ {0} /\ MaxDisruptions \in Nat
    /\ {NoRow, Unmapped, Failed} \cap Nat = {} /\ NoRow # Unmapped

VARIABLES
    row,      \* the row's mastodon_local_id, Unmapped or NoRow
    hasUri,   \* its post_uri is not empty; no upsert of the row ever sets it
    copy,     \* the id of Mastodon's copy of the post, 0 if it has none
    lastId,   \* the last id Mastodon gave a copy
    flights,  \* the search futures: their stage and answer
    inMap,    \* the future in Resolver::flights, 0 if there is none
    caller,   \* per caller: where it is, its kind, its flight and id
    used      \* disruptions so far

vars == <<row, hasUri, copy, lastId, flights, inMap, caller, used>>

Ids == 1..MaxId
Slots == 1..Cardinality(Callers)
NewFlight == [stage |-> "new", answer |-> 0]
Idle == [pc |-> "idle", kind |-> "detail", flight |-> 0, id |-> 0]

\* "cancel": the client hangs up and the handler is dropped; "db": a statement
\* fails; "search", "forward": a request to Mastodon fails or times out.
Disrupt(d) == d \in Disruptions /\ used < MaxDisruptions /\ used' = used + 1

Init ==
    /\ row \in {NoRow, Unmapped} /\ hasUri \in BOOLEAN
    /\ copy = 0 /\ lastId = 0
    /\ flights = [f \in Slots |-> NewFlight]
    /\ inMap = 0
    /\ caller = [c \in Callers |-> Idle]
    /\ used = 0

At(c, where) == caller[c].pc = where
Go(c, where) == caller' = [caller EXCEPT ![c].pc = where]

\* Mutant: the handle of the future is not dropped.
LeaveHolding(c) == Go(c, "idle")
Leave(c) == caller' = [caller EXCEPT ![c] = Idle]

\* A future that nobody holds.
Free == {f \in Slots : f # inMap /\ \A c \in Callers : caller[c].flight # f}

\* Mutant: a search that was taken out of the map is aborted.
PolledInMap(f) ==
    f = inMap /\ \E c \in Callers : At(c, "waiting") /\ caller[c].flight = f

\* A search is polled by the callers that await it.
Polled(f) == \E c \in Callers : At(c, "waiting") /\ caller[c].flight = f

\* What a handler does without an id: detail serves the cached post, an
\* engagement is rejected.
Without(c) == IF caller[c].kind = "detail" THEN Go(c, "cached") ELSE Leave(c)

----------------------------------------------------------------------------
\* The handler's own find_by_id.  context and anonymous details never resolve.
Open(c, kind, signedIn) ==
    /\ At(c, "idle") /\ row # NoRow
    /\ caller' = [caller EXCEPT ![c] =
          [@ EXCEPT !.kind = kind,
                    !.id = IF row = Unmapped THEN 0 ELSE row,
                    !.pc = IF row # Unmapped THEN "forward"
                           ELSE IF kind = "detail" /\ signedIn THEN "lookup"
                           ELSE IF kind = "detail" THEN "cached" ELSE "idle"]]
    /\ UNCHANGED <<hasUri, row, copy, lastId, flights, inMap, used>>

\* An engagement resolves the id it was given right away.
Engage(c) ==
    /\ At(c, "idle")
    /\ caller' = [caller EXCEPT ![c] = [@ EXCEPT !.kind = "engage", !.pc = "lookup"]]
    /\ UNCHANGED <<hasUri, row, copy, lastId, flights, inMap, used>>

\* resolve's find_by_id.  An engagement passes an id without a row through.
Lookup(c) ==
    /\ At(c, "lookup")
    /\ \/ row \in Ids /\ UNCHANGED used
          /\ caller' = [caller EXCEPT ![c] = [@ EXCEPT !.pc = "forward", !.id = row]]
       \/ row = NoRow /\ Without(c) /\ UNCHANGED used
       \/ row = Unmapped /\ Go(c, "join") /\ UNCHANGED used
       \/ Without(c) /\ Disrupt("db")
    /\ UNCHANGED <<hasUri, row, copy, lastId, flights, inMap>>

\* Under the lock of the map: share the flight, or insert a new one.
Join(c) ==
    /\ At(c, "join")
    /\ LET f == IF inMap # 0 THEN inMap ELSE CHOOSE s \in Free : TRUE
       IN /\ flights' = IF inMap # 0 THEN flights ELSE [flights EXCEPT ![f] = NewFlight]
          /\ inMap' = f
          /\ caller' = [caller EXCEPT ![c] = [@ EXCEPT !.pc = "waiting", !.flight = f]]
    /\ UNCHANGED <<hasUri, row, copy, lastId, used>>

----------------------------------------------------------------------------
Becomes(f, stage, answer) ==
    flights' = [flights EXCEPT ![f] = [stage |-> stage, answer |-> answer]]

\* drive_search looks the row up again, then sends the search, which needs the
\* URI of the post.
Search(f) ==
    /\ flights[f].stage = "new" /\ Polled(f)
    /\ \/ row \in Ids /\ Becomes(f, "ready", row) /\ UNCHANGED used
       \/ row = NoRow /\ Becomes(f, "ready", Failed) /\ UNCHANGED used
       \/ row = Unmapped /\ ~hasUri /\ Becomes(f, "ready", Failed) /\ UNCHANGED used
       \/ row = Unmapped /\ hasUri /\ Becomes(f, "asked", 0) /\ UNCHANGED used
       \/ Becomes(f, "ready", Failed) /\ Disrupt("db")
    /\ UNCHANGED <<hasUri, row, copy, lastId, inMap, caller>>

\* Mastodon answers with its copy, fetching one first if it has none; whether
\* somebody polls the search or not.  It may also find nothing.
Answer(f) ==
    /\ flights[f].stage = "asked"
    /\ \/ /\ copy # 0 /\ Becomes(f, "answered", copy)
          /\ UNCHANGED <<hasUri, copy, lastId, used>>
       \/ /\ copy = 0 /\ lastId < MaxId
          /\ copy' = lastId + 1 /\ lastId' = lastId + 1
          /\ Becomes(f, "answered", lastId + 1) /\ UNCHANGED used
       \/ /\ Becomes(f, "ready", Failed) /\ Disrupt("search")
          /\ UNCHANGED <<hasUri, copy, lastId>>
    /\ UNCHANGED <<hasUri, row, inMap, caller>>

\* set_mastodon_local_id fills in a NULL only; that it did not is ignored.
Store(f) ==
    /\ flights[f].stage = "answered" /\ Polled(f)
    /\ \/ /\ row' = IF row = Unmapped THEN flights[f].answer ELSE row
          /\ Becomes(f, "ready", flights[f].answer) /\ UNCHANGED used
       \/ Becomes(f, "ready", Failed) /\ Disrupt("db") /\ UNCHANGED row
    /\ UNCHANGED <<hasUri, copy, lastId, inMap, caller>>

\* A caller polls the finished search.  The first to do so completes it.
Wake(c) ==
    /\ At(c, "waiting")
    /\ LET f == caller[c].flight
       IN /\ flights[f].stage \in {"ready", "done"}
          /\ Becomes(f, "done", flights[f].answer)
    /\ Go(c, "remove")
    /\ UNCHANGED <<hasUri, row, copy, lastId, inMap, used>>

\* What the caller does with the answer it was given.
Given(c) == flights[caller[c].flight].answer
Resume(c) ==
    caller' = [caller EXCEPT ![c] =
        IF Given(c) # Failed
        THEN [@ EXCEPT !.pc = "forward", !.id = Given(c), !.flight = 0]
        ELSE [Idle EXCEPT !.pc = IF caller[c].kind = "detail" THEN "cached" ELSE "idle"]]

\* Mutant: an error returns before the removal.
RemoveUnlessFailed(c) ==
    /\ At(c, "remove")
    /\ inMap' = IF Given(c) = Failed THEN inMap ELSE 0
    /\ Resume(c)
    /\ UNCHANGED <<hasUri, row, copy, lastId, flights, used>>

\* flights.remove(&snowflake): whatever future is under the key by now.
Remove(c) ==
    /\ At(c, "remove")
    /\ inMap' = 0
    /\ Resume(c)
    /\ UNCHANGED <<hasUri, row, copy, lastId, flights, used>>

----------------------------------------------------------------------------
\* The request to Mastodon about the copy with the id; only detail and context
\* react to its 404.  Other error answers are passed on to the client.
Forward(c) ==
    /\ At(c, "forward")
    /\ \/ caller[c].id = copy /\ Leave(c) /\ UNCHANGED used
       \/ /\ caller[c].id # copy /\ UNCHANGED used
          /\ IF caller[c].kind = "engage" THEN Leave(c) ELSE Go(c, "clear")
       \/ (Without(c) \/ Leave(c)) /\ Disrupt("forward")
    /\ UNCHANGED <<hasUri, row, copy, lastId, flights, inMap>>

\* Mutant: the clearing future is never awaited.
ClearNothing(c) ==
    At(c, "clear") /\ Without(c)
    /\ UNCHANGED <<hasUri, row, copy, lastId, flights, inMap, used>>

\* clear_mastodon_local_id by the post's id alone; its error is dropped.
Clear(c) ==
    /\ At(c, "clear")
    /\ \/ row' = (IF row = NoRow THEN NoRow ELSE Unmapped) /\ UNCHANGED used
       \/ UNCHANGED row /\ Disrupt("db")
    /\ Without(c)
    /\ UNCHANGED <<hasUri, copy, lastId, flights, inMap>>

\* The cached post, if need be refreshed: the provider may say it is gone.
Cached(c) ==
    /\ At(c, "cached")
    /\ \/ UNCHANGED <<hasUri, row, used>>
       \/ row' = NoRow /\ Disrupt("deleted")
    /\ Leave(c)
    /\ UNCHANGED <<hasUri, copy, lastId, flights, inMap>>

\* Dropped at an await; between Wake and the end of Remove there is none.
Cancel(c) ==
    /\ caller[c].pc \notin {"idle", "remove"} /\ Disrupt("cancel")
    /\ Leave(c)
    /\ UNCHANGED <<hasUri, row, copy, lastId, flights, inMap>>

\* A feed maps the post (map_posts), and Mastodon drops its copy of it.
Mapped == /\ row = NoRow /\ row' = Unmapped
          /\ UNCHANGED <<hasUri, copy, lastId, flights, inMap, caller, used>>
CopyDropped == /\ copy # 0 /\ copy' = 0 /\ lastId < MaxId
               /\ UNCHANGED <<hasUri, row, lastId, flights, inMap, caller, used>>

View(c) == Open(c, "detail", TRUE)
Proceed(c) == \/ Lookup(c) \/ Join(c) \/ Wake(c) \/ Remove(c)
              \/ Forward(c) \/ Clear(c) \/ Cached(c)
Fly(f) == Search(f) \/ Answer(f) \/ Store(f)

Next ==
    \/ \E c \in Callers :
          \/ View(c) \/ Open(c, "detail", FALSE) \/ Open(c, "context", FALSE)
          \/ Engage(c) \/ Proceed(c) \/ Cancel(c)
    \/ \E f \in Slots : Fly(f)
    \/ Mapped \/ CopyDropped

Spec == Init /\ [][Next]_vars

\* Handlers and polled searches run on, Mastodon answers or times out, and
\* signed-in users go on opening the post.
FairSpec ==
    /\ Spec /\ WF_vars(Mapped)
    /\ \A c \in Callers : WF_vars(Proceed(c)) /\ SF_vars(View(c))
    /\ \A f \in Slots : WF_vars(Fly(f))

----------------------------------------------------------------------------
Pcs == {"idle", "lookup", "join", "waiting", "remove", "forward", "clear", "cached"}
Stages == {"new", "asked", "answered", "ready", "done"}

TypeOK ==
    /\ row \in Ids \cup {Unmapped, NoRow} /\ hasUri \in BOOLEAN
    /\ copy \in 0..lastId /\ lastId \in 0..MaxId
    /\ flights \in [Slots -> [stage : Stages, answer : Ids \cup {0, Failed}]]
    /\ inMap \in Slots \cup {0}
    /\ caller \in [Callers -> [pc : Pcs, kind : {"detail", "context", "engage"},
                               flight : Slots \cup {0}, id : Ids \cup {0}]]
    /\ \A c \in Callers :
          /\ caller[c].flight # 0 <=> caller[c].pc \in {"waiting", "remove"}
          /\ At(c, "forward") => caller[c].id # 0
    /\ used \in 0..MaxDisruptions

(* A completed search is never left in the map: while one is there, some   *)
(* caller is about to remove it.  Otherwise its answer, an error perhaps,  *)
(* would be given to every later caller for good.  Callers may hang up at  *)
(* any await, and may remove each other's flights.                         *)
NoPinnedFlight ==
    inMap # 0 /\ flights[inMap].stage = "done" =>
        \E c \in Callers : At(c, "remove")

(* A caller that awaits a search is answered, whoever started the search   *)
(* and however many of the others have hung up.                            *)
WaitersServed ==
    \A c \in Callers : At(c, "waiting") ~> ~At(c, "waiting")

(* An id that Mastodon no longer knows does not stay: after Mastodon has   *)
(* dropped its copy for the last time, the row comes to hold the id of the *)
(* new one and keeps it, although searches with old answers, late 404s and *)
(* clears that wipe a newer id are still under way at that time.  A row    *)
(* without a URI is never searched for (resolve.rs:155).                   *)
MappingHeals == hasUri => <>[](copy # 0 /\ row = copy)
=============================================================================
