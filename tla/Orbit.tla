------------------------------- MODULE Orbit -------------------------------
(***************************************************************************)
(* The personalisation worker workers/orbit.  It polls four engagement     *)
(* sources of the Mastodon database, embeds the engaged posts and folds    *)
(* every engagement into the vector of its account.  Two tables survive a  *)
(* restart: orbit_cursors (how far each source was read) and               *)
(* orbit_user_vectors.  They are written by separate statements, so what   *)
(* matters is how a cursor and the folds it stands for stay together when  *)
(* a step fails, the process dies, or a row becomes visible late.          *)
(*                                                                         *)
(* A vector is abstracted to the engagements folded into it: `folds' holds *)
(* <<row, n>> when row was the n-th fold, and `count' is the stored        *)
(* engagement_count.  A post is abstracted to its rendered text, which is  *)
(* never empty: it starts with the author's handle, username@domain.       *)
(* The worker is the only writer of its tables, so the states it loads     *)
(* are the stored ones and are not copied.                                 *)
(***************************************************************************)
EXTENDS Integers, Sequences, FiniteSets

CONSTANTS
    Rows,           \* the rows the Mastodon tables will ever hold
    Accounts,       \* local accounts that engage
    Texts,          \* rendered texts of the posts engaged with
    BatchSize,      \* orbit_batch_size: LIMIT of one source's poll
    TeiBatch,       \* tei_batch_size: texts per embedding request
    ReplayAll,      \* orbit_replay_hours = 0
    WindowStarts,   \* possible starts of the replay window, now() - hours
    Disruptions,    \* what may go wrong, see Disrupt
    MaxDisruptions, \* how often, all kinds together
    NoCursor        \* a source without a row in orbit_cursors

KindOrder == <<"Like", "Repost", "Reply", "Bookmark">>
Kinds == {"Like", "Repost", "Reply", "Bookmark"}

\* Rows the worker never polls: remote actors' rows, ordinary posts.
NotPolled == "NotPolled"

TableOf(k) == IF k = "Like" THEN "favourites"
              ELSE IF k = "Bookmark" THEN "bookmarks" ELSE "statuses"

Row == [table : {"favourites", "bookmarks", "statuses"},
        kind : Kinds \cup {NotPolled},
        id : Nat \ {0}, account : Accounts, text : Texts, at : Nat]

ASSUME RowsAssumption ==
    /\ Rows \subseteq Row
    /\ IsFiniteSet(Rows)
    /\ \A r \in Rows : r.kind \in Kinds => r.table = TableOf(r.kind)
    /\ \A r, s \in Rows : r.table = s.table /\ r.id = s.id => r = s

ASSUME ConfigAssumption ==
    /\ BatchSize \in Nat \ {0}
    /\ TeiBatch \in Nat \ {0}
    /\ ReplayAll \in BOOLEAN
    /\ WindowStarts \subseteq Nat
    /\ MaxDisruptions \in Nat
    /\ NoCursor \notin Nat

VARIABLES
    visible,   \* committed rows of the Mastodon tables
    cursors,   \* orbit_cursors
    vectors,   \* orbit_user_vectors
    pc,        \* where the worker is; "down" when it does not run
    next,      \* position in KindOrder of a loop over the four kinds
    window,    \* start of the replay window of this process
    from,      \* the cursors this cycle loaded
    batch,     \* the engagements this cycle polled
    embedded,  \* the keys of this cycle's map of embeddings
    todo,      \* accounts of this cycle whose upsert is still to come
    base,      \* history: where init_cursor placed the cursor of a source
    used,      \* disruptions so far
    faults     \* their kinds

stored == <<cursors, vectors, base>>
cycle  == <<from, batch, embedded, todo>>
trouble == <<used, faults>>
vars   == <<visible, stored, pc, next, window, cycle, trouble>>

----------------------------------------------------------------------------
(* What may go wrong: "late" a row commits after a row of its table with a *)
(* higher id; "crash"; "stop" ctrl-c between cycles; "fresh" a start with  *)
(* --fresh; "poll", "tei", "load", "upsert", "save" the failing call.      *)

Disrupt(d) == /\ d \in Disruptions /\ used < MaxDisruptions
              /\ used' = used + 1 /\ faults' = faults \cup {d}

\* The greatest and the least of a set of ids; none if it is empty.
Greatest(S) == {x \in S : \A y \in S : y <= x}
Least(S)    == {x \in S : \A y \in S : x <= y}

\* Mutant: the missing row of a source is not taken for 0.
AfterRaw(k) == cursors[k]

After(k) == IF cursors[k] = NoCursor THEN 0 ELSE cursors[k]

IsFolded(r) == \E f \in vectors[r.account].folds : f[1] = r

\* Mutant: sorted newest first.
BeforeNewest(r, s) ==
    \/ r.at > s.at
    \/ r.at = s.at /\ r.id > s.id

\* The order of sort_by_key(created_at): stable over the four polls, each by id.
KindIndex(k) == CHOOSE i \in 1..4 : KindOrder[i] = k
Before(r, s) ==
    \/ r.at < s.at
    \/ r.at = s.at /\ KindIndex(r.kind) < KindIndex(s.kind)
    \/ r.at = s.at /\ r.kind = s.kind /\ r.id < s.id

\* Mutants of Polled: ORDER BY id DESC, and id >= cursor.
PolledNewest(k) ==
    LET ahead == {r \in visible : r.kind = k /\ r.id > from[k]}
    IN {r \in ahead : Cardinality({s \in ahead : s.id >= r.id}) <= BatchSize}
PolledFrom(k) ==
    LET ahead == {r \in visible : r.kind = k /\ r.id >= from[k]}
    IN {r \in ahead : Cardinality({s \in ahead : s.id <= r.id}) <= BatchSize}

\* What one source's poll returns: its first BatchSize rows past the cursor.
Polled(k) ==
    LET ahead == {r \in visible : r.kind = k /\ r.id > from[k]}
    IN {r \in ahead : Cardinality({s \in ahead : s.id <= r.id}) <= BatchSize}

\* The engagements whose text has an embedding, of account a among them.
Folding == {r \in batch : r.text \in embedded}
FoldingOf(a) == {r \in Folding : r.account = a}

\* The embedding request a text of the batch is sent with.
TextsOf(B) == {r.text : r \in B}
FirstWith(t) ==
    CHOOSE r \in batch : r.text = t /\ \A s \in batch : s.text = t => ~Before(s, r)
Chunk(t) ==
    Cardinality({u \in TextsOf(batch) : Before(FirstWith(u), FirstWith(t))})
        \div TeiBatch

\* SELECT COALESCE(MIN(id) - 1, 0) FROM the table WHERE created_at >= window.
Recent(k) == {r \in visible : r.table = TableOf(k) /\ r.at >= window}
WindowStart(k) == IF ReplayAll \/ Recent(k) = {} THEN {0}
                  ELSE {m - 1 : m \in Least({r.id : r \in Recent(k)})}

----------------------------------------------------------------------------
NoVector == [count |-> 0, folds |-> {}]

EmptyCycle == /\ from' = [k \in Kinds |-> 0]
              /\ batch' = {} /\ embedded' = {} /\ todo' = {}

Init ==
    /\ visible = {}
    /\ cursors = [k \in Kinds |-> NoCursor]
    /\ vectors = [a \in Accounts |-> NoVector]
    /\ base = [k \in Kinds |-> 0]
    /\ pc = "down" /\ next = 1
    /\ window \in WindowStarts
    /\ from = [k \in Kinds |-> 0]
    /\ batch = {} /\ embedded = {} /\ todo = {}
    /\ used = 0 /\ faults = {}

\* Mastodon commits a row.  Ids are drawn before the commit, so a row may
\* appear after one of its table with a higher id.
Commit(r) ==
    /\ r \notin visible
    /\ \/ /\ \A s \in visible : s.table = r.table => s.id < r.id
          /\ UNCHANGED trouble
       \/ Disrupt("late")
    /\ visible' = visible \cup {r}
    /\ UNCHANGED <<stored, pc, next, window, cycle>>

Start ==
    /\ pc = "down"
    /\ \/ pc' = "init" /\ UNCHANGED trouble
       \/ pc' = "wipeCursors" /\ Disrupt("fresh")
    /\ next' = 1
    /\ window' \in {w \in WindowStarts : w >= window}
    /\ UNCHANGED <<visible, stored, cycle>>

WipeCursors ==
    /\ pc = "wipeCursors"
    /\ cursors' = [k \in Kinds |-> NoCursor]
    /\ base' = [k \in Kinds |-> 0]
    /\ pc' = "wipeVectors"
    /\ UNCHANGED <<visible, vectors, next, window, cycle, trouble>>

WipeVectors ==
    /\ pc = "wipeVectors"
    /\ vectors' = [a \in Accounts |-> NoVector]
    /\ pc' = "init"
    /\ UNCHANGED <<visible, cursors, base, next, window, cycle, trouble>>

\* One turn of init_cursors' loop.  save_cursor logs a failure and returns.
InitCursor ==
    /\ pc = "init"
    /\ LET k == KindOrder[next]
       IN IF cursors[k] # NoCursor
          THEN UNCHANGED <<cursors, base, trouble>>
          ELSE \E start \in WindowStart(k) :
                  \/ /\ start > 0
                     /\ cursors' = [cursors EXCEPT ![k] = start]
                     /\ base' = [base EXCEPT ![k] = start]
                     /\ UNCHANGED trouble
                  \/ start > 0 /\ Disrupt("save") /\ UNCHANGED <<cursors, base>>
                  \/ start = 0 /\ UNCHANGED <<cursors, base, trouble>>
    /\ next' = IF next = 4 THEN 1 ELSE next + 1
    /\ pc' = IF next = 4 THEN "idle" ELSE "init"
    /\ UNCHANGED <<visible, vectors, window, cycle>>

----------------------------------------------------------------------------
\* poll_cycle.  A failing load of the cursors skips the cycle: no step.
LoadCursors ==
    /\ pc = "idle"
    /\ from' = [k \in Kinds |-> After(k)]
    /\ pc' = "poll"
    /\ UNCHANGED <<visible, stored, next, window, batch, embedded, todo, trouble>>

Poll ==
    /\ pc = "poll"
    /\ \E failed \in SUBSET Kinds :
          /\ IF failed = {} THEN UNCHANGED trouble ELSE Disrupt("poll")
          /\ LET B == UNION {Polled(k) : k \in Kinds \ failed}
             IN IF B = {}
                THEN pc' = "idle" /\ EmptyCycle
                ELSE /\ pc' = "embed" /\ batch' = B
                     /\ UNCHANGED <<from, embedded, todo>>
    /\ UNCHANGED <<visible, stored, next, window>>

\* A chunk's request fails as a whole; the service answers one vector per text.
Embed ==
    /\ pc = "embed"
    /\ \E failed \in SUBSET {Chunk(t) : t \in TextsOf(batch)} :
          /\ IF failed = {} THEN UNCHANGED trouble ELSE Disrupt("tei")
          /\ LET E == {t \in TextsOf(batch) : Chunk(t) \notin failed}
             IN IF E = {}
                THEN pc' = "idle" /\ EmptyCycle
                ELSE /\ pc' = "load" /\ embedded' = E
                     /\ UNCHANGED <<from, batch, todo>>
    /\ UNCHANGED <<visible, stored, next, window>>

\* batch_load_vectors: its failure is the only one that skips the cursors.
LoadVectors ==
    /\ pc = "load"
    /\ \/ /\ pc' = "upsert"
          /\ todo' = {r.account : r \in Folding}
          /\ UNCHANGED <<from, batch, embedded, trouble>>
       \/ pc' = "idle" /\ EmptyCycle /\ Disrupt("load")
    /\ UNCHANGED <<visible, stored, next, window>>

\* An account's engagements are folded in the order of the sorted batch.
FoldAt(r) == vectors[r.account].count
    + Cardinality({s \in FoldingOf(r.account) : s = r \/ Before(s, r)})
NewFolds(a) == {<<r, FoldAt(r)>> : r \in FoldingOf(a)}

\* One account of the HashMap loop.  upsert_vector logs a failure and returns.
Upsert(a) ==
    /\ pc = "upsert" /\ a \in todo
    /\ \/ /\ vectors' = [vectors EXCEPT ![a] =
                [count |-> vectors[a].count + Cardinality(FoldingOf(a)),
                 folds |-> vectors[a].folds \cup NewFolds(a)]]
          /\ UNCHANGED trouble
       \/ Disrupt("upsert") /\ UNCHANGED vectors
    /\ todo' = todo \ {a}
    /\ pc' = IF todo' = {} THEN "save" ELSE "upsert"
    /\ next' = 1
    /\ UNCHANGED <<visible, cursors, base, window, from, batch, embedded>>

\* Mutant: the ids of the whole batch, whatever their table.
ProcessedAny(k) == {r.id : r \in Folding}

\* The embedded ids of one source.
Processed(k) == {r.id : r \in {s \in Folding : s.kind = k}}

\* The last loop of poll_cycle: the greatest embedded id of one source.
SaveCursor ==
    /\ pc = "save"
    /\ LET k == KindOrder[next]
       IN \/ \E last \in Greatest(Processed(k)) :
                cursors' = [cursors EXCEPT ![k] = last] /\ UNCHANGED trouble
          \/ Processed(k) # {} /\ Disrupt("save") /\ UNCHANGED cursors
          \/ Processed(k) = {} /\ UNCHANGED <<cursors, trouble>>
    /\ IF next = 4 THEN pc' = "idle" /\ next' = 1 /\ EmptyCycle
                   ELSE next' = next + 1 /\ UNCHANGED <<pc, cycle>>
    /\ UNCHANGED <<visible, vectors, base, window>>

----------------------------------------------------------------------------
\* ctrl_c is only looked at between cycles.
Stop ==
    /\ pc = "idle" /\ Disrupt("stop")
    /\ pc' = "down"
    /\ UNCHANGED <<visible, stored, next, window, cycle>>

Crash ==
    /\ pc # "down" /\ Disrupt("crash")
    /\ pc' = "down" /\ next' = 1 /\ EmptyCycle
    /\ UNCHANGED <<visible, stored, window>>

Work == \/ Start \/ WipeCursors \/ WipeVectors \/ InitCursor
        \/ LoadCursors \/ Poll \/ Embed \/ LoadVectors
        \/ (\E a \in Accounts : Upsert(a)) \/ SaveCursor

Next == (\E r \in Rows : Commit(r)) \/ Work \/ Stop \/ Crash

Spec == Init /\ [][Next]_vars

\* The interval ticks for ever and a stopped worker is started again.
FairSpec == Spec /\ WF_vars(Work)

----------------------------------------------------------------------------
Pcs == {"down", "wipeCursors", "wipeVectors", "init", "idle",
        "poll", "embed", "load", "upsert", "save"}

TypeOK ==
    /\ visible \subseteq Rows
    /\ cursors \in [Kinds -> Nat \cup {NoCursor}]
    /\ vectors \in [Accounts -> [count : Nat, folds : SUBSET (Rows \X Nat)]]
    /\ pc \in Pcs /\ next \in 1..4
    /\ window \in WindowStarts
    /\ from \in [Kinds -> Nat]
    /\ batch \subseteq Rows /\ embedded \subseteq Texts /\ todo \subseteq Accounts
    /\ base \in [Kinds -> Nat]
    /\ used \in 0..MaxDisruptions /\ faults \subseteq Disruptions

(* Folds and cursors are written by different statements of the cycle.     *)
(* Unless the worker dies or a cursor write fails between them, no         *)
(* engagement is folded twice into the vector that is stored, whatever     *)
(* else fails and also across restarts and --fresh wipes.                  *)
AtMostOnce ==
    faults \cap {"crash", "save"} = {} =>
        \A a \in Accounts : \A f, g \in vectors[a].folds : f[1] = g[1] => f = g

(* A cursor never passes an engagement that is missing from its account's  *)
(* vector: whatever lies between where init_cursor started a source and    *)
(* its cursor was folded.  Crashes, failing polls and failing cursor       *)
(* writes keep this; what breaks it is a lost embedding request, a lost    *)
(* upsert (logged, and the cursor advances all the same) and a row that    *)
(* becomes visible behind the cursor.                                      *)
PassedAreFolded ==
    \A r \in visible :
        /\ r.kind \in Kinds /\ cursors[r.kind] # NoCursor
        /\ base[r.kind] < r.id /\ r.id <= cursors[r.kind]
        => IsFolded(r)

NoLoss == faults \cap {"tei", "upsert", "late"} = {} => PassedAreFolded

(* The moving average weighs late folds more, so the engagements of one    *)
(* source must enter a vector in the order they were made, over batches    *)
(* and restarts, as long as nothing is folded again after a crash and ids  *)
(* grow with time, as Mastodon's do.                                       *)
IdsFollowTime == \A r, s \in Rows : r.kind = s.kind /\ r.id < s.id => r.at <= s.at

FoldOrder ==
    IdsFollowTime /\ faults \cap {"crash", "save"} = {} =>
        \A a \in Accounts : \A f, g \in vectors[a].folds :
            f[1].kind = g[1].kind /\ f[1].id < g[1].id => f[2] < g[2]

(* A source is only ever resumed at a row that was seen: a cursor that     *)
(* moved past its start stands at the id of a visible row of its kind, so  *)
(* ids of one table never leak into the cursor of another.                 *)
CursorAtRow ==
    \A k \in Kinds : cursors[k] # NoCursor /\ cursors[k] # base[k] =>
        \E r \in visible : r.kind = k /\ r.id = cursors[k]

(* Every engagement that becomes visible is in the end folded, or lies     *)
(* before the replay window, although polls, loads, cursor writes and the  *)
(* whole process fail now and then, unless one of the losses that NoLoss   *)
(* names has happened.                                                     *)
EventuallyFolded ==
    \A r \in Rows : r.kind \in Kinds =>
        (r \in visible ~> \/ IsFolded(r) \/ r.id <= base[r.kind]
                          \/ faults \cap {"tei", "upsert", "late"} # {})

(* main.rs:277-279 says of the cursors: "Engagements whose TEI batch       *)
(* failed remain ahead of the cursor and will be retried next cycle."      *)
FailedStayAhead ==
    [][\A k \in Kinds : pc = "save" /\ cursors'[k] # cursors[k] =>
          \A r \in batch : r.kind = k /\ r.text \notin embedded =>
              r.id > cursors'[k]]_vars
=============================================================================
