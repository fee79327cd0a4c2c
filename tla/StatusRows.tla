----------------------------- MODULE StatusRows -----------------------------
(***************************************************************************)
(* What the pages of the server are made from: the rows of the table       *)
(* commonfeed_statuses (crates/state/src/statuses/mapping.rs), Mastodon's  *)
(* own statuses with the viewer's favourites, and what other requests, the *)
(* resolver and Mastodon do to them meanwhile.                             *)
(*                                                                         *)
(* A source offers copies of posts: the pair (provider_domain, remote_id). *)
(* Rows and statuses draw their ids from one clock (timestamp_id), so an   *)
(* id says nothing of its kind; meaning is what each was given to.         *)
(***************************************************************************)
EXTENDS SequencesExt, FiniteSetsExt, Sublists

CONSTANTS
    Copies,     \* the copies of posts that sources offer
    PostOf,     \* the post that a copy is of
    Natives,    \* those that the sources read from Mastodon's database
    Seeds,      \* sets of the other copies: who has a resolved row at first
    MaxId,      \* bound on the ids given out
    MaxChanges, \* bound on what others do meanwhile
    NoRow       \* the copy has no row

Posts == {PostOf[c] : c \in Copies}
Remote == Copies \ Natives

\* The posts that Mastodon has at first, and whether there is room for the ids.
Known(seed) == {PostOf[c] : c \in seed \cup Natives}
Fits(seed) == Cardinality(Known(seed)) + Cardinality(seed) <= MaxId

ASSUME RowsAssumption ==
    /\ IsFiniteSet(Copies) /\ Natives \subseteq Copies
    /\ \A seed \in Seeds : seed \subseteq Remote /\ Fits(seed)
    /\ MaxId \in Nat /\ MaxChanges \in Nat
    /\ NoRow \notin [id : Nat, local : Nat]

VARIABLES
    row,     \* per remote copy: its row, [id, local], local = 0 for NULL
    meaning, \* what the ids given out so far stand for, in their order
    visible, \* the statuses that BASE_QUERY finds: neither gone nor hidden
    favs,    \* the statuses that the viewer has favourited
    changes  \* what others have done so far

rowVars == <<row, meaning, visible, favs, changes>>

Status(p) == [kind |-> "status", post |-> p, copy |-> "none"]
RowOf(c) == [kind |-> "row", post |-> PostOf[c], copy |-> c]

\* The id that a record of meaning was given.
IdIn(ids, what) == CHOOSE i \in DOMAIN ids : ids[i] = what

InitRows ==
    \E seed \in Seeds :
        LET posts == Known(seed)
            ids == SetToSeq({Status(p) : p \in posts}) \o SetToSeq({RowOf(c) : c \in seed})
        IN /\ meaning = ids
           /\ row = [c \in Remote |->
                 IF c \in seed
                 THEN [id |-> IdIn(ids, RowOf(c)), local |-> IdIn(ids, Status(PostOf[c]))]
                 ELSE NoRow]
           /\ visible = {IdIn(ids, Status(p)) : p \in posts}
           /\ favs = {} /\ changes = 0

----------------------------------------------------------------------------
Mapped(c) == row[c] # NoRow /\ row[c].local # 0
Room(n) == Len(meaning) + n <= MaxId

\* find_mastodon_ids_by_provider.
LocalIds(cs) == [c \in {d \in cs : Mapped(d)} |-> row[c].local]

\* reverse_map: the lowest snowflake that is mapped to the id, or the id.
Back(id) ==
    LET rows == {c \in Remote : Mapped(c) /\ row[c].local = id}
    IN IF rows = {} THEN id ELSE Min({row[c].id : c \in rows})

\* A batch names a row twice: ON CONFLICT DO UPDATE fails for the whole of it.
Repeats(batch) == \E i, j \in DOMAIN batch : i < j /\ batch[i] = batch[j]

\* Mutant: a conflicting row is replaced instead of updated.
Fresh(batch) == batch
\* The copies of a batch that get a new row: those without one.
New(batch) == Only(batch, {c \in Remote : row[c] = NoRow})

\* Mutant: DO NOTHING, which returns the new rows alone.
ReturningNew(batch, rows) == [c \in {d \in ToSet(batch) : row[d] = NoRow} |-> rows[c].id]
Returning(batch, rows) == [c \in ToSet(batch) |-> rows[c].id]

\* map_posts: an upsert that keeps the ids of the rows there are, and draws new
\* ones in the order of the batch.
Upserted(new) ==
    [c \in Remote |->
        IF c \in ToSet(new) THEN [id |-> Len(meaning) + IdIn(new, c), local |-> 0] ELSE row[c]]
Upsert(batch) ==
    \E new \in {New(batch)} :
        /\ Room(Len(new))
        /\ meaning' = meaning \o [k \in DOMAIN new |-> RowOf(new[k])]
        /\ row' = Upserted(new)

\* clear_mastodon_local_id, for the row with the id, if it is still there.
ClearRow(c, id) ==
    row' = IF row[c] # NoRow /\ row[c].id = id
           THEN [row EXCEPT ![c].local = 0] ELSE row

----------------------------------------------------------------------------
\* What others do meanwhile.
Change == changes < MaxChanges /\ changes' = changes + 1

\* The resolver stores the id of Mastodon's status, fetched if need be.
Resolved(c) ==
    /\ Change /\ row[c] # NoRow /\ ~Mapped(c)
    /\ LET found == {i \in visible : meaning[i] = Status(PostOf[c])}
           id == IF found # {} THEN Max(found) ELSE Len(meaning) + 1
       IN /\ found = {} => Room(1)
          /\ meaning' = IF found # {} THEN meaning ELSE Append(meaning, Status(PostOf[c]))
          /\ visible' = visible \cup {id}
          /\ row' = [row EXCEPT ![c].local = id]
    /\ UNCHANGED favs

\* A detail request is answered 404 by Mastodon, or by the provider.
Cleared(c) ==
    /\ Change /\ Mapped(c) /\ ClearRow(c, row[c].id)
    /\ UNCHANGED <<meaning, visible, favs>>
Deleted(c) ==
    /\ Change /\ row[c] # NoRow
    /\ row' = [row EXCEPT ![c] = NoRow]
    /\ UNCHANGED <<meaning, visible, favs>>

\* A status is deleted, or its author suspended or silenced.
Hidden(id) == /\ Change /\ visible' = visible \ {id}
              /\ UNCHANGED <<row, meaning, favs>>
\* The viewer favourites a status, on this server or another client.
Favourited(id) == /\ Change /\ favs' = favs \cup {id}
                  /\ UNCHANGED <<row, meaning, visible>>
=============================================================================
