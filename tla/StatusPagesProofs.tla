------------------------- MODULE StatusPagesProofs -------------------------
(***************************************************************************)
(* The pages of statuses for any copies, rankings, threads and rows, any   *)
(* page size and any number of disruptions and of changes by others.       *)
(*                                                                         *)
(* One invariant, PagesInv, carries what each statement found out to the   *)
(* answer: it still holds of the posts that nobody touched since.  What    *)
(* others do, between any two statements, is one lemma, Meanwhile.         *)
(***************************************************************************)
EXTENDS StatusPages, SublistsProofs

----------------------------------------------------------------------------
\* The table: a row has a snowflake of its own, and no id but one of its post.
Meanings == {Status(p) : p \in Posts} \cup {RowOf(c) : c \in Remote}

TableTyped ==
    /\ row \in [Remote -> [id : Nat, local : Nat] \cup {NoRow}]
    /\ meaning \in Seq(Meanings) /\ Len(meaning) <= MaxId
    /\ visible \in SUBSET DOMAIN meaning /\ favs \in SUBSET DOMAIN meaning
    /\ changes \in 0..MaxChanges

RowsMeant ==
    \A c \in Remote : row[c] # NoRow =>
        /\ row[c].id \in DOMAIN meaning /\ meaning[row[c].id] = RowOf(c)
        /\ row[c].local # 0 => /\ row[c].local \in DOMAIN meaning
                               /\ meaning[row[c].local] = Status(PostOf[c])

\* What is visible is a status, and the sources' own posts are in the database.
StatusesMeant ==
    /\ \A i \in visible : \E p \in Posts : meaning[i] = Status(p)
    /\ \A c \in Natives : \E i \in DOMAIN meaning : meaning[i] = Status(PostOf[c])

TableInv == TableTyped /\ RowsMeant /\ StatusesMeant

\* What every step keeps of the table: ids mean what they meant, what is hidden
\* stays hidden, and a favourite stays one.
Evolves ==
    /\ DOMAIN meaning \subseteq DOMAIN meaning'
    /\ \A i \in DOMAIN meaning : meaning'[i] = meaning[i]
    /\ visible' \cap DOMAIN meaning \subseteq visible
    /\ favs \subseteq favs'

\* A row changes only with its post touched, or begins unresolved.
RowsMove ==
    \A c \in Remote :
        \/ row'[c] = row[c]
        \/ PostOf[c] \in req'.touched
        \/ row[c] = NoRow /\ row'[c] # NoRow /\ row'[c].local = 0

----------------------------------------------------------------------------
\* The request.
Tables == UNION {[D -> Nat] : D \in SUBSET Remote}
Entries == [copy : Copies \cup {"none"}, post : Posts, id : Nat, fav : BOOLEAN, parent : Nat]
Requests ==
    [pc : Pcs, kind : {"tag", "link", "context"}, max : Nat, list : Seq(Copies),
     resolved : Tables, fetch : {"base", "enrich", "ready", "failed"}, base : SUBSET Nat,
     parents : [Posts -> Nat], flags : SUBSET Nat, map : {"todo", "ready"}, ids : Tables, page : Seq(Entries),
     next : Nat \cup {End}, touched : SUBSET Posts, favs0 : SUBSET Nat,
     asked : Remote \cup {"none"}, rowId : Nat, local : Nat, items : Seq(Entries),
     cursor : Nat, asks : Nat]

ContextPcs == {"forward", "translate", "clear", "ancestors", "replies", "descendants"}

\* Where a request of each kind can be, and what it holds there.
Places ==
    /\ req \in Requests /\ used \in 0..MaxDisruptions
    /\ req.pc \in {"lookup", "join"} => req.kind # "context"
    /\ req.pc \in ContextPcs => req.kind = "context"
    /\ req.kind = "context" =>
          /\ req.asked \in Asked /\ req.list \in Seq(Remote)
          /\ req.cursor \in DOMAIN ReplyPages[req.asked] /\ req.next = End
    /\ req.pc = "lookup" => req.base = {}
    /\ req.fetch = "failed" => used > 0
    /\ req.items # <<>> => req.kind = "context" /\ req.pc \in {"translate", "ancestors", "shown"}
    /\ req.pc \in ContextPcs \ {"translate", "replies", "descendants"} => req.page = <<>>

\* A tag timeline ranks no two copies with the same key.
Single == req.kind = "tag" => \A i, j \in DOMAIN req.list :
                                 Key(req.list[i]) = Key(req.list[j]) => i = j

\* The ids that the request holds are of the posts it holds them for.
Held ==
    /\ \A c \in DOMAIN req.resolved : /\ req.resolved[c] \in DOMAIN meaning
                                      /\ meaning[req.resolved[c]] = Status(PostOf[c])
    /\ \A c \in DOMAIN req.ids : /\ req.ids[c] \in DOMAIN meaning
                                 /\ meaning[req.ids[c]] = RowOf(c)
    /\ req.favs0 \subseteq favs

\* The lookup has not failed.
Consulted == At("join") \/ (Timeline /\ (req.page # <<>> \/ used = 0))

\* The lookup's answers still stand, but for posts that were touched.
Settled ==
    Consulted => \A i \in DOMAIN req.list :
        LET c == req.list[i]
        IN c \in Remote /\ PostOf[c] \notin req.touched =>
              /\ Mapped(c) <=> c \in DOMAIN req.resolved
              /\ Mapped(c) => row[c].local = req.resolved[c]

\* A status that was not found is hidden, and the flags of the others are right.
Looked ==
    Consulted /\ req.fetch \in {"enrich", "ready"} =>
        /\ \A i \in DOMAIN req.list :
              LET c == req.list[i]
              IN IsLocal(c) => LocalId(c) \in req.base \/ LocalId(c) \notin visible
        /\ req.fetch = "ready" => req.favs0 \cap req.base \subseteq req.flags

\* Why a copy may be served without a snowflake.
Excused(c) == used > 0 \/ c \in Anonymous \/ BatchRepeats

Named ==
    Consulted /\ req.map = "ready" => \A i \in DOMAIN req.list :
        LET c == req.list[i] IN Foreign(c) => c \in DOMAIN req.ids \/ Excused(c)

\* The page of a timeline: in the order of the ranking, made of what is served,
\* and of all of it if nothing failed and there was room.
InOrder ==
    \E at \in [DOMAIN req.page -> DOMAIN req.list] :
        /\ \A k \in DOMAIN at : req.list[at[k]] = req.page[k].copy
        /\ \A k, l \in DOMAIN at : k < l => at[k] < at[l]
OfServed ==
    \A k \in DOMAIN req.page :
        Served(req.page[k].copy) /\ req.page[k] = EntryOf(req.page[k].copy)
AllServed ==
    \A i \in DOMAIN req.list :
        Served(req.list[i]) => \E k \in DOMAIN req.page : req.page[k].copy = req.list[i]

PageMade ==
    Timeline =>
        /\ Len(req.page) <= Limit /\ req.next \in {End, Url} \cup DOMAIN meaning
        /\ InOrder /\ OfServed
        /\ used = 0 /\ Len(req.page) < Limit => AllServed
        /\ (req.page # <<>> \/ used = 0) => req.fetch = "ready" /\ req.map = "ready"

\* Mastodon's answer, and its translation so far.
Items ==
    \A k \in DOMAIN req.items :
        LET e == req.items[k]
        IN /\ e.id \in DOMAIN meaning /\ meaning[e.id] = Status(e.post)
           /\ e.parent # Null => /\ e.parent \in DOMAIN meaning
                                 /\ \E p \in Posts : meaning[e.parent] = Status(p)

Translation ==
    At("translate") \/ (At("shown") /\ req.items # <<>>) =>
        /\ Len(req.page) <= Len(req.items)
        /\ \A k \in DOMAIN req.page :
              LET e == req.page[k]  item == req.items[k]
              IN /\ e.post = item.post /\ e.id # Url
                 /\ e.post \notin req.touched => e.id = Back(item.id)
                 /\ item.parent # Null /\ meaning[item.parent].post \notin req.touched
                    => e.parent = Back(item.parent)

\* The cached thread: what comes without a snowflake is excused.
Walked ==
    /\ req.kind = "context" /\ req.items = <<>>
    /\ req.pc \in {"replies", "descendants", "shown"}
    => \A k \in DOMAIN req.page : req.page[k].id = Url =>
          \/ used > 0 \/ req.page[k].copy \in Anonymous
          \/ Repeats(Only(CachedAbove[req.asked], Identified))
          \/ (At("shown") /\ Repeats(Only(req.list, Identified)))

PagesInv ==
    /\ TableInv /\ Places /\ Single /\ Held /\ Settled /\ Looked /\ Named
    /\ PageMade /\ Items /\ Translation /\ Walked
\* Sequences put together: u has the elements of s, then those of t.
Joins(u, s, t) ==
    /\ Len(u) = Len(s) + Len(t) /\ DOMAIN u = 1..(Len(s) + Len(t))
    /\ \A i \in 1..Len(s) : u[i] = s[i]
    /\ \A k \in 1..Len(t) : u[Len(s) + k] = t[k]
    /\ \A i \in DOMAIN u :
          (\E k \in DOMAIN s : u[i] = s[k]) \/ (\E k \in DOMAIN t : u[i] = t[k])

LEMMA Joined ==
    ASSUME NEW T, NEW s \in Seq(T), NEW t \in Seq(T), NEW u, u = s \o t
    PROVE  u \in Seq(T) /\ Joins(u, s, t)
<1>1. /\ u \in Seq(T) /\ Len(u) = Len(s) + Len(t)
      /\ \A i \in 1..(Len(s) + Len(t)) : u[i] = IF i <= Len(s) THEN s[i] ELSE t[i - Len(s)]
  OBVIOUS
<1>2. DOMAIN u = 1..(Len(s) + Len(t)) /\ DOMAIN s = 1..Len(s) /\ DOMAIN t = 1..Len(t)
  BY <1>1
<1>3. Len(s) \in Nat /\ Len(t) \in Nat
  OBVIOUS
<1>4. \A i \in 1..Len(s) : u[i] = s[i]
  BY <1>1, <1>3
<1>5. \A k \in 1..Len(t) : u[Len(s) + k] = t[k]
  BY <1>1, <1>3
<1>6. ASSUME NEW i \in DOMAIN u
      PROVE  (\E k \in DOMAIN s : u[i] = s[k]) \/ (\E k \in DOMAIN t : u[i] = t[k])
  <2>1. CASE i <= Len(s)
    BY <1>2, <1>3, <1>4, <2>1
  <2>2. CASE ~(i <= Len(s))
    <3>1. i - Len(s) \in 1..Len(t) /\ i \in 1..(Len(s) + Len(t))
      BY <1>2, <1>3, <2>2
    <3>2. u[i] = t[i - Len(s)]
      BY <1>1, <2>2, <3>1
    <3> QED  BY <1>2, <3>1, <3>2
  <2> QED  BY <2>1, <2>2
<1> QED  BY <1>1, <1>2, <1>4, <1>5, <1>6 DEF Joins

----------------------------------------------------------------------------
LEMMA Sources ==
    /\ Remote \subseteq Copies /\ Natives \subseteq Copies /\ Identified \subseteq Remote
    /\ \A c \in Copies : PostOf[c] \in Posts
    /\ IsFiniteSet(Remote) /\ IsFiniteSet(Natives) /\ IsFiniteSet(Posts)
<1> DEFINE of == [c \in Copies |-> PostOf[c]]
<1>1. IsFiniteSet(Copies)
  BY RowsAssumption
<1>2. of \in Surjection(Copies, Posts)
  BY DEF Posts, Surjection
<1>3. IsFiniteSet(Posts)
  BY <1>1, <1>2, FS_Surjection
<1>4. Remote \subseteq Copies /\ Natives \subseteq Copies /\ Identified \subseteq Remote
  BY RowsAssumption DEF Remote, Identified
<1>5. IsFiniteSet(Remote) /\ IsFiniteSet(Natives)
  BY <1>1, <1>4, FS_Subset
<1> QED  BY <1>3, <1>4, <1>5 DEF Posts

LEMMA RowFields ==
    \A r \in [id : Nat, local : Nat] : r # NoRow
  BY RowsAssumption

\* The least and the greatest of some of the numbers up to n.
LEMMA Ends ==
    ASSUME NEW n \in Nat, NEW S \in SUBSET (0..n), S # {}
    PROVE  /\ Min(S) \in S /\ \A i \in S : Min(S) <= i
           /\ Max(S) \in S /\ \A i \in S : i <= Max(S)
<1> DEFINE R == {p \in (0..n) \X (0..n) : p[1] < p[2]}
<1>0. \A i \in S : i \in Int
  OBVIOUS
<1>1. IsFiniteSet(S)
  <2>1. IsFiniteSet(0..n)
    BY FS_Interval
  <2> QED  BY <2>1, FS_Subset
<1>2. Orders(R, S) /\ \A i, j \in S : <<i, j>> \in R <=> i < j
  <2>1. \A i, j \in S : <<i, j>> \in R <=> i < j
    OBVIOUS
  <2> HIDE DEF R
  <2>2. ASSUME NEW i \in S, NEW j \in S, NEW k \in S
        PROVE  /\ ~(i < i) /\ (i = j \/ i < j \/ j < i)
               /\ i < j /\ j < k => i < k
    <3>1. i \in Int /\ j \in Int /\ k \in Int
      BY <1>0
    <3> QED  BY <3>1
  <2> QED  BY <2>1, <2>2 DEF Orders
<1> HIDE DEF R
<1>3. /\ \E i \in S : \A j \in S : i = j \/ <<i, j>> \in R
      /\ \E i \in S : \A j \in S : i = j \/ <<j, i>> \in R
  <2>1. PICK T, Q : T = S /\ Q = R
    OBVIOUS
  <2>2. IsFiniteSet(T) /\ T # {} /\ Orders(Q, T)
    BY <1>1, <1>2, <2>1
  <2>3. /\ \E i \in T : \A j \in T : i = j \/ <<i, j>> \in Q
        /\ \E i \in T : \A j \in T : i = j \/ <<j, i>> \in Q
    BY <2>2, Extremes
  <2> QED  BY <2>1, <2>3
<1>4. \E i \in S : \A j \in S : i <= j
  <2>1. PICK i \in S : \A j \in S : i = j \/ <<i, j>> \in R
    BY <1>3
  <2>2. ASSUME NEW j \in S PROVE i <= j
    <3>1. i \in Int /\ j \in Int
      BY <1>0
    <3>2. i = j \/ i < j
      BY <1>2, <2>1
    <3> QED  BY <3>1, <3>2
  <2> QED  BY <2>2
<1>5. \E i \in S : \A j \in S : i >= j
  <2>1. PICK i \in S : \A j \in S : i = j \/ <<j, i>> \in R
    BY <1>3
  <2>2. ASSUME NEW j \in S PROVE i >= j
    <3>1. i \in Int /\ j \in Int
      BY <1>0
    <3>2. i = j \/ j < i
      BY <1>2, <2>1
    <3> QED  BY <3>1, <3>2
  <2> QED  BY <2>2
<1>6. Min(S) \in S /\ \A j \in S : Min(S) <= j
  BY <1>4 DEF Min
<1>7. Max(S) \in S /\ \A j \in S : Max(S) >= j
  BY <1>5 DEF Max
<1> QED  BY <1>6, <1>7

\* A finite set as a sequence.
LEMMA Listed ==
    ASSUME NEW S, IsFiniteSet(S)
    PROVE  /\ SetToSeq(S) \in Seq(S) /\ Len(SetToSeq(S)) = Cardinality(S)
           /\ \A x \in S : \E k \in DOMAIN SetToSeq(S) : SetToSeq(S)[k] = x
<1>1. Cardinality(S) \in Nat /\ ExistsBijection(1..Cardinality(S), S)
  BY FS_CardinalityType
<1> DEFINE n == Cardinality(S)
<1>2. PICK f \in [1..n -> S] : IsInjective(f) /\ f \in Surjection(1..n, S)
  BY <1>1 DEF ExistsBijection, Bijection, Injection, IsInjective
<1>3. SetToSeq(S) \in [1..n -> S] /\ IsInjective(SetToSeq(S))
  BY <1>2 DEF SetToSeq
<1> DEFINE g == SetToSeq(S)
           T == {g[k] : k \in 1..n}
<1>4. g \in Injection(1..n, T) /\ g \in Surjection(1..n, T)
  BY <1>3 DEF Injection, Surjection, IsInjective
<1>5. IsFiniteSet(1..n) /\ Cardinality(1..n) = n
  <2>1. 1 \in Int /\ n \in Int
    BY <1>1
  <2>2. IsFiniteSet(1..n) /\ Cardinality(1..n) = IF 1 > n THEN 0 ELSE n - 1 + 1
    BY <2>1, FS_Interval
  <2> QED  BY <1>1, <2>2
<1>6. Cardinality(T) = n
  BY <1>4, <1>5, FS_Surjection
<1>7. T \in SUBSET S
  BY <1>3
<1>8. T = S
  BY <1>6, <1>7, FS_Subset
<1>9. g \in Seq(S) /\ Len(g) = n /\ DOMAIN g = 1..n
  BY <1>1, <1>3
<1> QED  BY <1>8, <1>9
LEMMA Image ==
    ASSUME NEW S, IsFiniteSet(S), NEW f, f = [x \in S |-> f[x]]
    PROVE  /\ IsFiniteSet({f[x] : x \in S})
           /\ Cardinality({f[x] : x \in S}) <= Cardinality(S)
<1>1. f \in Surjection(S, {f[x] : x \in S})
  BY DEF Surjection
<1> QED  BY <1>1, FS_Surjection

LEMMA IdInFinds ==
    ASSUME NEW ids, NEW what, \E i \in DOMAIN ids : ids[i] = what
    PROVE  IdIn(ids, what) \in DOMAIN ids /\ ids[IdIn(ids, what)] = what
BY DEF IdIn

\* What statuses and rows mean is told apart.
LEMMA MeaningsDiffer ==
    /\ \A p \in Posts : Status(p) \in Meanings /\ Status(p).post = p
    /\ \A c \in Remote : RowOf(c) \in Meanings /\ RowOf(c).post = PostOf[c]
    /\ \A p, c : Status(p) # RowOf(c)
    /\ \A c, d : RowOf(c) = RowOf(d) => c = d
    /\ \A p, q : Status(p) = Status(q) => p = q
BY DEF Meanings, Status, RowOf

LEMMA InitTable == InitRows => TableInv
<1> SUFFICES ASSUME InitRows PROVE TableInv
  OBVIOUS
<1> DEFINE Listing(seed) ==
             SetToSeq({Status(p) : p \in Known(seed)}) \o SetToSeq({RowOf(c) : c \in seed})
<1>0. PICK seed \in Seeds :
         /\ meaning = Listing(seed)
         /\ row = [c \in Remote |->
              IF c \in seed
              THEN [id |-> IdIn(Listing(seed), RowOf(c)),
                    local |-> IdIn(Listing(seed), Status(PostOf[c]))]
              ELSE NoRow]
         /\ visible = {IdIn(Listing(seed), Status(p)) : p \in Known(seed)}
         /\ favs = {} /\ changes = 0
  BY Zenon DEF InitRows
<1>1. PICK posts, ids :
         /\ posts = Known(seed)
         /\ ids = SetToSeq({Status(p) : p \in posts}) \o SetToSeq({RowOf(c) : c \in seed})
         /\ meaning = ids
         /\ row = [c \in Remote |->
              IF c \in seed
              THEN [id |-> IdIn(ids, RowOf(c)), local |-> IdIn(ids, Status(PostOf[c]))]
              ELSE NoRow]
         /\ visible = {IdIn(ids, Status(p)) : p \in posts}
         /\ favs = {} /\ changes = 0
  BY <1>0, Zenon
<1> HIDE DEF Listing
<1>2. /\ seed \subseteq Remote /\ Cardinality(posts) + Cardinality(seed) <= MaxId
      /\ posts \subseteq Posts /\ \A c \in seed \cup Natives : PostOf[c] \in posts
  BY <1>1, RowsAssumption, Sources DEF Fits, Known
<1>3. IsFiniteSet(posts) /\ IsFiniteSet(seed)
  BY <1>2, Sources, FS_Subset
<1> DEFINE f == [p \in posts |-> Status(p)]
           g == [c \in seed |-> RowOf(c)]
           S == {f[p] : p \in posts}
           R == {g[c] : c \in seed}
           a == SetToSeq(S)
           b == SetToSeq(R)
<1>4. IsFiniteSet(S) /\ Cardinality(S) <= Cardinality(posts)
  <2>1. f = [p \in posts |-> f[p]]
    OBVIOUS
  <2> HIDE DEF f
  <2> QED  BY <1>3, <2>1, Image
<1>5. IsFiniteSet(R) /\ Cardinality(R) <= Cardinality(seed)
  <2>1. g = [c \in seed |-> g[c]]
    OBVIOUS
  <2> HIDE DEF g
  <2> QED  BY <1>3, <2>1, Image
<1>6. S = {Status(p) : p \in posts} /\ R = {RowOf(c) : c \in seed}
  OBVIOUS
<1>7. S \subseteq Meanings /\ R \subseteq Meanings
  BY <1>2, <1>6, MeaningsDiffer
<1> HIDE DEF S, R
<1>8. /\ a \in Seq(S) /\ Len(a) = Cardinality(S)
      /\ \A x \in S : \E k \in DOMAIN a : a[k] = x
  BY <1>4, Listed
<1>9. /\ b \in Seq(R) /\ Len(b) = Cardinality(R)
      /\ \A x \in R : \E k \in DOMAIN b : b[k] = x
  BY <1>5, Listed
<1>10. ids = a \o b
  BY <1>1, <1>6
<1> HIDE DEF a, b
<1>11. /\ ids \in Seq(Meanings) /\ Len(ids) = Len(a) + Len(b)
       /\ \A x \in S \cup R : \E i \in DOMAIN ids : ids[i] = x
  <2>1. a \in Seq(Meanings) /\ b \in Seq(Meanings)
    BY <1>7, <1>8, <1>9
  <2>2. /\ ids \in Seq(Meanings) /\ Len(ids) = Len(a) + Len(b)
        /\ \A k \in DOMAIN a : k \in DOMAIN ids /\ ids[k] = a[k]
        /\ \A k \in DOMAIN b : Len(a) + k \in DOMAIN ids /\ ids[Len(a) + k] = b[k]
    BY <1>10, <2>1
  <2> QED  BY <1>8, <1>9, <2>2
<1>12. Len(ids) <= MaxId
  <2>1. /\ Cardinality(S) \in Nat /\ Cardinality(R) \in Nat /\ MaxId \in Nat
        /\ Cardinality(posts) \in Nat /\ Cardinality(seed) \in Nat
    BY <1>3, <1>4, <1>5, CardinalityNat, RowsAssumption
  <2> QED  BY <1>2, <1>4, <1>5, <1>8, <1>9, <1>11, <2>1
<1>13. \A p \in posts : /\ IdIn(ids, Status(p)) \in DOMAIN ids
                        /\ ids[IdIn(ids, Status(p))] = Status(p)
  BY <1>6, <1>11, IdInFinds
<1>14. \A c \in seed : /\ IdIn(ids, RowOf(c)) \in DOMAIN ids
                       /\ ids[IdIn(ids, RowOf(c))] = RowOf(c)
  BY <1>6, <1>11, IdInFinds
<1>15. DOMAIN ids \subseteq Nat
  BY <1>11
<1>16. TableTyped
  <2>1. row \in [Remote -> [id : Nat, local : Nat] \cup {NoRow}]
    BY <1>1, <1>2, <1>13, <1>14, <1>15
  <2>2. visible \in SUBSET DOMAIN meaning /\ favs \in SUBSET DOMAIN meaning
    BY <1>1, <1>13
  <2>3. changes \in 0..MaxChanges
    BY <1>1, RowsAssumption
  <2> QED  BY <1>1, <1>11, <1>12, <2>1, <2>2, <2>3 DEF TableTyped
<1>17. RowsMeant
  BY <1>1, <1>2, <1>13, <1>14 DEF RowsMeant
<1>18. StatusesMeant
  BY <1>1, <1>2, <1>13 DEF StatusesMeant
<1> QED  BY <1>16, <1>17, <1>18 DEF TableInv

\* The id of a row does not change.
IdsKept ==
    \A c \in Remote : row[c] # NoRow /\ row'[c] # NoRow => row'[c].id = row[c].id

\* Rows are only added, without a local id.
RowsAdded ==
    \A c \in Remote :
        row'[c] = row[c] \/ (row[c] = NoRow /\ row'[c] # NoRow /\ row'[c].local = 0)

LEMMA RowType ==
    ASSUME TableInv, NEW c \in Remote
    PROVE  /\ row[c] # NoRow => /\ row[c] \in [id : Nat, local : Nat]
                                /\ row[c].id \in Nat /\ row[c].local \in Nat
           /\ Mapped(c) => /\ row[c].local \in DOMAIN meaning
                           /\ meaning[row[c].local] = Status(PostOf[c])
<1>1. row[c] \in [id : Nat, local : Nat] \cup {NoRow}
  BY DEF TableInv, TableTyped
<1> QED  BY <1>1 DEF TableInv, RowsMeant, Mapped

LEMMA SameTable ==
    ASSUME TableInv, UNCHANGED rowVars
    PROVE  TableInv' /\ Evolves /\ IdsKept /\ RowsAdded
<1>1. row' = row /\ meaning' = meaning /\ visible' = visible /\ favs' = favs /\ changes' = changes
  BY DEF rowVars
<1>2. TableInv'
  BY <1>1 DEF TableInv, TableTyped, RowsMeant, StatusesMeant
<1> QED  BY <1>1, <1>2 DEF Evolves, IdsKept, RowsAdded

LEMMA Upserts ==
    ASSUME TableInv, NEW batch \in Seq(Remote), Upsert(batch),
           UNCHANGED <<visible, favs, changes>>
    PROVE  /\ TableInv' /\ Evolves /\ IdsKept /\ RowsAdded
           /\ \A c \in ToSet(batch) : row'[c] # NoRow
<1>1. PICK new : /\ new = New(batch) /\ Room(Len(new))
                 /\ meaning' = meaning \o [k \in DOMAIN new |-> RowOf(new[k])]
                 /\ row' = Upserted(new)
  BY DEF Upsert
<1> DEFINE n == Len(meaning)
<1>2. /\ new \in Seq(Remote)
      /\ \A k \in DOMAIN new : row[new[k]] = NoRow
      /\ \A c \in ToSet(batch) : row[c] = NoRow => c \in ToSet(new)
  <2> DEFINE S == {c \in Remote : row[c] = NoRow}
  <2>1. new = Only(batch, S)
    BY <1>1 DEF New
  <2>2. \A i \in DOMAIN batch : batch[i] \in Remote
    OBVIOUS
  <2> HIDE DEF S
  <2>3. /\ new \in Seq(Remote) /\ \A k \in DOMAIN new : new[k] \in S
        /\ \A i \in DOMAIN batch : batch[i] \in S => \E k \in DOMAIN new : new[k] = batch[i]
    BY <2>1, OnlyParts
  <2> QED  BY <2>2, <2>3 DEF S, ToSet
<1>3. /\ meaning \in Seq(Meanings) /\ n \in Nat /\ Len(new) \in Nat /\ n + Len(new) <= MaxId
      /\ DOMAIN meaning = 1..n /\ DOMAIN new = 1..Len(new)
  BY <1>1, <1>2 DEF TableInv, TableTyped, Room
<1>4. /\ meaning' \in Seq(Meanings) /\ Len(meaning') = n + Len(new)
      /\ DOMAIN meaning' = 1..(n + Len(new))
      /\ \A i \in 1..n : meaning'[i] = meaning[i]
      /\ \A k \in 1..Len(new) : meaning'[n + k] = RowOf(new[k])
  <2> DEFINE added == [k \in DOMAIN new |-> RowOf(new[k])]
  <2>1. added \in Seq(Meanings) /\ Len(added) = Len(new)
    BY <1>2, <1>3, MeaningsDiffer
  <2>2. \A k \in 1..Len(new) : added[k] = RowOf(new[k])
    BY <1>3
  <2> HIDE DEF added
  <2>3. meaning' = meaning \o added
    BY <1>1 DEF added
  <2>4. PICK m, u : m = meaning /\ u = meaning'
    OBVIOUS
  <2>5. m \in Seq(Meanings) /\ u = m \o added
    BY <1>3, <2>3, <2>4
  <2>6. u \in Seq(Meanings) /\ Joins(u, m, added)
    BY <2>1, <2>5, Joined
  <2> QED  BY <1>3, <2>1, <2>2, <2>4, <2>6 DEF Joins
<1>5. \A c \in ToSet(new) : IdIn(new, c) \in 1..Len(new) /\ new[IdIn(new, c)] = c
  BY <1>3, IdInFinds DEF ToSet
<1>6. row' = [c \in Remote |-> IF c \in ToSet(new) THEN [id |-> n + IdIn(new, c), local |-> 0]
                               ELSE row[c]]
  BY <1>1 DEF Upserted
<1>7. \A c \in Remote : c \in ToSet(new) =>
         /\ row[c] = NoRow /\ row'[c] \in [id : Nat, local : Nat] /\ row'[c] # NoRow
         /\ row'[c].id \in DOMAIN meaning' /\ meaning'[row'[c].id] = RowOf(c)
         /\ row'[c].local = 0
  <2>1. SUFFICES ASSUME NEW c \in Remote, c \in ToSet(new)
                 PROVE  /\ row[c] = NoRow /\ row'[c] \in [id : Nat, local : Nat]
                        /\ row'[c] # NoRow
                        /\ row'[c].id \in DOMAIN meaning' /\ meaning'[row'[c].id] = RowOf(c)
                        /\ row'[c].local = 0
    OBVIOUS
  <2>2. PICK k \in 1..Len(new) : IdIn(new, c) = k /\ new[k] = c
    BY <1>5, <2>1
  <2>3. row'[c] = [id |-> n + k, local |-> 0]
    BY <1>6, <2>1, <2>2
  <2>4. n + k \in DOMAIN meaning' /\ meaning'[n + k] = RowOf(c) /\ row[c] = NoRow /\ n + k \in Nat
    BY <1>2, <1>3, <1>4, <2>2
  <2> QED  BY <2>3, <2>4, RowFields
<1>8. \A c \in Remote : c \notin ToSet(new) => row'[c] = row[c]
  BY <1>6
<1>9. TableTyped'
  <2>1. row \in [Remote -> [id : Nat, local : Nat] \cup {NoRow}]
    BY DEF TableInv, TableTyped
  <2>2. \A c \in Remote : row'[c] \in [id : Nat, local : Nat] \cup {NoRow}
    BY <1>7, <1>8, <2>1
  <2>3. row' \in [Remote -> [id : Nat, local : Nat] \cup {NoRow}]
    BY <1>6, <2>2
  <2>4. DOMAIN meaning \subseteq DOMAIN meaning'
    BY <1>3, <1>4
  <2> QED  BY <1>3, <1>4, <2>3, <2>4 DEF TableInv, TableTyped
<1>10. RowsMeant'
  <2>1. SUFFICES ASSUME NEW c \in Remote, row'[c] # NoRow
                 PROVE  /\ row'[c].id \in DOMAIN meaning' /\ meaning'[row'[c].id] = RowOf(c)
                        /\ row'[c].local # 0 => /\ row'[c].local \in DOMAIN meaning'
                                                /\ meaning'[row'[c].local] = Status(PostOf[c])
    BY DEF RowsMeant
  <2>2. CASE c \in ToSet(new)
    BY <1>7, <2>2
  <2>3. CASE c \notin ToSet(new)
    BY <1>3, <1>4, <1>8, <2>1, <2>3 DEF TableInv, RowsMeant
  <2> QED  BY <2>2, <2>3
<1>11. StatusesMeant'
  BY <1>3, <1>4 DEF TableInv, TableTyped, StatusesMeant
<1>12. Evolves
  BY <1>3, <1>4 DEF TableInv, TableTyped, Evolves
<1>13. IdsKept /\ RowsAdded
  BY <1>7, <1>8 DEF IdsKept, RowsAdded
<1>14. \A c \in ToSet(batch) : row'[c] # NoRow
  <2>1. \A c \in ToSet(batch) : c \in Remote
    BY DEF ToSet
  <2> QED  BY <1>2, <1>7, <1>8, <2>1
<1> QED  BY <1>9, <1>10, <1>11, <1>12, <1>13, <1>14 DEF TableInv

\* A row whose local id is set, to a status of its post, or cleared, or that goes.
LEMMA RowSet ==
    ASSUME TableInv, NEW c \in Remote, NEW r,
           row' = [row EXCEPT ![c] = r],
           r = NoRow \/ (/\ row[c] # NoRow /\ r \in [id : Nat, local : Nat] /\ r.id = row[c].id
                         /\ r.local # 0 => /\ r.local \in DOMAIN meaning'
                                           /\ meaning'[r.local] = Status(PostOf[c])),
           meaning' \in Seq(Meanings), Len(meaning') <= MaxId,
           DOMAIN meaning \subseteq DOMAIN meaning',
           \A i \in DOMAIN meaning : meaning'[i] = meaning[i],
           visible' \in SUBSET DOMAIN meaning', visible' \cap DOMAIN meaning \subseteq visible,
           \A i \in visible' \ visible : meaning'[i] = Status(PostOf[c]),
           favs' = favs, changes' \in 0..MaxChanges
    PROVE  /\ TableInv' /\ Evolves /\ IdsKept
           /\ \A d \in Remote : d = c \/ row'[d] = row[d]
<1>1. row \in [Remote -> [id : Nat, local : Nat] \cup {NoRow}]
  BY DEF TableInv, TableTyped
<1>2. row'[c] = r /\ \A d \in Remote : d = c \/ row'[d] = row[d]
  BY <1>1
<1>3. TableTyped'
  BY <1>1 DEF TableInv, TableTyped
<1>4. RowsMeant'
  <2>1. SUFFICES ASSUME NEW d \in Remote, row'[d] # NoRow
                 PROVE  /\ row'[d].id \in DOMAIN meaning' /\ meaning'[row'[d].id] = RowOf(d)
                        /\ row'[d].local # 0 => /\ row'[d].local \in DOMAIN meaning'
                                                /\ meaning'[row'[d].local] = Status(PostOf[d])
    BY DEF RowsMeant
  <2>2. CASE d = c
    BY <1>2, <2>1, <2>2 DEF TableInv, RowsMeant
  <2>3. CASE d # c
    BY <1>2, <2>1, <2>3 DEF TableInv, RowsMeant
  <2> QED  BY <2>2, <2>3
<1>5. StatusesMeant'
  <2>1. ASSUME NEW i \in visible' PROVE \E p \in Posts : meaning'[i] = Status(p)
    <3>1. CASE i \in visible
      BY <3>1 DEF TableInv, TableTyped, StatusesMeant
    <3>2. CASE i \notin visible
      BY <3>2, Sources
    <3> QED  BY <3>1, <3>2
  <2>2. \A d \in Natives : \E i \in DOMAIN meaning' : meaning'[i] = Status(PostOf[d])
    BY DEF TableInv, StatusesMeant
  <2> QED  BY <2>1, <2>2 DEF StatusesMeant
<1>6. Evolves /\ IdsKept
  BY <1>2 DEF Evolves, IdsKept
<1> QED  BY <1>2, <1>3, <1>4, <1>5, <1>6 DEF TableInv

LEMMA ClearRows ==
    ASSUME TableInv, NEW c \in Remote, NEW id, ClearRow(c, id),
           UNCHANGED <<meaning, visible, favs, changes>>
    PROVE  /\ TableInv' /\ Evolves /\ IdsKept
           /\ \A d \in Remote : d = c \/ row'[d] = row[d]
<1>1. CASE row[c] # NoRow /\ row[c].id = id
  <2> DEFINE r == [row[c] EXCEPT !.local = 0]
  <2>1. row' = [row EXCEPT ![c] = r]
    BY <1>1 DEF ClearRow
  <2>2. /\ row[c] \in [id : Nat, local : Nat]
        /\ r \in [id : Nat, local : Nat] /\ r.id = row[c].id /\ r.local = 0
    BY <1>1, RowType
  <2> HIDE DEF r
  <2>3. /\ meaning' = meaning /\ visible' = visible /\ favs' = favs /\ changes' = changes
        /\ meaning \in Seq(Meanings) /\ Len(meaning) <= MaxId
        /\ visible \in SUBSET DOMAIN meaning /\ changes \in 0..MaxChanges
    BY DEF TableInv, TableTyped
  <2> QED  BY <1>1, <2>1, <2>2, <2>3, RowSet
<1>2. CASE ~(row[c] # NoRow /\ row[c].id = id)
  <2>1. UNCHANGED rowVars
    BY <1>2 DEF ClearRow, rowVars
  <2> QED  BY <2>1, SameTable DEF rowVars
<1> QED  BY <1>1, <1>2

LEMMA ResolvedKept ==
    ASSUME TableInv, NEW c \in Remote, Resolved(c)
    PROVE  /\ TableInv' /\ Evolves /\ IdsKept
           /\ \A d \in Remote : d = c \/ row'[d] = row[d]
<1>1. PICK found, id :
         /\ found = {i \in visible : meaning[i] = Status(PostOf[c])}
         /\ id = IF found # {} THEN Max(found) ELSE Len(meaning) + 1
         /\ found = {} => Room(1)
         /\ meaning' = IF found # {} THEN meaning ELSE Append(meaning, Status(PostOf[c]))
         /\ visible' = visible \cup {id}
         /\ row' = [row EXCEPT ![c].local = id]
  BY Zenon DEF Resolved
<1>2. row[c] # NoRow /\ ~Mapped(c) /\ favs' = favs /\ changes' \in 0..MaxChanges
  BY RowsAssumption DEF Resolved, Change, TableInv, TableTyped
<1>3. /\ meaning \in Seq(Meanings) /\ Len(meaning) \in Nat /\ Len(meaning) <= MaxId
      /\ DOMAIN meaning = 1..Len(meaning) /\ visible \in SUBSET DOMAIN meaning
  BY DEF TableInv, TableTyped
<1>4. /\ meaning' \in Seq(Meanings) /\ Len(meaning') <= MaxId
      /\ DOMAIN meaning \subseteq DOMAIN meaning'
      /\ \A i \in DOMAIN meaning : meaning'[i] = meaning[i]
      /\ id \in DOMAIN meaning' /\ meaning'[id] = Status(PostOf[c]) /\ id \in Nat
      /\ (visible \cup {id}) \cap DOMAIN meaning \subseteq visible
  <2>1. CASE found # {}
    <3>1. found \in SUBSET (0..Len(meaning))
      BY <1>1, <1>3
    <3>2. Max(found) \in found
      BY <1>3, <2>1, <3>1, Ends
    <3> QED  BY <1>1, <1>3, <2>1, <3>2
  <2>2. CASE found = {}
    <3>1. meaning' = Append(meaning, Status(PostOf[c])) /\ id = Len(meaning) + 1 /\ Room(1)
      BY <1>1, <2>2
    <3>2. Status(PostOf[c]) \in Meanings
      BY Sources, MeaningsDiffer
    <3> QED  BY <1>3, <3>1, <3>2, RowsAssumption DEF Room
  <2> QED  BY <2>1, <2>2
<1> DEFINE r == [row[c] EXCEPT !.local = id]
<1>5. row' = [row EXCEPT ![c] = r]
  BY <1>1
<1>6. /\ row[c] \in [id : Nat, local : Nat]
      /\ r \in [id : Nat, local : Nat] /\ r.id = row[c].id /\ r.local = id
  BY <1>2, <1>4, RowType
<1> HIDE DEF r
<1>7. /\ visible' \in SUBSET DOMAIN meaning' /\ visible' \cap DOMAIN meaning \subseteq visible
      /\ \A i \in visible' \ visible : meaning'[i] = Status(PostOf[c])
  BY <1>1, <1>3, <1>4
<1> QED  BY <1>2, <1>4, <1>5, <1>6, <1>7, RowSet

LEMMA ClearedKept ==
    ASSUME TableInv, NEW c \in Remote, Cleared(c)
    PROVE  /\ TableInv' /\ Evolves /\ IdsKept
           /\ \A d \in Remote : d = c \/ row'[d] = row[d]
<1> DEFINE r == [row[c] EXCEPT !.local = 0]
<1>1. row' = [row EXCEPT ![c] = r] /\ row[c] # NoRow
  BY DEF Cleared, ClearRow, Mapped
<1>2. /\ row[c] \in [id : Nat, local : Nat]
      /\ r \in [id : Nat, local : Nat] /\ r.id = row[c].id /\ r.local = 0
  BY <1>1, RowType
<1> HIDE DEF r
<1>3. /\ meaning' = meaning /\ visible' = visible /\ favs' = favs /\ changes' \in 0..MaxChanges
      /\ meaning \in Seq(Meanings) /\ Len(meaning) <= MaxId /\ visible \in SUBSET DOMAIN meaning
  BY RowsAssumption DEF Cleared, Change, TableInv, TableTyped
<1> QED  BY <1>1, <1>2, <1>3, RowSet

LEMMA DeletedKept ==
    ASSUME TableInv, NEW c \in Remote, Deleted(c)
    PROVE  /\ TableInv' /\ Evolves /\ IdsKept
           /\ \A d \in Remote : d = c \/ row'[d] = row[d]
<1>1. row' = [row EXCEPT ![c] = NoRow]
  BY DEF Deleted
<1>2. /\ meaning' = meaning /\ visible' = visible /\ favs' = favs /\ changes' \in 0..MaxChanges
      /\ meaning \in Seq(Meanings) /\ Len(meaning) <= MaxId /\ visible \in SUBSET DOMAIN meaning
  BY RowsAssumption DEF Deleted, Change, TableInv, TableTyped
<1> QED  BY <1>1, <1>2, RowSet

\* What Mastodon's users do leaves the rows as they are.
LEMMA StatusesKept ==
    ASSUME TableInv, NEW id \in visible, Hidden(id) \/ Favourited(id)
    PROVE  TableInv' /\ Evolves /\ row' = row
<1>1. /\ row' = row /\ meaning' = meaning /\ visible' \subseteq visible /\ favs \subseteq favs'
      /\ favs' \in SUBSET DOMAIN meaning /\ changes' \in 0..MaxChanges
  BY RowsAssumption DEF Hidden, Favourited, Change, TableInv, TableTyped
<1>2. TableTyped'
  BY <1>1 DEF TableInv, TableTyped
<1> QED  BY <1>1, <1>2 DEF TableInv, RowsMeant, StatusesMeant, Evolves

----------------------------------------------------------------------------
\* The ids that are looked up do not change while the post is not touched.
NativeMeant(c) ==
    /\ NativeId(c) \in DOMAIN meaning /\ meaning[NativeId(c)] = Status(PostOf[c])
    /\ \A i \in DOMAIN meaning : meaning[i] = Status(PostOf[c]) => NativeId(c) <= i

LEMMA NativeFound ==
    ASSUME TableInv, NEW c \in Natives
    PROVE  NativeMeant(c)
<1> DEFINE S == {i \in DOMAIN meaning : meaning[i] = Status(PostOf[c])}
<1>1. Len(meaning) \in Nat /\ S \in SUBSET (0..Len(meaning))
  BY DEF TableInv, TableTyped
<1>2. S # {}
  BY DEF TableInv, StatusesMeant
<1>3. NativeId(c) = Min(S)
  BY DEF NativeId
<1>4. Min(S) \in S /\ \A i \in S : Min(S) <= i
  <2> HIDE DEF S
  <2> QED  BY <1>1, <1>2, Ends
<1> QED  BY <1>3, <1>4 DEF NativeMeant

LEMMA NativeKept ==
    ASSUME TableInv, TableInv', Evolves, NEW c \in Natives
    PROVE  NativeId(c)' = NativeId(c)
<1>1. PICK a : /\ a = NativeId(c) /\ a \in DOMAIN meaning /\ meaning[a] = Status(PostOf[c])
               /\ \A i \in DOMAIN meaning : meaning[i] = Status(PostOf[c]) => a <= i
  BY NativeFound DEF NativeMeant
<1>2. PICK b : /\ b = NativeId(c)' /\ b \in DOMAIN meaning' /\ meaning'[b] = Status(PostOf[c])
               /\ \A i \in DOMAIN meaning' : meaning'[i] = Status(PostOf[c]) => b <= i
  <2>1. (c \in Natives)'
    OBVIOUS
  <2>2. NativeMeant(c)'
    BY <2>1, NativeFound, PTL
  <2> QED  BY <2>2 DEF NativeMeant
<1>3. a \in DOMAIN meaning' /\ meaning'[a] = Status(PostOf[c])
  BY <1>1 DEF Evolves
<1>4. /\ Len(meaning) \in Nat /\ DOMAIN meaning = 1..Len(meaning)
      /\ Len(meaning') \in Nat /\ DOMAIN meaning' = 1..Len(meaning')
  BY DEF TableInv, TableTyped
<1>5. b <= a /\ b \in DOMAIN meaning
  BY <1>1, <1>2, <1>3, <1>4
<1>6. meaning[b] = Status(PostOf[c])
  BY <1>2, <1>5 DEF Evolves
<1>7. a <= b
  BY <1>1, <1>5, <1>6
<1> QED  BY <1>1, <1>2, <1>4, <1>5, <1>7

\* What an id is translated to is an id too.
LEMMA BackGiven ==
    ASSUME TableInv, NEW id \in DOMAIN meaning
    PROVE  Back(id) \in DOMAIN meaning
<1> DEFINE rows == {c \in Remote : Mapped(c) /\ row[c].local = id}
           S == {row[c].id : c \in rows}
<1>1. CASE rows = {}
  BY <1>1 DEF Back
<1>2. CASE rows # {}
  <2>1. Len(meaning) \in Nat /\ DOMAIN meaning = 1..Len(meaning)
    BY DEF TableInv, TableTyped
  <2>2. S \in SUBSET (0..Len(meaning)) /\ S # {}
    <3>1. \A c \in rows : row[c].id \in 1..Len(meaning)
      BY <2>1 DEF TableInv, RowsMeant, Mapped
    <3>2. \A c \in rows : row[c].id \in 0..Len(meaning)
      BY <2>1, <3>1
    <3> QED  BY <1>2, <3>2
  <2>3. Back(id) = Min(S)
    BY <1>2 DEF Back
  <2>4. Min(S) \in S
    <3> HIDE DEF S
    <3> QED  BY <2>1, <2>2, Ends
  <2>5. S \subseteq DOMAIN meaning
    BY <1>2 DEF TableInv, RowsMeant, Mapped
  <2> QED  BY <2>3, <2>4, <2>5
<1> QED  BY <1>1, <1>2

LEMMA BackKept ==
    ASSUME TableInv, TableInv', NEW p, NEW id \in DOMAIN meaning, meaning[id] = Status(p),
           Evolves, \A c \in Remote : PostOf[c] = p =>
              row'[c] = row[c] \/ (row[c] = NoRow /\ row'[c] # NoRow /\ row'[c].local = 0)
    PROVE  Back(id)' = Back(id)
<1> DEFINE rows == {c \in Remote : Mapped(c) /\ row[c].local = id}
           rows2 == {c \in Remote : Mapped(c)' /\ row'[c].local = id}
           low == {row[c].id : c \in rows}
           low2 == {row'[c].id : c \in rows2}
<1>1. \A c \in rows : PostOf[c] = p
  <2>1. \A c \in rows : meaning[id] = Status(PostOf[c])
    BY DEF TableInv, RowsMeant, Mapped
  <2> QED  BY <2>1, MeaningsDiffer
<1>2. \A c \in rows2 : PostOf[c] = p
  <2>1. meaning'[id] = Status(p)
    BY DEF Evolves
  <2>2. \A c \in rows2 : meaning'[id] = Status(PostOf[c])
    BY DEF TableInv, RowsMeant, Mapped
  <2> QED  BY <2>1, <2>2, MeaningsDiffer
<1>3. rows2 = rows
  BY <1>1, <1>2 DEF Mapped
<1>4. \A c \in rows : row'[c] = row[c]
  BY <1>1 DEF Mapped
<1>5. low2 = low
  BY <1>3, <1>4
<1>6. Back(id) = IF rows = {} THEN id ELSE Min(low)
  BY DEF Back
<1>7. Back(id)' = IF rows2 = {} THEN id ELSE Min(low2)
  BY DEF Back
<1> HIDE DEF rows, rows2, low, low2
<1> QED  BY <1>3, <1>5, <1>6, <1>7

----------------------------------------------------------------------------
\* What the request holds stays true while others change the table.
LEMMA HeldKept ==
    ASSUME Held, Evolves, req'.resolved = req.resolved, req'.ids = req.ids,
           req'.favs0 = req.favs0
    PROVE  Held'
BY DEF Held, Evolves

LEMMA LocalMeant ==
    ASSUME TableInv, Held, NEW c \in Copies, IsLocal(c)
    PROVE  LocalId(c) \in DOMAIN meaning /\ meaning[LocalId(c)] = Status(PostOf[c])
<1>1. CASE c \in Natives
  BY <1>1, NativeFound DEF LocalId, NativeMeant
<1>2. CASE c \notin Natives
  BY <1>2 DEF LocalId, IsLocal, Held
<1> QED  BY <1>1, <1>2

LEMMA LocalKept ==
    ASSUME TableInv, TableInv', Evolves, req'.resolved = req.resolved, NEW c
    PROVE  /\ IsLocal(c)' = IsLocal(c) /\ Foreign(c)' = Foreign(c)
           /\ IsLocal(c) => LocalId(c)' = LocalId(c)
<1>1. IsLocal(c)' = IsLocal(c) /\ Foreign(c)' = Foreign(c)
  BY DEF IsLocal, Foreign
<1>2. CASE c \in Natives
  BY <1>1, <1>2, NativeKept DEF LocalId
<1>3. CASE c \notin Natives
  BY <1>1, <1>3 DEF LocalId
<1> QED  BY <1>1, <1>2, <1>3

LEMMA SettledKept ==
    ASSUME Places, Settled, Consulted, RowsMove, req'.list = req.list,
           req'.resolved = req.resolved, req.touched \subseteq req'.touched
    PROVE  Settled'
<1>1. SUFFICES ASSUME NEW i \in DOMAIN req.list, req.list[i] \in Remote,
                      PostOf[req.list[i]] \notin req'.touched
               PROVE  /\ Mapped(req.list[i])' <=> req.list[i] \in DOMAIN req.resolved
                      /\ Mapped(req.list[i])' => row'[req.list[i]].local = req.resolved[req.list[i]]
  BY DEF Settled
<1>2. PICK c : c = req.list[i] /\ c \in Remote
  BY <1>1
<1>3. /\ Mapped(c) <=> c \in DOMAIN req.resolved
      /\ Mapped(c) => row[c].local = req.resolved[c]
  BY <1>1, <1>2 DEF Settled
<1>4. row'[c] = row[c] \/ (row[c] = NoRow /\ row'[c] # NoRow /\ row'[c].local = 0)
  BY <1>1, <1>2 DEF RowsMove
<1> QED  BY <1>2, <1>3, <1>4 DEF Mapped

LEMMA LookedKept ==
    ASSUME TableInv, TableInv', Evolves, Places, Held, Looked, Consulted, req'.list = req.list,
           req'.resolved = req.resolved, req'.base = req.base, req'.flags = req.flags,
           req'.fetch = req.fetch, req'.favs0 = req.favs0
    PROVE  Looked'
<1>1. SUFFICES ASSUME req.fetch \in {"enrich", "ready"}
               PROVE  /\ \A i \in DOMAIN req.list : IsLocal(req.list[i])' =>
                            \/ LocalId(req.list[i])' \in req.base
                            \/ LocalId(req.list[i])' \notin visible'
                      /\ req.fetch = "ready" => req.favs0 \cap req.base \subseteq req.flags
  BY DEF Looked
<1>2. ASSUME NEW i \in DOMAIN req.list, IsLocal(req.list[i])'
      PROVE  LocalId(req.list[i])' \in req.base \/ LocalId(req.list[i])' \notin visible'
  <2>1. PICK c : c = req.list[i] /\ c \in Copies
    BY DEF Places, Requests
  <2>2. IsLocal(c) /\ LocalId(c)' = LocalId(c)
    BY <1>2, <2>1, LocalKept
  <2>3. LocalId(c) \in DOMAIN meaning
    BY <2>1, <2>2, LocalMeant
  <2>4. LocalId(c) \in req.base \/ LocalId(c) \notin visible
    BY <1>1, <2>1, <2>2 DEF Looked
  <2>5. PICK id : id = LocalId(c) /\ id = LocalId(c)'
    BY <2>2
  <2> QED  BY <2>1, <2>3, <2>4, <2>5 DEF Evolves
<1> QED  BY <1>1, <1>2 DEF Looked

LEMMA NamedKept ==
    ASSUME TableInv, TableInv', Evolves, Named, Consulted, req'.list = req.list,
           req'.resolved = req.resolved, req'.ids = req.ids, req'.map = req.map,
           req'.kind = req.kind, req'.asked = req.asked,
           used \in Nat, used' \in Nat, used <= used'
    PROVE  Named'
<1>1. SUFFICES ASSUME req.map = "ready", NEW i \in DOMAIN req.list, Foreign(req.list[i])'
               PROVE  req.list[i] \in DOMAIN req.ids \/ Excused(req.list[i])'
  BY DEF Named
<1>2. Foreign(req.list[i])
  BY <1>1, LocalKept
<1>3. req.list[i] \in DOMAIN req.ids \/ Excused(req.list[i])
  BY <1>1, <1>2 DEF Named
<1>4. Excused(req.list[i]) => Excused(req.list[i])'
  BY DEF Excused, BatchRepeats
<1> QED  BY <1>3, <1>4

LEMMA EntryKept ==
    ASSUME TableInv, TableInv', Evolves, req'.resolved = req.resolved, req'.base = req.base,
           req'.parents = req.parents, req'.flags = req.flags, req'.ids = req.ids, req'.max = req.max, NEW c
    PROVE  EntryOf(c)' = EntryOf(c) /\ Served(c)' = Served(c)
<1>1. /\ IsLocal(c)' = IsLocal(c) /\ Foreign(c)' = Foreign(c)
      /\ IsLocal(c) => LocalId(c)' = LocalId(c)
  BY LocalKept
<1>2. IsLocal(c) \/ Foreign(c)
  BY DEF Foreign
<1>3. EntryOf(c)' = EntryOf(c)
  BY <1>1 DEF EntryOf, LocalEntry, RemoteEntry, Entry
<1>4. Served(c)' = Served(c)
  BY <1>1, <1>2, <1>3 DEF Served, Foreign
<1> QED  BY <1>3, <1>4

LEMMA ItemsKept ==
    ASSUME Items, Evolves, req'.items = req.items
    PROVE  Items'
BY DEF Items, Evolves

LEMMA WalkedKept ==
    ASSUME Walked, req'.kind = req.kind, req'.items = req.items, req'.pc = req.pc,
           req'.page = req.page, req'.asked = req.asked, req'.list = req.list,
           used \in Nat, used' \in Nat, used <= used'
    PROVE  Walked'
BY DEF Walked, At

LEMMA PageKept ==
    ASSUME TableInv, TableInv', Evolves, PageMade, req'.pc = req.pc, req'.kind = req.kind,
           req'.list = req.list, req'.max = req.max, req'.resolved = req.resolved,
           req'.base = req.base, req'.parents = req.parents, req'.flags = req.flags,
           req'.ids = req.ids,
           req'.page = req.page, req'.next = req.next, req'.fetch = req.fetch,
           req'.map = req.map, used' = used
    PROVE  PageMade'
<1>1. SUFFICES ASSUME Timeline
               PROVE  /\ Len(req.page) <= Limit
                      /\ req.next \in {End, Url} \cup DOMAIN meaning'
                      /\ InOrder' /\ OfServed'
                      /\ used = 0 /\ Len(req.page) < Limit => AllServed'
                      /\ (req.page # <<>> \/ used = 0) => req.fetch = "ready" /\ req.map = "ready"
  BY DEF PageMade, Timeline, At
<1>2. \A c : EntryOf(c)' = EntryOf(c) /\ Served(c)' = Served(c)
  BY EntryKept
<1>3. InOrder'
  BY <1>1 DEF PageMade, InOrder
<1>4. OfServed'
  <2>1. OfServed
    BY <1>1 DEF PageMade
  <2> QED  BY <1>2, <2>1 DEF OfServed
<1>5. used = 0 /\ Len(req.page) < Limit => AllServed'
  <2>1. used = 0 /\ Len(req.page) < Limit => AllServed
    BY <1>1 DEF PageMade
  <2> QED  BY <1>2, <2>1 DEF AllServed
<1> QED  BY <1>1, <1>3, <1>4, <1>5 DEF PageMade, Evolves

LEMMA TranslationKept ==
    ASSUME TableInv, TableInv', Evolves, Places, Items, Translation,
           At("translate") \/ At("shown") => RowsMove, req'.pc = req.pc,
           req'.page = req.page, req'.items = req.items, req.touched \subseteq req'.touched
    PROVE  Translation'
<1>1. SUFFICES ASSUME At("translate") \/ (At("shown") /\ req.items # <<>>)
               PROVE  /\ Len(req.page) <= Len(req.items)
                      /\ \A k \in DOMAIN req.page :
                            LET e == req.page[k]  item == req.items[k]
                            IN /\ e.post = item.post /\ e.id # Url
                               /\ e.post \notin req'.touched => e.id = Back(item.id)'
                               /\ item.parent # Null /\ meaning'[item.parent].post \notin req'.touched
                                  => e.parent = Back(item.parent)'
  BY DEF Translation, At
<1>2. Len(req.page) <= Len(req.items)
  BY <1>1 DEF Translation
<1>3. ASSUME NEW k \in DOMAIN req.page
      PROVE  LET e == req.page[k]  item == req.items[k]
             IN /\ e.post = item.post /\ e.id # Url
                /\ e.post \notin req'.touched => e.id = Back(item.id)'
                /\ item.parent # Null /\ meaning'[item.parent].post \notin req'.touched
                   => e.parent = Back(item.parent)'
  <2>1. PICK e, item : e = req.page[k] /\ item = req.items[k]
    OBVIOUS
  <2>2. k \in DOMAIN req.items
    BY <1>2 DEF Places, Requests
  <2>3. /\ e.post = item.post /\ e.id # Url
        /\ e.post \notin req.touched => e.id = Back(item.id)
        /\ item.parent # Null /\ meaning[item.parent].post \notin req.touched
           => e.parent = Back(item.parent)
    BY <1>1, <1>3, <2>1 DEF Translation
  <2>4. /\ item.id \in DOMAIN meaning /\ meaning[item.id] = Status(item.post)
        /\ item.parent # Null => /\ item.parent \in DOMAIN meaning
                                 /\ \E p \in Posts : meaning[item.parent] = Status(p)
    BY <2>1, <2>2 DEF Items
  <2>5. ASSUME NEW p, p \notin req'.touched
        PROVE  \A c \in Remote : PostOf[c] = p =>
                  row'[c] = row[c] \/ (row[c] = NoRow /\ row'[c] # NoRow /\ row'[c].local = 0)
    BY <1>1, <2>5 DEF RowsMove
  <2>6. ASSUME e.post \notin req'.touched PROVE e.id = Back(item.id)'
    <3>1. Back(item.id)' = Back(item.id)
      <4>1. PICK i, p : i = item.id /\ p = item.post /\ p \notin req'.touched
        BY <2>3, <2>6
      <4>2. Back(i)' = Back(i)
        BY <2>4, <2>5, <4>1, BackKept
      <4> QED  BY <4>1, <4>2
    <3> QED  BY <2>3, <2>6, <3>1
  <2>7. ASSUME item.parent # Null, meaning'[item.parent].post \notin req'.touched
        PROVE  e.parent = Back(item.parent)'
    <3>1. PICK i, p : i = item.parent /\ i \in DOMAIN meaning /\ p \in Posts
                      /\ meaning[i] = Status(p)
      BY <2>4, <2>7
    <3>2. meaning'[i] = meaning[i] /\ p = meaning[i].post
      BY <3>1, MeaningsDiffer DEF Evolves
    <3>3. Back(i)' = Back(i)
      BY <2>5, <2>7, <3>1, <3>2, BackKept
    <3> QED  BY <2>3, <2>7, <3>1, <3>2, <3>3
  <2> QED  BY <2>1, <2>3, <2>6, <2>7
<1> QED  BY <1>2, <1>3

----------------------------------------------------------------------------
\* What others do keeps the invariant.
LEMMA OthersTable ==
    ASSUME TableInv, Places, Others
    PROVE  /\ TableInv' /\ Evolves /\ IdsKept /\ used' = used
           /\ \E p \in Posts :
                 /\ req' = req \/ req' = [req EXCEPT !.touched = @ \cup {p}]
                 /\ ~At("idle") => RowsMove
<1>1. used' = used
  BY DEF Others
<1>2. ASSUME NEW c \in Remote, Resolved(c) \/ Cleared(c) \/ Deleted(c), Touch(PostOf[c])
      PROVE  /\ TableInv' /\ Evolves /\ IdsKept
             /\ \E p \in Posts :
                   /\ req' = req \/ req' = [req EXCEPT !.touched = @ \cup {p}]
                   /\ ~At("idle") => RowsMove
  <2>1. TableInv' /\ Evolves /\ IdsKept /\ \A d \in Remote : d = c \/ row'[d] = row[d]
    BY <1>2, ResolvedKept, ClearedKept, DeletedKept
  <2>2. /\ req' = req \/ req' = [req EXCEPT !.touched = @ \cup {PostOf[c]}]
        /\ ~At("idle") => req' = [req EXCEPT !.touched = @ \cup {PostOf[c]}]
    BY <1>2 DEF Touch
  <2>3. ~At("idle") => RowsMove
    <3>1. ~At("idle") => PostOf[c] \in req'.touched
      BY <2>2 DEF Places, Requests
    <3> QED  BY <2>1, <3>1 DEF RowsMove
  <2>4. PostOf[c] \in Posts
    BY Sources
  <2> QED  BY <2>1, <2>2, <2>3, <2>4
<1>3. ASSUME NEW id \in visible, Hidden(id) \/ Favourited(id),
             Touch(meaning[id].post) \/ UNCHANGED req
      PROVE  /\ TableInv' /\ Evolves /\ IdsKept
             /\ \E p \in Posts :
                   /\ req' = req \/ req' = [req EXCEPT !.touched = @ \cup {p}]
                   /\ ~At("idle") => RowsMove
  <2>1. TableInv' /\ Evolves /\ row' = row
    BY <1>3, StatusesKept
  <2>2. meaning[id].post \in Posts
    BY MeaningsDiffer DEF TableInv, StatusesMeant
  <2>3. IdsKept /\ RowsMove
    BY <2>1 DEF IdsKept, RowsMove
  <2>4. req' = req \/ req' = [req EXCEPT !.touched = @ \cup {meaning[id].post}]
    BY <1>3 DEF Touch
  <2> QED  BY <2>1, <2>2, <2>3, <2>4
<1>4. \/ \E c \in Remote : (Resolved(c) \/ Cleared(c) \/ Deleted(c)) /\ Touch(PostOf[c])
      \/ \E id \in visible : (Hidden(id) \/ Favourited(id))
                             /\ (Touch(meaning[id].post) \/ UNCHANGED req)
  <2>1. \/ \E c \in Remote : (Resolved(c) \/ Cleared(c) \/ Deleted(c)) /\ Touch(PostOf[c])
        \/ \E id \in visible : Hidden(id) /\ Touch(meaning[id].post)
        \/ \E id \in visible \ favs : Favourited(id) /\ UNCHANGED req
    BY DEF Others
  <2>2. visible \ favs \subseteq visible
    OBVIOUS
  <2> QED  BY <2>1, <2>2, Zenon
<1> QED  BY <1>1, <1>2, <1>3, <1>4

\* The table moves on below a request, which notes at most a post.
LEMMA Meanwhile ==
    ASSUME PagesInv, TableInv', Evolves, used' = used, ~At("idle") => RowsMove, NEW p,
           req' = req \/ (p \in Posts /\ req' = [req EXCEPT !.touched = @ \cup {p}])
    PROVE  PagesInv'
<1>1. /\ TableInv /\ Places /\ Single /\ Held /\ Settled /\ Looked /\ Named
      /\ PageMade /\ Items /\ Translation /\ Walked
  BY DEF PagesInv
<1>2. /\ TableInv' /\ Evolves /\ used' = used /\ (~At("idle") => RowsMove)
      /\ req' = req \/ (p \in Posts /\ req' = [req EXCEPT !.touched = @ \cup {p}])
  OBVIOUS
<1>3. /\ req'.pc = req.pc /\ req'.kind = req.kind /\ req'.max = req.max /\ req'.list = req.list
      /\ req'.resolved = req.resolved /\ req'.fetch = req.fetch /\ req'.base = req.base
      /\ req'.parents = req.parents
      /\ req'.flags = req.flags /\ req'.map = req.map /\ req'.ids = req.ids
      /\ req'.page = req.page /\ req'.next = req.next /\ req'.favs0 = req.favs0
      /\ req'.asked = req.asked /\ req'.items = req.items /\ req'.cursor = req.cursor
      /\ req.touched \subseteq req'.touched /\ req' \in Requests
  <2>1. CASE req' = req
    BY <1>1, <2>1 DEF Places
  <2>2. CASE p \in Posts /\ req' = [req EXCEPT !.touched = @ \cup {p}]
    <3>1. req \in Requests
      BY <1>1 DEF Places
    <3>2. req.touched \cup {p} \in SUBSET Posts
      BY <2>2, <3>1 DEF Requests
    <3> QED  BY <2>2, <3>1, <3>2 DEF Requests
  <2> QED  BY <1>2, <2>1, <2>2
<1>4. Consulted' = Consulted /\ (Consulted => ~At("idle"))
  BY <1>2, <1>3 DEF Consulted, Timeline, At
<1>5. used \in Nat /\ used' \in Nat /\ used <= used'
  BY <1>1, <1>2, PagesAssumption DEF Places
<1>6. Places'
  BY <1>1, <1>2, <1>3 DEF Places
<1>7. Single' /\ Held' /\ Items'
  BY <1>1, <1>2, <1>3, HeldKept, ItemsKept DEF Single
<1>8. Settled'
  BY <1>1, <1>2, <1>3, <1>4, SettledKept DEF Settled
<1>9. Looked'
  BY <1>1, <1>2, <1>3, <1>4, LookedKept DEF Looked
<1>10. Named'
  BY <1>1, <1>2, <1>3, <1>4, <1>5, NamedKept DEF Named
<1>11. PageMade'
  BY <1>1, <1>2, <1>3, PageKept
<1>12. Translation'
  BY <1>1, <1>2, <1>3, TranslationKept DEF At
<1>13. Walked'
  BY <1>1, <1>3, <1>5, WalkedKept
<1> QED  BY <1>2, <1>6, <1>7, <1>8, <1>9, <1>10, <1>11, <1>12, <1>13 DEF PagesInv

LEMMA OthersStep ==
    ASSUME PagesInv, Others
    PROVE  PagesInv'
<1>1. TableInv /\ Places
  BY DEF PagesInv
<1>2. PICK p \in Posts : /\ TableInv' /\ Evolves /\ used' = used
                         /\ req' = req \/ req' = [req EXCEPT !.touched = @ \cup {p}]
                         /\ ~At("idle") => RowsMove
  BY <1>1, OthersTable
<1> QED  BY <1>2, Meanwhile

----------------------------------------------------------------------------
\* A request begins, and ends.
LEMMA Deduplicated ==
    ASSUME NEW list \in Seq(Copies)
    PROVE  /\ Deduped(list) \in Seq(Copies)
           /\ \A i, j \in DOMAIN Deduped(list) : Key(Deduped(list)[i]) = Key(Deduped(list)[j]) => i = j
<1> DEFINE kept == {i \in DOMAIN list : \A j \in DOMAIN list :
                       j # i /\ Key(list[j]) = Key(list[i]) => Before(list, i, j)}
<1>1. Deduped(list) = Sublist(list, kept)
  BY DEF Deduped
<1>2. kept \in SUBSET DOMAIN list
  OBVIOUS
<1>3. \A a, b \in kept : Key(list[a]) = Key(list[b]) => a = b
  <2>1. SUFFICES ASSUME NEW a \in kept, NEW b \in kept, Key(list[a]) = Key(list[b]), a # b
                 PROVE  FALSE
    OBVIOUS
  <2>2. Before(list, a, b) /\ Before(list, b, a) /\ a \in Int /\ b \in Int
    BY <2>1
  <2> QED  BY <2>2 DEF Before
<1> HIDE DEF kept
<1>4. Sublist(list, kept) \in Seq(Copies)
  BY <1>2, SublistParts
<1>5. PICK from \in [DOMAIN Sublist(list, kept) -> kept] :
         /\ \A k \in DOMAIN Sublist(list, kept) : Sublist(list, kept)[k] = list[from[k]]
         /\ \A k, l \in DOMAIN Sublist(list, kept) : from[k] = from[l] => k = l
  BY <1>2, SublistParts
<1> QED  BY <1>1, <1>3, <1>4, <1>5

LEMMA IdleTyped == Idle \in Requests
<1>1. Nothing \in Tables
  BY DEF Nothing, Tables
<1>2. {} \in SUBSET Nat /\ {} \in SUBSET Posts /\ 0 \in Nat /\ 1 \in Nat
  OBVIOUS
<1>3. <<>> \in Seq(Copies) /\ <<>> \in Seq(Entries)
  OBVIOUS
<1>4. [p \in Posts |-> Null] \in [Posts -> Nat]
  BY DEF Null
<1> QED  BY <1>1, <1>2, <1>3, <1>4 DEF Idle, Requests, Pcs, Url, End

\* What only concerns a request that has looked its posts up.
LEMMA Quiet ==
    ASSUME req'.pc \notin {"join", "shown"}
    PROVE  Settled' /\ Looked' /\ Named' /\ PageMade'
BY DEF Settled, Looked, Named, PageMade, Consulted, Timeline, At

LEMMA QuietContext ==
    ASSUME req'.kind = "context", req'.pc # "join"
    PROVE  Single' /\ Settled' /\ Looked' /\ Named' /\ PageMade'
BY DEF Single, Settled, Looked, Named, PageMade, Consulted, Timeline, At

LEMMA BeginStep ==
    ASSUME PagesInv, NEW kind \in {"tag", "link"}, NEW max \in Nat, Begin(kind, max)
    PROVE  PagesInv'
<1>1. TableInv /\ used \in 0..MaxDisruptions
  BY DEF PagesInv, Places
<1>2. TableInv' /\ Evolves /\ used' = used
  BY <1>1, SameTable DEF Begin
<1>3. PICK list \in IF kind = "tag" THEN TagCandidates ELSE LinkCandidates :
         req' = [Idle EXCEPT !.pc = "lookup", !.kind = kind, !.max = max, !.favs0 = favs,
                             !.list = list]
  BY DEF Begin
<1>4. list \in Seq(Copies) /\ (kind = "tag" =>
         \A i, j \in DOMAIN list : Key(list[i]) = Key(list[j]) => i = j)
  <2>1. CASE kind = "tag"
    <3>1. PICK ranked \in Seq(Copies) : list = Deduped(ranked)
      BY <1>3, <2>1, PagesAssumption DEF TagCandidates
    <3> QED  BY <3>1, Deduplicated
  <2>2. CASE kind # "tag"
    BY <1>3, <2>2, PagesAssumption DEF LinkCandidates
  <2> QED  BY <2>1, <2>2
<1>5. favs \in SUBSET Nat
  BY <1>1 DEF TableInv, TableTyped
<1>6. /\ req'.pc = "lookup" /\ req'.kind = kind /\ req'.list = list /\ req'.favs0 = favs
      /\ req'.resolved = Nothing /\ req'.ids = Nothing /\ req'.base = {} /\ req'.items = <<>>
      /\ req'.page = <<>> /\ req'.fetch = "ready"
  BY <1>3 DEF Idle
<1>7. req' \in Requests
  BY <1>3, <1>4, <1>5, IdleTyped DEF Requests, Pcs
<1>8. Places'
  BY <1>1, <1>2, <1>6, <1>7 DEF Places, ContextPcs
<1>9. Single'
  BY <1>4, <1>6 DEF Single
<1>10. Held'
  BY <1>2, <1>6 DEF Held, Nothing, Evolves
<1>11. Items' /\ Translation' /\ Walked'
  BY <1>6 DEF Items, Translation, Walked, At
<1>12. Settled' /\ Looked' /\ Named' /\ PageMade'
  BY <1>6, Quiet
<1> QED  BY <1>2, <1>8, <1>9, <1>10, <1>11, <1>12 DEF PagesInv

LEMMA OpenStep ==
    ASSUME PagesInv, NEW kind \in DOMAIN Rankings, Open(kind)
    PROVE  PagesInv'
<1>1. kind \in {"tag", "link"} /\ Url \in Nat
  BY PagesAssumption DEF Url
<1> QED  BY <1>1, BeginStep DEF Open

LEMMA FollowStep == ASSUME PagesInv, Follow PROVE PagesInv'
<1>1. req.next \in Nat /\ req.kind \in {"tag", "link"}
  BY DEF Follow, PagesInv, Places, Requests, End
<1> QED  BY <1>1, BeginStep DEF Follow

LEMMA CloseStep == ASSUME PagesInv, Close PROVE PagesInv'
<1>1. TableInv /\ used \in 0..MaxDisruptions
  BY DEF PagesInv, Places
<1>2. TableInv' /\ Evolves /\ used' = used /\ req' = Idle
  BY <1>1, SameTable DEF Close
<1>3. /\ req'.pc = "idle" /\ req'.kind = "tag" /\ req'.list = <<>> /\ req'.favs0 = {}
      /\ req'.resolved = Nothing /\ req'.ids = Nothing /\ req'.items = <<>> /\ req'.page = <<>>
      /\ req'.fetch = "ready"
  BY <1>2 DEF Idle
<1>4. Places'
  BY <1>1, <1>2, <1>3, IdleTyped DEF Places, ContextPcs
<1>5. Single' /\ Held'
  BY <1>3 DEF Single, Held, Nothing
<1>6. Items' /\ Translation' /\ Walked'
  BY <1>3 DEF Items, Translation, Walked, At
<1>7. Settled' /\ Looked' /\ Named' /\ PageMade'
  BY <1>3, Quiet
<1> QED  BY <1>2, <1>4, <1>5, <1>6, <1>7 DEF PagesInv

LEMMA OpenContextStep ==
    ASSUME PagesInv, NEW c \in Asked, OpenContext(c)
    PROVE  PagesInv'
<1>1. TableInv /\ used \in 0..MaxDisruptions /\ c \in Remote
  BY PagesAssumption DEF PagesInv, Places
<1>2. TableInv' /\ Evolves /\ used' = used
  BY <1>1, SameTable DEF OpenContext
<1>3. PICK pc \in {"forward", "ancestors"} :
         req' = [Idle EXCEPT !.kind = "context", !.asked = c, !.rowId = row[c].id,
                             !.local = row[c].local, !.favs0 = favs, !.pc = pc]
  BY DEF OpenContext
<1>4. row[c].id \in Nat /\ row[c].local \in Nat /\ favs \in SUBSET Nat
  <2>1. row[c].id \in Nat /\ row[c].local \in Nat
    BY <1>1, RowType DEF OpenContext
  <2>2. favs \in SUBSET Nat
    BY <1>1 DEF TableInv, TableTyped
  <2> QED  BY <2>1, <2>2
<1>5. /\ req'.pc = pc /\ req'.kind = "context" /\ req'.list = <<>> /\ req'.favs0 = favs
      /\ req'.resolved = Nothing /\ req'.ids = Nothing /\ req'.items = <<>> /\ req'.page = <<>>
      /\ req'.asked = c /\ req'.cursor = 1 /\ req'.next = End
      /\ req'.fetch = "ready"
  BY <1>3 DEF Idle
<1>6. req' \in Requests
  BY <1>1, <1>3, <1>4, IdleTyped DEF Requests, Pcs
<1>7. Places'
  <2>1. 1 \in DOMAIN ReplyPages[c]
    BY PagesAssumption
  <2>2. <<>> \in Seq(Remote)
    OBVIOUS
  <2> QED  BY <1>1, <1>2, <1>5, <1>6, <2>1, <2>2 DEF Places, ContextPcs
<1>8. Held'
  BY <1>2, <1>5 DEF Held, Nothing, Evolves
<1>9. Items' /\ Translation' /\ Walked'
  BY <1>5 DEF Items, Translation, Walked, At
<1>10. Single' /\ Settled' /\ Looked' /\ Named' /\ PageMade'
  BY <1>5, QuietContext
<1> QED  BY <1>2, <1>7, <1>8, <1>9, <1>10 DEF PagesInv

----------------------------------------------------------------------------
\* A timeline.
LEMMA Disrupted ==
    ASSUME used \in 0..MaxDisruptions, NEW d, UNCHANGED used \/ Disrupt(d)
    PROVE  /\ used' \in 0..MaxDisruptions /\ used \in Nat /\ used' \in Nat /\ used <= used'
           /\ Disrupt(d) => used' > 0
BY PagesAssumption DEF Disrupt

\* A batch that repeats itself is part of one that does.
LEMMA RepeatsMore ==
    ASSUME NEW T, NEW list \in Seq(T), NEW R, NEW S \in SUBSET R, Repeats(Only(list, S))
    PROVE  Repeats(Only(list, R))
<1> DEFINE at(X) == {i \in DOMAIN list : list[i] \in X}
<1>1. Only(list, S) = Sublist(list, at(S)) /\ Only(list, R) = Sublist(list, at(R))
  BY DEF Only
<1>2. at(S) \in SUBSET DOMAIN list /\ at(R) \in SUBSET DOMAIN list /\ at(S) \subseteq at(R)
  OBVIOUS
<1> HIDE DEF at
<1> DEFINE s == Sublist(list, at(S))
           r == Sublist(list, at(R))
<1>3. PICK f \in [DOMAIN s -> at(S)] :
         /\ \A k \in DOMAIN s : s[k] = list[f[k]]
         /\ \A k, l \in DOMAIN s : k < l <=> f[k] < f[l]
  BY <1>2, SublistParts
<1>4. PICK g \in [DOMAIN r -> at(R)] :
         /\ \A k \in DOMAIN r : r[k] = list[g[k]]
         /\ \A i \in at(R) : \E k \in DOMAIN r : g[k] = i
         /\ \A k, l \in DOMAIN r : k < l <=> g[k] < g[l]
  BY <1>2, SublistParts
<1> HIDE DEF s, r
<1>5. PICK i \in DOMAIN s, j \in DOMAIN s : i < j /\ s[i] = s[j]
  BY <1>1 DEF Repeats, s
<1>6. PICK k \in DOMAIN r, l \in DOMAIN r : g[k] = f[i] /\ g[l] = f[j]
  BY <1>2, <1>3, <1>4, <1>5
<1>7. k < l /\ r[k] = r[l]
  BY <1>3, <1>4, <1>5, <1>6
<1> QED  BY <1>1, <1>7 DEF Repeats, r

\* A batch is mapped to the snowflakes of its copies.
LEMMA MapsTable ==
    ASSUME TableInv, NEW batch \in Seq(Remote), Maps(batch)
    PROVE  /\ TableInv' /\ Evolves /\ IdsKept /\ RowsAdded /\ used' = used
           /\ Returning(batch, row') \in Tables
           /\ DOMAIN Returning(batch, row') = ToSet(batch)
           /\ \A c \in ToSet(batch) : /\ Returning(batch, row')[c] \in DOMAIN meaning'
                                      /\ meaning'[Returning(batch, row')[c]] = RowOf(c)
<1>1. Upsert(batch) /\ UNCHANGED <<visible, favs, changes>> /\ used' = used
  BY DEF Maps
<1>2. /\ TableInv' /\ Evolves /\ IdsKept /\ RowsAdded
      /\ \A c \in ToSet(batch) : row'[c] # NoRow
  BY <1>1, Upserts
<1>3. Returning(batch, row') = [c \in ToSet(batch) |-> row'[c].id]
  BY DEF Returning
<1>4. ToSet(batch) \subseteq Remote
  BY DEF ToSet
<1>5. \A c \in ToSet(batch) : row'[c].id \in DOMAIN meaning' /\ meaning'[row'[c].id] = RowOf(c)
  BY <1>2, <1>4 DEF TableInv, RowsMeant
<1>6. DOMAIN meaning' \subseteq Nat
  BY <1>2 DEF TableInv, TableTyped
<1>7. Returning(batch, row') \in [ToSet(batch) -> Nat]
  BY <1>3, <1>5, <1>6
<1>8. Returning(batch, row') \in Tables
  BY <1>4, <1>7 DEF Tables
<1> QED  BY <1>1, <1>2, <1>3, <1>5, <1>8

LEMMA AddedMoves == ASSUME RowsAdded PROVE RowsMove
BY DEF RowsAdded, RowsMove

LEMMA RefusedTable ==
    ASSUME TableInv, used \in 0..MaxDisruptions, NEW batch, Refused(batch)
    PROVE  /\ TableInv' /\ Evolves /\ IdsKept /\ RowsMove
           /\ used' \in 0..MaxDisruptions /\ used <= used' /\ (Repeats(batch) \/ used' > 0)
<1>1. UNCHANGED rowVars /\ ((Repeats(batch) /\ UNCHANGED used) \/ Disrupt("db"))
  BY DEF Refused
<1>2. TableInv' /\ Evolves /\ IdsKept /\ RowsMove
  BY <1>1, SameTable, AddedMoves
<1> QED  BY <1>1, <1>2, Disrupted

LEMMA NothingTyped == Nothing \in Tables /\ DOMAIN Nothing = {}
BY DEF Nothing, Tables

\* While a timeline is joined, nothing is on its page yet.
LEMMA Joining ==
    ASSUME req'.pc = "join", req'.kind # "context"
    PROVE  PageMade' /\ Translation' /\ Walked'
BY DEF PageMade, Translation, Walked, Timeline, At

LEMMA LookupStep == ASSUME PagesInv, Lookup PROVE PagesInv'
<1>1. /\ TableInv /\ Places /\ Single /\ Held /\ Items /\ At("lookup") /\ req \in Requests
      /\ used \in 0..MaxDisruptions
  BY DEF PagesInv, Lookup, Places
<1>2. UNCHANGED rowVars
  BY DEF Lookup
<1>3. TableInv' /\ Evolves
  BY <1>1, <1>2, SameTable
<1>4. /\ req.kind # "context" /\ req.items = <<>> /\ req.base = {} /\ req.pc = "lookup"
      /\ req.list \in Seq(Copies)
      /\ req.fetch = "failed" => used > 0
  BY <1>1 DEF Places, At, Requests
<1> DEFINE resolved == LocalIds(ToSet(req.list) \cap Remote)
<1>5. ASSUME used' = used,
             req' = [req EXCEPT !.pc = "join", !.resolved = resolved, !.map = "todo",
                                !.fetch = IF Locals(resolved) = {} THEN "ready" ELSE "base"]
      PROVE  PagesInv'
  <2>1. DOMAIN resolved = {d \in ToSet(req.list) \cap Remote : Mapped(d)}
    BY DEF LocalIds
  <2>2. \A c \in DOMAIN resolved : resolved[c] = row[c].local
    BY DEF LocalIds
  <2>3. \A c \in DOMAIN resolved : resolved[c] \in DOMAIN meaning /\ meaning[resolved[c]] = Status(PostOf[c])
    BY <1>1, <2>1, <2>2, RowType
  <2>4. resolved \in Tables
    <3>1. DOMAIN meaning \subseteq Nat
      BY <1>1 DEF TableInv, TableTyped
    <3>2. resolved = [c \in DOMAIN resolved |-> resolved[c]]
      BY DEF LocalIds
    <3>3. resolved \in [DOMAIN resolved -> Nat]
      BY <2>3, <3>1, <3>2
    <3> QED  BY <2>1, <3>3 DEF Tables
  <2> HIDE DEF resolved
  <2>5. /\ req'.pc = "join" /\ req'.resolved = resolved /\ req'.map = "todo"
        /\ req'.fetch = IF Locals(resolved) = {} THEN "ready" ELSE "base"
        /\ req'.kind = req.kind /\ req'.list = req.list /\ req'.ids = req.ids
        /\ req'.base = {} /\ req'.flags = req.flags /\ req'.favs0 = req.favs0
        /\ req'.items = req.items /\ req'.touched = req.touched /\ req'.page = req.page
    BY <1>1, <1>4, <1>5 DEF Requests
  <2>6. req' \in Requests
    <3>1. PICK fetch \in {"ready", "base"} :
             req' = [req EXCEPT !.pc = "join", !.resolved = resolved, !.map = "todo",
                                !.fetch = fetch]
      BY <1>5
    <3> QED  BY <1>1, <2>4, <3>1 DEF Requests, Pcs
  <2>7. Places'
    BY <1>1, <1>4, <1>5, <2>5, <2>6 DEF Places, ContextPcs
  <2>8. Single' /\ Items'
    BY <1>1, <1>3, <2>5, ItemsKept DEF Single
  <2>9. Held'
    BY <1>1, <1>3, <2>3, <2>5 DEF Held, Evolves
  <2>10. Settled'
    <3>1. row' = row
      BY <1>2 DEF rowVars
    <3> QED  BY <2>1, <2>2, <2>5, <3>1 DEF Settled, ToSet, Mapped
  <2>11. Looked'
    <3>1. SUFFICES ASSUME req'.fetch \in {"enrich", "ready"}
                   PROVE  \A i \in DOMAIN req.list : ~IsLocal(req.list[i])'
      BY <2>5 DEF Looked
    <3>2. Locals(resolved) = {}
      BY <2>5, <3>1
    <3> QED  BY <2>5, <3>2 DEF Locals, IsLocal, ToSet
  <2>12. Named'
    BY <2>5 DEF Named
  <2>13. PageMade' /\ Translation' /\ Walked'
    BY <1>4, <2>5, Joining
  <2> QED  BY <1>3, <2>7, <2>8, <2>9, <2>10, <2>11, <2>12, <2>13 DEF PagesInv
<1>6. ASSUME Show(<<>>, End), Disrupt("db")
      PROVE  PagesInv'
  <2>1. used' \in 0..MaxDisruptions /\ used' > 0
    BY <1>1, <1>6, Disrupted
  <2>2. /\ req'.pc = "shown" /\ req'.page = <<>> /\ req'.next = End
        /\ req'.kind = req.kind /\ req'.list = req.list /\ req'.resolved = req.resolved
        /\ req'.ids = req.ids /\ req'.favs0 = req.favs0 /\ req'.items = <<>>
    BY <1>1, <1>4, <1>6 DEF Requests, Show
  <2>3. req' \in Requests
    <3>1. <<>> \in Seq(Entries)
      OBVIOUS
    <3> QED  BY <1>1, <1>6, <3>1 DEF Requests, Pcs, Show
  <2>4. Places'
    BY <1>1, <1>4, <2>1, <2>2, <2>3 DEF Places, ContextPcs
  <2>5. Single' /\ Items' /\ Held'
    BY <1>1, <1>3, <1>4, <2>2, HeldKept DEF Single, Items
  <2>6. Settled' /\ Looked' /\ Named'
    <3>1. ~Consulted'
      BY <2>1, <2>2 DEF Consulted, At
    <3> QED  BY <3>1 DEF Settled, Looked, Named
  <2>7. PageMade'
    <3>1. InOrder'
      <4>1. [k \in {} |-> 1] \in [DOMAIN req'.page -> DOMAIN req'.list]
        BY <2>2
      <4>2. DOMAIN [k \in {} |-> 1] = {}
        OBVIOUS
      <4> QED  BY <2>2, <4>1, <4>2 DEF InOrder
    <3>2. OfServed'
      BY <2>2 DEF OfServed
    <3> QED  BY <2>1, <2>2, <3>1, <3>2, PagesAssumption DEF PageMade
  <2>8. Translation' /\ Walked'
    BY <1>4, <2>2 DEF Translation, Walked, At
  <2> QED  BY <1>3, <2>4, <2>5, <2>6, <2>7, <2>8 DEF PagesInv
<1> QED  BY <1>5, <1>6 DEF Lookup

\* What a statement of the join keeps, apart from what it reads.
LEMMA JoinKept ==
    ASSUME TableInv, TableInv', Evolves, RowsMove, Places, Single, Held, Settled, Items, At("join"),
           req'.pc = "join", req'.kind = req.kind, req'.list = req.list,
           req'.resolved = req.resolved, req'.favs0 = req.favs0, req'.items = req.items,
           req'.touched = req.touched
    PROVE  /\ Single' /\ Settled' /\ Items' /\ PageMade' /\ Translation' /\ Walked'
           /\ req'.ids = req.ids => Held'
<1>1. Consulted /\ req.kind # "context"
  BY DEF Consulted, Places, At
<1>2. Single' /\ Items'
  BY ItemsKept DEF Single
<1>3. Settled'
  BY <1>1, SettledKept
<1>4. PageMade' /\ Translation' /\ Walked'
  BY <1>1, Joining
<1>5. req'.ids = req.ids => Held'
  BY HeldKept
<1> QED  BY <1>2, <1>3, <1>4, <1>5

\* The status that stands for a post, and the one it replies to.
LEMMA StatusMeant ==
    ASSUME TableInv, NEW ids \in SUBSET DOMAIN meaning, NEW p
    PROVE  /\ StatusIn(ids, p) \in Nat
           /\ StatusIn(ids, p) # Null => /\ StatusIn(ids, p) \in DOMAIN meaning
                                         /\ meaning[StatusIn(ids, p)] = Status(p)
<1> DEFINE found == {i \in ids : meaning[i] = Status(p)}
           S == found \cup {Null}
<1>1. /\ Len(meaning) \in Nat /\ DOMAIN meaning = 1..Len(meaning)
      /\ S \in SUBSET (0..Len(meaning)) /\ S # {}
  BY DEF TableInv, TableTyped, Null
<1>2. StatusIn(ids, p) = Max(S)
  BY DEF StatusIn
<1>3. Max(S) \in S
  <2> HIDE DEF S
  <2> QED  BY <1>1, Ends
<1>4. found \subseteq DOMAIN meaning
  BY DEF TableInv, TableTyped
<1> QED  BY <1>1, <1>2, <1>3, <1>4

LEMMA ParentMeant ==
    ASSUME TableInv, NEW ids \in SUBSET DOMAIN meaning, NEW q \in Posts
    PROVE  /\ Parent(ids, q) \in Nat
           /\ Parent(ids, q) # Null =>
                 /\ Parent(ids, q) \in DOMAIN meaning
                 /\ \E r \in Posts : meaning[Parent(ids, q)] = Status(r)
<1>1. CASE Above[q] = <<>>
  BY <1>1 DEF Parent, Null
<1>2. CASE Above[q] # <<>>
  <2>1. Head(Above[q]) \in Posts
    BY <1>2, PagesAssumption
  <2>2. PICK r \in Posts : r = Head(Above[q])
    BY <2>1
  <2>3. Parent(ids, q) = StatusIn(ids, r)
    BY <1>2, <2>2 DEF Parent
  <2> QED  BY <2>2, <2>3, StatusMeant
<1> QED  BY <1>1, <1>2

LEMMA ViewsMeant ==
    ASSUME TableInv, NEW ids \in Views
    PROVE  ids \in SUBSET DOMAIN meaning
BY DEF TableInv, TableTyped, Views

LEMMA FetchBaseStep == ASSUME PagesInv, FetchBase PROVE PagesInv'
<1>1. /\ TableInv /\ Places /\ Single /\ Held /\ Settled /\ Named /\ Items /\ At("join")
      /\ req \in Requests /\ used \in 0..MaxDisruptions /\ Consulted /\ req.pc = "join"
  BY DEF PagesInv, FetchBase, Places, Consulted, At
<1>2. UNCHANGED rowVars /\ row' = row
  BY DEF FetchBase, rowVars
<1>3. TableInv' /\ Evolves /\ RowsMove
  BY <1>1, <1>2, SameTable, AddedMoves
<1> DEFINE base == Based({LocalId(c) : c \in Locals(req.resolved)})
           found == IF base = {} THEN "ready" ELSE "enrich"
<1>0. PICK parents \in [Posts -> Nat] :
         \/ used' = used /\ req' = [req EXCEPT !.fetch = found, !.base = base,
                                              !.parents = parents]
         \/ req' = [req EXCEPT !.fetch = "failed"] /\ Disrupt("db")
  <2>1. CASE \E ids \in Views : /\ used' = used
                               /\ req' = [req EXCEPT !.fetch = found, !.base = base,
                                            !.parents = [p \in Posts |-> Parent(ids, p)]]
    <3>1. PICK ids \in Views : /\ used' = used
                              /\ req' = [req EXCEPT !.fetch = found, !.base = base,
                                            !.parents = [p \in Posts |-> Parent(ids, p)]]
      BY <2>1
    <3>2. PICK parents : parents = [p \in Posts |-> Parent(ids, p)]
      OBVIOUS
    <3>3. parents \in [Posts -> Nat]
      BY <1>1, <3>1, <3>2, ViewsMeant, ParentMeant
    <3> QED  BY <3>1, <3>2, <3>3
  <2>2. CASE req' = [req EXCEPT !.fetch = "failed"] /\ Disrupt("db")
    <3>1. [p \in Posts |-> 0] \in [Posts -> Nat]
      OBVIOUS
    <3> QED  BY <2>2, <3>1
  <2> QED  BY <2>1, <2>2 DEF FetchBase
<1>4. \/ /\ used' = used
         /\ req' = [req EXCEPT !.fetch = found, !.base = base, !.parents = parents]
      \/ req' = [req EXCEPT !.fetch = "failed"] /\ Disrupt("db")
  BY <1>0
<1>5. base = visible \cap {LocalId(c) : c \in Locals(req.resolved)}
  BY DEF Based
<1>6. base \in SUBSET Nat /\ found \in {"ready", "enrich"}
  BY <1>1, <1>5 DEF TableInv, TableTyped
<1> HIDE DEF base
<1>7. /\ used' \in 0..MaxDisruptions /\ used \in Nat /\ used' \in Nat /\ used <= used'
      /\ Disrupt("db") => used' > 0
  BY <1>1, <1>4, Disrupted
<1>8. /\ req'.pc = "join" /\ req'.kind = req.kind /\ req'.list = req.list
      /\ req'.resolved = req.resolved /\ req'.ids = req.ids /\ req'.map = req.map
      /\ req'.asked = req.asked /\ req'.favs0 = req.favs0 /\ req'.items = req.items
      /\ req'.touched = req.touched
      /\ \/ used' = used /\ req'.fetch = found /\ req'.base = base
         \/ req'.fetch = "failed" /\ used' > 0
  <2>1. CASE /\ used' = used
             /\ req' = [req EXCEPT !.fetch = found, !.base = base, !.parents = parents]
    BY <1>1, <2>1 DEF Requests
  <2>2. CASE req' = [req EXCEPT !.fetch = "failed"] /\ Disrupt("db")
    BY <1>1, <1>7, <2>2 DEF Requests
  <2> QED  BY <1>4, <2>1, <2>2
<1>9. req' \in Requests
  <2>1. CASE req' = [req EXCEPT !.fetch = found, !.base = base, !.parents = parents]
    <3> HIDE DEF found
    <3> QED  BY <1>1, <1>6, <2>1 DEF Requests
  <2>2. CASE req' = [req EXCEPT !.fetch = "failed"]
    BY <1>1, <2>2 DEF Requests
  <2> QED  BY <1>4, <2>1, <2>2
<1>10. Places'
  BY <1>1, <1>7, <1>8, <1>9 DEF Places, ContextPcs
<1>11. /\ Single' /\ Settled' /\ Items' /\ PageMade' /\ Translation' /\ Walked' /\ Held'
  BY <1>1, <1>3, <1>8, JoinKept
<1>12. Looked'
  <2>1. SUFFICES ASSUME req'.fetch \in {"enrich", "ready"}
                 PROVE  /\ \A i \in DOMAIN req.list : IsLocal(req.list[i])' =>
                              \/ LocalId(req.list[i])' \in base
                              \/ LocalId(req.list[i])' \notin visible'
                        /\ req'.fetch = "ready" => base = {}
    BY <1>8 DEF Looked
  <2>2. req'.fetch = found
    BY <1>8, <2>1
  <2>3. ASSUME NEW i \in DOMAIN req.list, IsLocal(req.list[i])'
        PROVE  LocalId(req.list[i])' \in base \/ LocalId(req.list[i])' \notin visible'
    <3>1. IsLocal(req.list[i]) /\ LocalId(req.list[i])' = LocalId(req.list[i])
      BY <1>1, <1>3, <1>8, <2>3, LocalKept
    <3>2. req.list[i] \in Locals(req.resolved)
      BY <3>1 DEF Locals, IsLocal, ToSet
    <3>3. visible' = visible
      BY <1>2 DEF rowVars
    <3> QED  BY <1>5, <3>1, <3>2, <3>3
  <2> QED  BY <2>2, <2>3
<1>13. Named'
  BY <1>1, <1>3, <1>7, <1>8, NamedKept
<1> QED  BY <1>3, <1>10, <1>11, <1>12, <1>13 DEF PagesInv

LEMMA EnrichStep == ASSUME PagesInv, Enrich PROVE PagesInv'
<1>1. /\ TableInv /\ Places /\ Single /\ Held /\ Settled /\ Looked /\ Named /\ Items /\ At("join")
      /\ req \in Requests /\ used \in 0..MaxDisruptions /\ Consulted /\ req.pc = "join"
      /\ req.fetch = "enrich"
  BY DEF PagesInv, Enrich, Places, Consulted, At
<1>2. UNCHANGED rowVars
  BY DEF Enrich
<1>3. TableInv' /\ Evolves /\ RowsMove
  BY <1>1, <1>2, SameTable, AddedMoves
<1> DEFINE flags == Flags(req.base)
<1>4. \/ used' = used /\ req' = [req EXCEPT !.fetch = "ready", !.flags = flags]
      \/ req' = [req EXCEPT !.fetch = "failed"] /\ Disrupt("db")
  BY DEF Enrich
<1>5. flags = favs \cap req.base
  BY DEF Flags
<1>6. flags \in SUBSET Nat
  BY <1>1, <1>5 DEF Requests
<1> HIDE DEF flags
<1>7. /\ used' \in 0..MaxDisruptions /\ used \in Nat /\ used' \in Nat /\ used <= used'
      /\ Disrupt("db") => used' > 0
  BY <1>1, <1>4, Disrupted
<1>8. /\ req'.pc = "join" /\ req'.kind = req.kind /\ req'.list = req.list
      /\ req'.resolved = req.resolved /\ req'.ids = req.ids /\ req'.map = req.map
      /\ req'.asked = req.asked /\ req'.favs0 = req.favs0 /\ req'.items = req.items
      /\ req'.touched = req.touched /\ req'.base = req.base /\ req'.parents = req.parents
      /\ \/ used' = used /\ req'.fetch = "ready" /\ req'.flags = flags
         \/ req'.fetch = "failed" /\ used' > 0
  <2>1. CASE used' = used /\ req' = [req EXCEPT !.fetch = "ready", !.flags = flags]
    BY <1>1, <2>1 DEF Requests
  <2>2. CASE req' = [req EXCEPT !.fetch = "failed"] /\ Disrupt("db")
    BY <1>1, <1>7, <2>2 DEF Requests
  <2> QED  BY <1>4, <2>1, <2>2
<1>9. req' \in Requests
  <2>1. CASE req' = [req EXCEPT !.fetch = "ready", !.flags = flags]
    BY <1>1, <1>6, <2>1 DEF Requests
  <2>2. CASE req' = [req EXCEPT !.fetch = "failed"]
    BY <1>1, <2>2 DEF Requests
  <2> QED  BY <1>4, <2>1, <2>2
<1>10. Places'
  BY <1>1, <1>7, <1>8, <1>9 DEF Places, ContextPcs
<1>11. Single' /\ Settled' /\ Items' /\ PageMade' /\ Translation' /\ Walked' /\ Held'
  BY <1>1, <1>3, <1>8, JoinKept
<1>12. Looked'
  <2>1. SUFFICES ASSUME req'.fetch = "ready"
                 PROVE  /\ \A i \in DOMAIN req.list : IsLocal(req.list[i])' =>
                              \/ LocalId(req.list[i])' \in req.base
                              \/ LocalId(req.list[i])' \notin visible'
                        /\ req.favs0 \cap req.base \subseteq req'.flags
    BY <1>8 DEF Looked
  <2>2. ASSUME NEW i \in DOMAIN req.list, IsLocal(req.list[i])'
        PROVE  LocalId(req.list[i])' \in req.base \/ LocalId(req.list[i])' \notin visible'
    <3>1. IsLocal(req.list[i]) /\ LocalId(req.list[i])' = LocalId(req.list[i])
      BY <1>1, <1>3, <1>8, <2>2, LocalKept
    <3>2. LocalId(req.list[i]) \in req.base \/ LocalId(req.list[i]) \notin visible
      BY <1>1, <3>1 DEF Looked
    <3>3. visible' = visible
      BY <1>2 DEF rowVars
    <3> QED  BY <3>1, <3>2, <3>3
  <2>3. req.favs0 \cap req.base \subseteq req'.flags
    BY <1>1, <1>5, <1>8, <2>1 DEF Held
  <2> QED  BY <2>2, <2>3
<1>13. Named'
  BY <1>1, <1>3, <1>7, <1>8, NamedKept
<1> QED  BY <1>3, <1>10, <1>11, <1>12, <1>13 DEF PagesInv

LEMMA MapPostsStep == ASSUME PagesInv, MapPosts PROVE PagesInv'
<1>1. /\ TableInv /\ Places /\ Single /\ Held /\ Settled /\ Looked /\ Items /\ At("join")
      /\ req \in Requests /\ used \in 0..MaxDisruptions /\ Consulted /\ req.pc = "join"
  BY DEF PagesInv, MapPosts, Places, Consulted, At
<1> DEFINE S == {c \in Identified : Foreign(c)}
<1>2. PICK batch : /\ batch = Only(req.list, S)
                   /\ \/ Maps(batch) /\ Posted(Returning(batch, row'))
                      \/ Refused(batch) /\ Posted(Nothing)
  BY DEF MapPosts
<1>3. req.list \in Seq(Copies) /\ S \in SUBSET Identified /\ S \subseteq Remote
  BY <1>1, Sources DEF Requests
<1> HIDE DEF S
<1>4. /\ batch \in Seq(Copies) /\ \A k \in DOMAIN batch : batch[k] \in S
      /\ \A i \in DOMAIN req.list : req.list[i] \in S =>
            \E k \in DOMAIN batch : batch[k] = req.list[i]
  BY <1>2, <1>3, OnlyParts
<1>5. batch \in Seq(Remote)
  BY <1>3, <1>4
<1>6. PICK ids \in Tables :
         /\ TableInv' /\ Evolves /\ RowsMove /\ Posted(ids)
         /\ used' \in 0..MaxDisruptions /\ used <= used'
         /\ \A c \in DOMAIN ids : ids[c] \in DOMAIN meaning' /\ meaning'[ids[c]] = RowOf(c)
         /\ DOMAIN ids = ToSet(batch) \/ Repeats(batch) \/ used' > 0
  <2>1. CASE Maps(batch) /\ Posted(Returning(batch, row'))
    <3>1. PICK ids : ids = Returning(batch, row')
      OBVIOUS
    <3>2. /\ TableInv' /\ Evolves /\ RowsAdded /\ used' = used /\ ids \in Tables
          /\ DOMAIN ids = ToSet(batch)
          /\ \A c \in ToSet(batch) : ids[c] \in DOMAIN meaning' /\ meaning'[ids[c]] = RowOf(c)
      BY <1>1, <1>5, <2>1, <3>1, MapsTable
    <3>3. RowsMove /\ Posted(ids) /\ used' \in 0..MaxDisruptions /\ used <= used'
      BY <1>1, <2>1, <3>1, <3>2, AddedMoves, PagesAssumption
    <3> QED  BY <3>2, <3>3
  <2>2. CASE Refused(batch) /\ Posted(Nothing)
    BY <1>1, <2>2, RefusedTable, NothingTyped
  <2> QED  BY <1>2, <2>1, <2>2
<1>7. /\ req'.pc = "join" /\ req'.kind = req.kind /\ req'.list = req.list
      /\ req'.resolved = req.resolved /\ req'.ids = ids /\ req'.map = "ready"
      /\ req'.asked = req.asked /\ req'.favs0 = req.favs0 /\ req'.items = req.items
      /\ req'.touched = req.touched /\ req'.base = req.base /\ req'.parents = req.parents
      /\ req'.flags = req.flags
      /\ req'.fetch = req.fetch
  BY <1>1, <1>6 DEF Requests, Posted
<1>8. req' \in Requests
  BY <1>1, <1>6 DEF Requests, Posted
<1>9. Places'
  BY <1>1, <1>6, <1>7, <1>8, PagesAssumption DEF Places, ContextPcs
<1>10. Single' /\ Settled' /\ Items' /\ PageMade' /\ Translation' /\ Walked'
  BY <1>1, <1>6, <1>7, JoinKept
<1>11. Held'
  BY <1>1, <1>6, <1>7 DEF Held, Evolves
<1>12. Looked'
  BY <1>1, <1>6, <1>7, LookedKept
<1>13. Named'
  <2>1. SUFFICES ASSUME NEW i \in DOMAIN req.list, Foreign(req.list[i])'
                 PROVE  req.list[i] \in DOMAIN ids \/ Excused(req.list[i])'
    BY <1>7 DEF Named
  <2>2. Foreign(req.list[i])
    BY <1>1, <1>6, <1>7, <2>1, LocalKept
  <2>3. CASE req.list[i] \in Anonymous
    BY <1>7, <2>3 DEF Excused
  <2>4. CASE used' > 0
    BY <2>4 DEF Excused
  <2>5. CASE Repeats(batch)
    <3>1. Repeats(Only(req.list, Identified))
      BY <1>2, <1>3, <2>5, RepeatsMore
    <3>2. BatchRepeats'
      BY <1>7, <3>1 DEF BatchRepeats
    <3> QED  BY <3>2 DEF Excused
  <2>6. CASE req.list[i] \notin Anonymous /\ DOMAIN ids = ToSet(batch)
    <3>1. req.list[i] \in S
      <4>1. req.list[i] \in Copies /\ req.list[i] \notin Natives
        BY <1>3, <2>2 DEF Foreign, IsLocal
      <4> QED  BY <2>2, <2>6, <4>1 DEF S, Identified, Remote
    <3> QED  BY <1>4, <2>6, <3>1 DEF ToSet
  <2> QED  BY <1>6, <2>3, <2>4, <2>5, <2>6
<1> QED  BY <1>6, <1>9, <1>10, <1>11, <1>12, <1>13 DEF PagesInv

LEMMA EntryTyped ==
    ASSUME TableInv, Held, req \in Requests, NEW c \in Copies
    PROVE  EntryOf(c) \in Entries /\ EntryOf(c).id \in {Url} \cup DOMAIN meaning
<1>1. DOMAIN meaning \subseteq Nat
  BY DEF TableInv, TableTyped
<1>2. CASE IsLocal(c)
  <2>1. LocalId(c) \in DOMAIN meaning
    BY <1>2, LocalMeant
  <2>2. EntryOf(c) = [copy |-> c, post |-> PostOf[c], id |-> LocalId(c),
                      fav |-> LocalId(c) \in req.flags, parent |-> req.parents[PostOf[c]]]
    BY <1>2 DEF EntryOf, LocalEntry, Entry
  <2>3. (LocalId(c) \in req.flags) \in BOOLEAN
    OBVIOUS
  <2>4. req.parents[PostOf[c]] \in Nat
    BY Sources DEF Requests
  <2> QED  BY <1>1, <2>1, <2>2, <2>3, <2>4, Sources DEF Entries
<1>3. CASE ~IsLocal(c)
  <2>1. IdIfMapped(req.ids, c) \in {Url} \cup DOMAIN meaning
    BY DEF IdIfMapped, Held
  <2>2. EntryOf(c) = [copy |-> c, post |-> PostOf[c], id |-> IdIfMapped(req.ids, c),
                      fav |-> FALSE, parent |-> Url]
    BY <1>3 DEF EntryOf, RemoteEntry, Entry
  <2> QED  BY <1>1, <2>1, <2>2, Sources DEF Entries, Url
<1> QED  BY <1>2, <1>3

LEMMA EntryOfCopy == ASSUME NEW c PROVE EntryOf(c).copy = c /\ EntryOf(c).post = PostOf[c]
BY DEF EntryOf, LocalEntry, RemoteEntry, Entry

\* The first of a sequence, as many as a page holds.
LEMMA CutParts ==
    ASSUME NEW T, NEW s \in Seq(T)
    PROVE  /\ Cut(s) \in Seq(T) /\ Len(Cut(s)) <= Limit /\ Len(Cut(s)) <= Len(s)
           /\ Len(Cut(s)) < Limit => Len(Cut(s)) = Len(s)
           /\ \A k \in 1..Len(Cut(s)) : Cut(s)[k] = s[k]
<1>1. Limit \in Nat \ {0} /\ Len(s) \in Nat
  BY PagesAssumption
<1>2. PICK m : m = Min({Limit, Len(s)})
  OBVIOUS
<1>3. m \in {Limit, Len(s)} /\ m <= Limit /\ m <= Len(s)
  <2>1. \E x \in {Limit, Len(s)} : \A y \in {Limit, Len(s)} : x =< y
    BY <1>1
  <2> QED  BY <1>2, <2>1 DEF Min
<1>4. Cut(s) = SubSeq(s, 1, m)
  BY <1>2 DEF Cut
<1>5. m \in 0..Len(s)
  BY <1>1, <1>3
<1>6. PICK u : u = SubSeq(s, 1, m)
  OBVIOUS
<1>7. u \in Seq(T) /\ Len(u) = m /\ \A k \in 1..m : u[k] = s[k]
  BY <1>5, <1>6
<1> QED  BY <1>1, <1>3, <1>4, <1>6, <1>7

\* What is served, in the order of the ranking.
Picked(kept) ==
    /\ kept \in Seq(Copies) /\ \A k \in DOMAIN kept : Served(kept[k])
    /\ \E from \in [DOMAIN kept -> DOMAIN req.list] :
          /\ \A k \in DOMAIN kept : kept[k] = req.list[from[k]]
          /\ \A k, l \in DOMAIN kept : k < l => from[k] < from[l]

LEMMA ServedParts ==
    ASSUME req.list \in Seq(Copies), NEW kept, kept = Only(req.list, {c \in Copies : Served(c)})
    PROVE  /\ Picked(kept)
           /\ \A i \in DOMAIN req.list : Served(req.list[i]) =>
                 \E k \in DOMAIN kept : kept[k] = req.list[i]
<1> DEFINE S == {c \in Copies : Served(c)}
           at == {i \in DOMAIN req.list : req.list[i] \in S}
<1>1. PICK list \in Seq(Copies) : list = req.list
  OBVIOUS
<1>2. kept = Sublist(list, at) /\ at \in SUBSET DOMAIN list
  BY <1>1 DEF Only
<1>3. \A i \in at : list[i] \in S
  BY <1>1
<1>4. \A i \in DOMAIN list : list[i] \in S => i \in at
  BY <1>1
<1> HIDE DEF at
<1>5. kept \in Seq(Copies)
  BY <1>2, SublistParts
<1>6. PICK from \in [DOMAIN kept -> at] :
         /\ \A k \in DOMAIN kept : kept[k] = list[from[k]]
         /\ \A i \in at : \E k \in DOMAIN kept : from[k] = i
         /\ \A k, l \in DOMAIN kept : k < l <=> from[k] < from[l]
  <2>1. \E from \in [DOMAIN Sublist(list, at) -> at] :
           /\ \A k \in DOMAIN Sublist(list, at) : Sublist(list, at)[k] = list[from[k]]
           /\ \A i \in at : \E k \in DOMAIN Sublist(list, at) : from[k] = i
           /\ \A k, l \in DOMAIN Sublist(list, at) : k < l <=> from[k] < from[l]
    BY <1>2, SublistParts
  <2> QED  BY <1>2, <2>1
<1>7. \A k \in DOMAIN kept : kept[k] \in S
  BY <1>3, <1>6
<1>8. from \in [DOMAIN kept -> DOMAIN list]
  BY <1>2, <1>6
<1>9. Picked(kept)
  BY <1>1, <1>5, <1>6, <1>7, <1>8 DEF Picked
<1>10. ASSUME NEW i \in DOMAIN list, Served(list[i])
       PROVE  \E k \in DOMAIN kept : kept[k] = list[i]
  <2>1. list[i] \in S
    BY <1>10
  <2> HIDE DEF S
  <2>2. PICK k \in DOMAIN kept : from[k] = i
    BY <1>4, <1>6, <2>1
  <2>3. kept[k] = list[i]
    BY <1>6, <2>2
  <2> QED  BY <2>3
<1> QED  BY <1>1, <1>9, <1>10

LEMMA ServeStep == ASSUME PagesInv, Serve PROVE PagesInv'
<1>1. /\ TableInv /\ Places /\ Single /\ Held /\ Settled /\ Looked /\ Named /\ Items /\ At("join")
      /\ req \in Requests /\ used \in 0..MaxDisruptions /\ Consulted /\ req.pc = "join"
      /\ req.fetch \in {"ready", "failed"} /\ req.map = "ready"
  BY DEF PagesInv, Serve, Places, Consulted, At
<1>2. UNCHANGED rowVars /\ used' = used
  BY DEF Serve
<1>3. TableInv' /\ Evolves /\ RowsMove
  BY <1>1, <1>2, SameTable, AddedMoves
<1>4. /\ req.kind # "context" /\ req.items = <<>> /\ req.list \in Seq(Copies)
      /\ req.fetch = "failed" => used > 0
  BY <1>1 DEF Places, Requests
<1> DEFINE all == Only(req.list, {c \in Copies : Served(c)})
           entries(kept) == [k \in DOMAIN kept |-> EntryOf(kept[k])]
<1>5. PICK kept, page, next :
         /\ kept = IF req.fetch = "failed" THEN <<>> ELSE all
         /\ page = Cut(entries(kept)) /\ Show(page, next)
         /\ next = IF page = <<>> THEN End ELSE page[Len(page)].id
  BY DEF Serve, Ordered
<1>6. /\ Picked(kept)
      /\ req.fetch # "failed" => \A i \in DOMAIN req.list : Served(req.list[i]) =>
            \E k \in DOMAIN kept : kept[k] = req.list[i]
  <2>1. CASE req.fetch = "failed"
    <3>1. kept = <<>>
      BY <1>5, <2>1
    <3>2. kept \in Seq(Copies) /\ DOMAIN kept = {}
      BY <3>1
    <3>3. [k \in {} |-> 1] \in [DOMAIN kept -> DOMAIN req.list]
      BY <3>2
    <3> QED  BY <2>1, <3>2, <3>3 DEF Picked
  <2>2. CASE req.fetch # "failed"
    <3> HIDE DEF entries
    <3>1. kept = all
      BY <1>5, <2>2
    <3> QED  BY <1>4, <3>1, ServedParts
  <2> QED  BY <2>1, <2>2
<1> HIDE DEF all
<1>7. /\ entries(kept) \in Seq(Entries) /\ Len(entries(kept)) = Len(kept) /\ Len(kept) \in Nat
      /\ DOMAIN kept = 1..Len(kept)
      /\ \A k \in DOMAIN kept : /\ entries(kept)[k] = EntryOf(kept[k])
                                /\ kept[k] \in Copies /\ Served(kept[k])
                                /\ entries(kept)[k].copy = kept[k]
                                /\ entries(kept)[k].id \in {Url} \cup DOMAIN meaning
  <2>1. kept \in Seq(Copies) /\ \A k \in DOMAIN kept : kept[k] \in Copies /\ Served(kept[k])
    BY <1>6 DEF Picked
  <2>2. \A k \in DOMAIN kept : /\ EntryOf(kept[k]) \in Entries /\ EntryOf(kept[k]).copy = kept[k]
                               /\ EntryOf(kept[k]).id \in {Url} \cup DOMAIN meaning
    BY <1>1, <2>1, EntryTyped, EntryOfCopy
  <2> QED  BY <2>1, <2>2
<1> HIDE DEF entries
<1>8. /\ page \in Seq(Entries) /\ Len(page) <= Limit /\ Len(page) <= Len(kept)
      /\ Len(page) < Limit => Len(page) = Len(kept)
      /\ \A k \in 1..Len(page) : page[k] = entries(kept)[k]
  BY <1>5, <1>7, CutParts
<1>9. /\ DOMAIN page = 1..Len(page) /\ DOMAIN page \subseteq DOMAIN kept /\ Len(page) \in Nat
      /\ Len(page) < Limit => DOMAIN page = DOMAIN kept
      /\ \A k \in DOMAIN page :
            /\ page[k] = EntryOf(kept[k]) /\ page[k].copy = kept[k] /\ Served(kept[k])
            /\ page[k].id \in {Url} \cup DOMAIN meaning
  BY <1>7, <1>8
<1>10. next \in {End, Url} \cup DOMAIN meaning
  <2>1. CASE page = <<>>
    BY <1>5, <2>1
  <2>2. CASE page # <<>>
    <3>1. Len(page) \in DOMAIN page
      BY <1>8, <1>9, <2>2
    <3> QED  BY <1>5, <1>9, <2>2, <3>1
  <2> QED  BY <2>1, <2>2
<1>11. /\ req'.pc = "shown" /\ req'.page = page /\ req'.next = next /\ req'.kind = req.kind
       /\ req'.list = req.list /\ req'.max = req.max /\ req'.resolved = req.resolved
       /\ req'.ids = req.ids /\ req'.map = "ready" /\ req'.fetch = req.fetch
       /\ req'.base = req.base /\ req'.parents = req.parents /\ req'.flags = req.flags /\ req'.asked = req.asked
       /\ req'.favs0 = req.favs0 /\ req'.items = req.items /\ req'.touched = req.touched
  BY <1>1, <1>5 DEF Requests, Show
<1>12. req' \in Requests
  <2>1. next \in Nat \cup {End}
    BY <1>1, <1>10 DEF Url, TableInv, TableTyped
  <2>2. req' = [req EXCEPT !.pc = "shown", !.page = page, !.next = next]
    BY <1>5 DEF Show
  <2>3. req \in Requests /\ page \in Seq(Entries) /\ "shown" \in Pcs
    BY <1>1, <1>8 DEF Pcs
  <2> QED  BY <2>1, <2>2, <2>3 DEF Requests
<1>13. Places'
  BY <1>1, <1>2, <1>4, <1>11, <1>12 DEF Places, ContextPcs
<1>14. Single' /\ Items' /\ Held'
  BY <1>1, <1>3, <1>11, HeldKept, ItemsKept DEF Single
<1>15. Settled' /\ Looked' /\ Named'
  <2>1. used \in Nat /\ used' \in Nat /\ used <= used'
    BY <1>1, <1>2, PagesAssumption
  <2> QED  BY <1>1, <1>3, <1>11, <2>1, SettledKept, LookedKept, NamedKept
<1>16. PageMade'
  <2>1. \A c : EntryOf(c)' = EntryOf(c) /\ Served(c)' = Served(c)
    BY <1>1, <1>3, <1>11, EntryKept
  <2>2. InOrder'
    <3>1. PICK from \in [DOMAIN kept -> DOMAIN req.list] :
             /\ \A k \in DOMAIN kept : kept[k] = req.list[from[k]]
             /\ \A k, l \in DOMAIN kept : k < l => from[k] < from[l]
      BY <1>6 DEF Picked
    <3>2. PICK at : at = [k \in DOMAIN page |-> from[k]]
      OBVIOUS
    <3>3. /\ at \in [DOMAIN page -> DOMAIN req.list] /\ DOMAIN at = DOMAIN page
          /\ \A k \in DOMAIN at : req.list[at[k]] = page[k].copy
          /\ \A k, l \in DOMAIN at : k < l => at[k] < at[l]
      BY <1>9, <3>1, <3>2
    <3> QED  BY <1>11, <3>3 DEF InOrder
  <2>3. OfServed'
    BY <1>9, <1>11, <2>1 DEF OfServed
  <2>4. used' = 0 /\ Len(page) < Limit => AllServed'
    <3>1. SUFFICES ASSUME used = 0, Len(page) < Limit,
                          NEW i \in DOMAIN req.list, Served(req.list[i])
                   PROVE  \E k \in DOMAIN page : page[k].copy = req.list[i]
      BY <1>2, <1>11, <2>1 DEF AllServed
    <3>2. req.fetch # "failed"
      BY <1>4, <3>1
    <3>3. PICK k \in DOMAIN kept : kept[k] = req.list[i]
      BY <1>6, <3>1, <3>2
    <3> QED  BY <1>9, <3>1, <3>3
  <2>5. (page # <<>> \/ used' = 0) => req.fetch = "ready"
    <3>1. ASSUME req.fetch = "failed" PROVE page = <<>> /\ used' # 0
      <4>1. kept = <<>>
        BY <1>5, <3>1
      <4>2. page = <<>>
        BY <1>7, <1>8, <4>1
      <4> QED  BY <1>2, <1>4, <3>1, <4>2
    <3> QED  BY <1>1, <3>1
  <2>6. DOMAIN meaning \subseteq DOMAIN meaning'
    BY <1>3 DEF Evolves
  <2> QED  BY <1>8, <1>10, <1>11, <2>2, <2>3, <2>4, <2>5, <2>6 DEF PageMade
<1>17. Translation' /\ Walked'
  BY <1>4, <1>11 DEF Translation, Walked, At
<1> QED  BY <1>3, <1>13, <1>14, <1>15, <1>16, <1>17 DEF PagesInv

----------------------------------------------------------------------------
\* A context.
\* What Mastodon's thread of a post is made of.
Threaded(items) ==
    /\ items \in Seq(Entries)
    /\ \A k \in DOMAIN items :
          LET e == items[k]
          IN /\ e.id \in DOMAIN meaning /\ meaning[e.id] = Status(e.post)
             /\ e.parent # Null => /\ e.parent \in DOMAIN meaning
                                   /\ \E p \in Posts : meaning[e.parent] = Status(p)

LEMMA ThreadParts ==
    ASSUME TableInv, NEW ids \in SUBSET DOMAIN meaning, NEW p \in Posts
    PROVE  Threaded(Thread(ids, p))
<1> DEFINE S == {q \in Posts : StatusIn(ids, q) # Null}
           around == Reverse(Above[p]) \o Replies(p)
           parent(q) == Parent(ids, q)
<1>1. Above[p] \in Seq(Posts)
  BY PagesAssumption
<1>2. Reverse(Above[p]) \in Seq(Posts)
  BY <1>1 DEF Reverse
<1>3. Replies(p) \in Seq(Posts)
  <2> DEFINE R == {q \in Posts : p \in ToSet(Above[q])}
  <2>1. IsFiniteSet(R) /\ R \subseteq Posts
    BY Sources, FS_Subset
  <2> HIDE DEF R
  <2>2. SetToSeq(R) \in Seq(R)
    BY <2>1, Listed
  <2> QED  BY <2>1, <2>2 DEF Replies, R
<1>4. around \in Seq(Posts)
  BY <1>2, <1>3
<1> HIDE DEF around, S
<1>5. PICK posts : /\ posts = Only(around, S) /\ posts \in Seq(Posts)
                   /\ \A k \in DOMAIN posts : posts[k] \in S
  BY <1>4, OnlyParts
<1>6. Thread(ids, p) = [k \in DOMAIN posts |->
          [copy |-> "none", post |-> posts[k], id |-> StatusIn(ids, posts[k]), fav |-> FALSE,
           parent |-> parent(posts[k])]]
  BY <1>5 DEF Thread, around, S
<1>7. \A q \in S : /\ q \in Posts /\ StatusIn(ids, q) \in Nat
                   /\ StatusIn(ids, q) \in DOMAIN meaning /\ meaning[StatusIn(ids, q)] = Status(q)
  BY StatusMeant DEF S
<1>8. \A q \in Posts :
         /\ parent(q) \in Nat
         /\ parent(q) # Null => /\ parent(q) \in DOMAIN meaning
                                /\ \E r \in Posts : meaning[parent(q)] = Status(r)
  BY ParentMeant
<1> HIDE DEF parent
<1>9. PICK items : items = Thread(ids, p)
  OBVIOUS
<1>10. DOMAIN items = DOMAIN posts /\ DOMAIN posts = 1..Len(posts) /\ Len(posts) \in Nat
  BY <1>5, <1>6, <1>9
<1>11. ASSUME NEW k \in DOMAIN items
       PROVE  /\ items[k] \in Entries
              /\ items[k].id \in DOMAIN meaning /\ meaning[items[k].id] = Status(items[k].post)
              /\ items[k].parent # Null =>
                    /\ items[k].parent \in DOMAIN meaning
                    /\ \E r \in Posts : meaning[items[k].parent] = Status(r)
  <2>1. PICK q : q = posts[k] /\ q \in S /\ q \in Posts
    BY <1>5, <1>7, <1>10
  <2>2. items[k] = [copy |-> "none", post |-> q, id |-> StatusIn(ids, q), fav |-> FALSE,
                    parent |-> parent(q)]
    BY <1>6, <1>9, <1>10, <2>1
  <2>3. StatusIn(ids, q) \in Nat /\ parent(q) \in Nat
    BY <1>7, <1>8, <2>1
  <2>4. items[k] \in Entries
    BY <2>1, <2>2, <2>3 DEF Entries
  <2> QED  BY <1>7, <1>8, <2>1, <2>2, <2>4
<1>12. items \in Seq(Entries)
  <2>1. items = [k \in 1..Len(posts) |-> items[k]]
    BY <1>6, <1>9, <1>10
  <2> QED  BY <1>10, <1>11, <2>1
<1> QED  BY <1>9, <1>11, <1>12 DEF Threaded

\* What a step of a context keeps.
LEMMA ContextKept ==
    ASSUME Held, Evolves, req'.kind = "context", req'.pc # "join",
           req'.resolved = req.resolved, req'.ids = req.ids, req'.favs0 = req.favs0
    PROVE  Single' /\ Held' /\ Settled' /\ Looked' /\ Named' /\ PageMade'
BY HeldKept, QuietContext

LEMMA ForwardStep == ASSUME PagesInv, Forward PROVE PagesInv'
<1>1. /\ TableInv /\ Places /\ Held /\ At("forward") /\ req \in Requests
      /\ used \in 0..MaxDisruptions /\ req.pc = "forward"
  BY DEF PagesInv, Forward, Places, At
<1>2. UNCHANGED rowVars
  BY DEF Forward
<1>3. TableInv' /\ Evolves
  BY <1>1, <1>2, SameTable
<1>4. /\ req.kind = "context" /\ req.items = <<>> /\ req.page = <<>> /\ req.next = End
      /\ req.asked \in Asked /\ req.list \in Seq(Remote)
      /\ req.cursor \in DOMAIN ReplyPages[req.asked]
      /\ req.fetch = "failed" => used > 0
  BY <1>1 DEF Places, ContextPcs
<1>5. PICK pc \in {"translate", "clear", "ancestors", "shown"}, items \in Seq(Entries) :
         /\ Threaded(items) /\ (pc # "translate" => items = <<>>)
         /\ req' = [req EXCEPT !.pc = pc, !.items = items]
         /\ UNCHANGED used \/ Disrupt("forward")
  <2>1. <<>> \in Seq(Entries) /\ Threaded(<<>>)
    <3>1. <<>> \in Seq(Entries) /\ DOMAIN <<>> = {}
      OBVIOUS
    <3> QED  BY <3>1 DEF Threaded
  <2>2. ASSUME NEW ids \in Views, req.local \in ids, UNCHANGED used,
               req' = [req EXCEPT !.pc = "translate",
                                  !.items = Thread(ids, meaning[req.local].post)]
        PROVE  \E pc \in {"translate", "clear", "ancestors", "shown"}, items \in Seq(Entries) :
                  /\ Threaded(items) /\ (pc # "translate" => items = <<>>)
                  /\ req' = [req EXCEPT !.pc = pc, !.items = items]
                  /\ UNCHANGED used \/ Disrupt("forward")
    <3>1. ids \in SUBSET DOMAIN meaning
      BY <1>1, ViewsMeant
    <3>2. meaning[req.local].post \in Posts
      <4>1. meaning[req.local] \in Meanings
        BY <1>1, <2>2, <3>1 DEF TableInv, TableTyped
      <4> QED  BY <4>1, MeaningsDiffer, Sources DEF Meanings
    <3>3. PICK items : items = Thread(ids, meaning[req.local].post) /\ Threaded(items)
      BY <1>1, <3>1, <3>2, ThreadParts
    <3> QED  BY <2>2, <3>3 DEF Threaded
  <2>3. CASE /\ UNCHANGED used /\ req' = [req EXCEPT !.pc = "clear"]
    <3>1. req' = [req EXCEPT !.pc = "clear", !.items = <<>>]
      BY <1>1, <1>4, <2>3 DEF Requests
    <3> QED  BY <2>1, <2>3, <3>1
  <2>4. CASE req' = [req EXCEPT !.pc = "ancestors"] /\ Disrupt("forward")
    <3>1. req' = [req EXCEPT !.pc = "ancestors", !.items = <<>>]
      BY <1>1, <1>4, <2>4 DEF Requests
    <3> QED  BY <2>1, <2>4, <3>1
  <2>5. CASE Show(<<>>, End) /\ Disrupt("forward")
    <3>1. req' = [req EXCEPT !.pc = "shown", !.items = <<>>]
      BY <1>1, <1>4, <2>5 DEF Requests, Show
    <3> QED  BY <2>1, <2>5, <3>1
  <2> QED  BY <2>2, <2>3, <2>4, <2>5 DEF Forward
<1>6. used' \in 0..MaxDisruptions /\ used \in Nat /\ used <= used'
  BY <1>1, <1>5, Disrupted
<1>7. /\ req'.pc = pc /\ req'.items = items /\ req'.kind = "context" /\ req'.page = <<>>
      /\ req'.next = End /\ req'.asked = req.asked /\ req'.list = req.list
      /\ req'.cursor = req.cursor /\ req'.fetch = req.fetch /\ req'.resolved = req.resolved
      /\ req'.ids = req.ids /\ req'.favs0 = req.favs0
  BY <1>1, <1>4, <1>5 DEF Requests
<1>8. req' \in Requests
  <2>1. pc \in Pcs /\ items \in Seq(Entries)
    BY <1>5 DEF Pcs
  <2>2. req' = [req EXCEPT !.pc = pc, !.items = items] /\ req \in Requests
    BY <1>1, <1>5
  <2> QED  BY <2>1, <2>2 DEF Requests
<1>9. Places'
  BY <1>4, <1>5, <1>6, <1>7, <1>8 DEF Places, ContextPcs
<1>10. Single' /\ Held' /\ Settled' /\ Looked' /\ Named' /\ PageMade'
  BY <1>1, <1>3, <1>5, <1>7, ContextKept
<1>11. Items'
  <2>1. meaning' = meaning
    BY <1>2 DEF rowVars
  <2> QED  BY <1>5, <1>7, <2>1 DEF Items, Threaded
<1>12. Translation' /\ Walked'
  <2>1. Len(<<>>) <= Len(items) /\ DOMAIN <<>> = {}
    BY <1>5
  <2> QED  BY <1>7, <2>1 DEF Translation, Walked, At
<1> QED  BY <1>3, <1>9, <1>10, <1>11, <1>12 DEF PagesInv

\* Translating does not depend on the request.
LEMMA BackSame ==
    ASSUME UNCHANGED row, NEW id
    PROVE  Back(id)' = Back(id)
BY DEF Back, Mapped

LEMMA TranslateStep == ASSUME PagesInv, Translate PROVE PagesInv'
<1>1. /\ TableInv /\ Places /\ Held /\ Items /\ Translation /\ At("translate")
      /\ req \in Requests /\ used \in 0..MaxDisruptions /\ req.pc = "translate"
      /\ Len(req.page) < Len(req.items)
  BY DEF PagesInv, Translate, Places, At
<1>2. UNCHANGED rowVars /\ row' = row /\ meaning' = meaning
  BY DEF Translate, rowVars
<1>3. TableInv' /\ Evolves
  BY <1>1, <1>2, SameTable
<1>4. /\ req.kind = "context" /\ req.next = End
      /\ req.asked \in Asked /\ req.list \in Seq(Remote)
      /\ req.cursor \in DOMAIN ReplyPages[req.asked]
      /\ req.fetch = "failed" => used > 0
  BY <1>1 DEF Places, ContextPcs
<1>5. PICK n : n = Len(req.page) + 1
  OBVIOUS
<1>6. /\ req.page \in Seq(Entries) /\ req.items \in Seq(Entries)
      /\ n \in DOMAIN req.items /\ n = Len(req.page) + 1 /\ n \in Nat
  BY <1>1, <1>5 DEF Requests
<1>7. PICK e, item : e = Translated(item) /\ item = req.items[n]
  OBVIOUS
<1>8. /\ item \in Entries /\ item.id \in DOMAIN meaning
      /\ item.parent # Null => item.parent \in DOMAIN meaning
  BY <1>1, <1>6, <1>7 DEF Items
<1>9. /\ e \in Entries /\ e.post = item.post /\ e.id = Back(item.id) /\ e.id # Url
      /\ item.parent # Null => e.parent = Back(item.parent)
  <2>1. DOMAIN meaning \subseteq Nat \ {0}
    BY <1>1 DEF TableInv, TableTyped
  <2>2. Back(item.id) \in Nat \ {0}
    BY <1>1, <1>8, <2>1, BackGiven
  <2>3. item.parent # Null => Back(item.parent) \in Nat
    BY <1>1, <1>8, <2>1, BackGiven
  <2>4. PICK id, parent : /\ id = Back(item.id)
                          /\ parent = IF item.parent = Null THEN Null ELSE Back(item.parent)
    OBVIOUS
  <2>5. e = [item EXCEPT !.id = id, !.parent = parent]
    BY <1>7, <2>4 DEF Translated
  <2>6. id \in Nat \ {0} /\ parent \in Nat
    BY <2>2, <2>3, <2>4 DEF Null
  <2> QED  BY <1>8, <2>4, <2>5, <2>6 DEF Entries, Url
<1>10. CASE req' = [req EXCEPT !.page = Append(@, Translated(req.items[Len(@) + 1]))] /\ UNCHANGED used
  <2>1. req' = [req EXCEPT !.page = Append(req.page, e)]
    BY <1>1, <1>5, <1>7, <1>10
  <2>2. PICK page : page = Append(req.page, e)
    OBVIOUS
  <2>3. /\ page \in Seq(Entries) /\ Len(page) = n /\ DOMAIN page = 1..n /\ page[n] = e
        /\ \A k \in 1..n : k = n \/ (k \in DOMAIN req.page /\ page[k] = req.page[k])
    BY <1>6, <1>9, <2>2
  <2>4. /\ req'.pc = "translate" /\ req'.items = req.items /\ req'.kind = "context"
        /\ req'.page = page /\ req'.next = End /\ req'.asked = req.asked /\ req'.list = req.list
        /\ req'.cursor = req.cursor /\ req'.fetch = req.fetch /\ req'.resolved = req.resolved
        /\ req'.ids = req.ids /\ req'.favs0 = req.favs0 /\ req'.touched = req.touched
    BY <1>1, <1>4, <2>1, <2>2 DEF Requests
  <2>5. req' \in Requests
    BY <1>1, <2>1, <2>2, <2>3 DEF Requests
  <2>6. Places'
    BY <1>1, <1>4, <1>10, <2>4, <2>5 DEF Places, ContextPcs
  <2>7. Single' /\ Held' /\ Settled' /\ Looked' /\ Named' /\ PageMade'
    BY <1>1, <1>3, <2>4, ContextKept
  <2>8. Items' /\ Walked'
    BY <1>1, <1>3, <2>4, ItemsKept DEF Walked
  <2>9. Translation'
    <3>1. ASSUME NEW k \in 1..n
          PROVE  LET x == page[k]  y == req.items[k]
                 IN /\ x.post = y.post /\ x.id # Url
                    /\ x.post \notin req.touched => x.id = Back(y.id)
                    /\ y.parent # Null /\ meaning[y.parent].post \notin req.touched
                       => x.parent = Back(y.parent)
      <4>1. CASE k = n
        <5>1. page[k] = e /\ req.items[k] = item
          BY <1>7, <2>3, <4>1
        <5> QED  BY <1>9, <5>1
      <4>2. CASE k # n
        <5>1. k \in DOMAIN req.page /\ page[k] = req.page[k]
          BY <2>3, <4>2
        <5> QED  BY <1>1, <5>1 DEF Translation
      <4> QED  BY <4>1, <4>2
    <3>2. \A id : Back(id)' = Back(id)
      BY <1>2, BackSame
    <3>3. n <= Len(req.items)
      BY <1>1, <1>5, <1>6
    <3> QED  BY <1>2, <2>3, <2>4, <3>1, <3>2, <3>3 DEF Translation
  <2> QED  BY <1>3, <2>6, <2>7, <2>8, <2>9 DEF PagesInv
<1>11. CASE GiveUp /\ Disrupt("db")
  <2>1. used' \in 0..MaxDisruptions /\ used \in Nat /\ used <= used'
    BY <1>1, <1>11, Disrupted
  <2>2. req' = [req EXCEPT !.pc = "ancestors", !.page = <<>>] /\ <<>> \in Seq(Entries)
    BY <1>11 DEF GiveUp
  <2>3. /\ req'.pc = "ancestors" /\ req'.items = req.items /\ req'.kind = "context"
        /\ req'.page = <<>> /\ req'.next = End /\ req'.asked = req.asked /\ req'.list = req.list
        /\ req'.cursor = req.cursor /\ req'.fetch = req.fetch /\ req'.resolved = req.resolved
        /\ req'.ids = req.ids /\ req'.favs0 = req.favs0
    BY <1>1, <1>4, <2>2 DEF Requests
  <2>4. req' \in Requests
    BY <1>1, <2>2 DEF Requests, Pcs
  <2>5. Places'
    BY <1>1, <1>4, <2>1, <2>3, <2>4 DEF Places, ContextPcs
  <2>6. Single' /\ Held' /\ Settled' /\ Looked' /\ Named' /\ PageMade'
    BY <1>1, <1>3, <2>3, ContextKept
  <2>7. Items' /\ Walked' /\ Translation'
    BY <1>1, <1>3, <2>3, ItemsKept DEF Walked, Translation, At
  <2> QED  BY <1>3, <2>5, <2>6, <2>7 DEF PagesInv
<1> QED  BY <1>10, <1>11 DEF Translate

LEMMA AnswerStep == ASSUME PagesInv, Answer PROVE PagesInv'
<1>1. /\ TableInv /\ Places /\ Held /\ Items /\ Translation /\ At("translate")
      /\ req \in Requests /\ used \in 0..MaxDisruptions /\ req.pc = "translate"
      /\ Len(req.page) = Len(req.items)
  BY DEF PagesInv, Answer, Places, At
<1>2. UNCHANGED rowVars /\ used' = used
  BY DEF Answer
<1>3. TableInv' /\ Evolves /\ RowsMove
  BY <1>1, <1>2, SameTable, AddedMoves
<1>4. /\ req.kind = "context" /\ req.next = End
      /\ req.asked \in Asked /\ req.list \in Seq(Remote)
      /\ req.cursor \in DOMAIN ReplyPages[req.asked]
      /\ req.fetch = "failed" => used > 0
  BY <1>1 DEF Places, ContextPcs
<1>5. req' = [req EXCEPT !.pc = "shown", !.page = req.page, !.next = End]
  BY DEF Answer, Show
<1>6. /\ req'.pc = "shown" /\ req'.items = req.items /\ req'.kind = "context"
      /\ req'.page = req.page /\ req'.next = End /\ req'.asked = req.asked
      /\ req'.list = req.list /\ req'.cursor = req.cursor /\ req'.fetch = req.fetch
      /\ req'.resolved = req.resolved /\ req'.ids = req.ids /\ req'.favs0 = req.favs0
      /\ req'.touched = req.touched
  BY <1>1, <1>4, <1>5 DEF Requests
<1>7. req' \in Requests
  BY <1>1, <1>5 DEF Requests, Pcs
<1>8. Places'
  BY <1>1, <1>2, <1>4, <1>6, <1>7 DEF Places, ContextPcs
<1>9. Single' /\ Held' /\ Settled' /\ Looked' /\ Named' /\ PageMade'
  BY <1>1, <1>3, <1>6, ContextKept
<1>10. Items'
  BY <1>1, <1>3, <1>6, ItemsKept
<1>11. Translation'
  <2>1. \A id : Back(id)' = Back(id)
    BY <1>2, BackSame DEF rowVars
  <2>2. meaning' = meaning
    BY <1>2 DEF rowVars
  <2> QED  BY <1>1, <1>6, <2>1, <2>2 DEF Translation
<1>12. Walked'
  <2>1. req.items = <<>> => DOMAIN req.page = {}
    BY <1>1 DEF Requests
  <2> QED  BY <1>6, <2>1 DEF Walked
<1> QED  BY <1>3, <1>8, <1>9, <1>10, <1>11, <1>12 DEF PagesInv

LEMMA ClearTable ==
    ASSUME TableInv, Places, Clear
    PROVE  TableInv' /\ Evolves /\ IdsKept /\ used' \in 0..MaxDisruptions /\ used <= used'
<1>1. req.asked \in Remote /\ used \in 0..MaxDisruptions
  BY PagesAssumption DEF Clear, At, Places, ContextPcs
<1>2. CASE ClearRow(req.asked, req.rowId) /\ UNCHANGED used
  <2>1. UNCHANGED <<meaning, visible, favs, changes>>
    BY DEF Clear
  <2>2. TableInv' /\ Evolves /\ IdsKept
    BY <1>1, <1>2, <2>1, ClearRows
  <2> QED  BY <1>1, <1>2, <2>2, PagesAssumption
<1>3. CASE UNCHANGED row /\ Disrupt("db")
  <2>1. UNCHANGED rowVars
    BY <1>3 DEF Clear, rowVars
  <2>2. TableInv' /\ Evolves /\ IdsKept
    BY <2>1, SameTable
  <2> QED  BY <1>1, <1>3, <2>2, Disrupted
<1> QED  BY <1>2, <1>3 DEF Clear

LEMMA ClearStep == ASSUME PagesInv, Clear PROVE PagesInv'
<1>1. /\ TableInv /\ Places /\ Held /\ Items /\ At("clear")
      /\ req \in Requests /\ used \in 0..MaxDisruptions /\ req.pc = "clear"
      /\ req' = [req EXCEPT !.pc = "ancestors"]
  BY DEF PagesInv, Clear, Places, At
<1>2. TableInv' /\ Evolves /\ used' \in 0..MaxDisruptions /\ used <= used'
  BY <1>1, ClearTable
<1>3. /\ req.kind = "context" /\ req.next = End /\ req.items = <<>> /\ req.page = <<>>
      /\ req.asked \in Asked /\ req.list \in Seq(Remote)
      /\ req.cursor \in DOMAIN ReplyPages[req.asked]
      /\ req.fetch = "failed" => used > 0
  BY <1>1 DEF Places, ContextPcs
<1>4. /\ req'.pc = "ancestors" /\ req'.items = <<>> /\ req'.kind = "context"
      /\ req'.page = <<>> /\ req'.next = End /\ req'.asked = req.asked
      /\ req'.list = req.list /\ req'.cursor = req.cursor /\ req'.fetch = req.fetch
      /\ req'.resolved = req.resolved /\ req'.ids = req.ids /\ req'.favs0 = req.favs0
  BY <1>1, <1>3 DEF Requests
<1>5. req' \in Requests
  BY <1>1 DEF Requests, Pcs
<1>6. Places'
  BY <1>1, <1>2, <1>3, <1>4, <1>5, PagesAssumption DEF Places, ContextPcs
<1>7. Single' /\ Held' /\ Settled' /\ Looked' /\ Named' /\ PageMade'
  BY <1>1, <1>2, <1>4, ContextKept
<1>8. Items' /\ Walked' /\ Translation'
  BY <1>4 DEF Items, Walked, Translation, At
<1> QED  BY <1>2, <1>6, <1>7, <1>8 DEF PagesInv

\* What mapping a batch of the posts of a list leaves: ids of theirs, or a reason.
Given(list, ids) ==
    /\ ids \in Tables
    /\ \A c \in DOMAIN ids : ids[c] \in DOMAIN meaning'
    /\ \A k \in DOMAIN list : \/ list[k] \in DOMAIN ids \/ list[k] \in Anonymous \/ used' > 0
                              \/ Repeats(Only(list, Identified))

LEMMA BatchTable ==
    ASSUME TableInv, used \in 0..MaxDisruptions, NEW list \in Seq(Remote),
           NEW batch, batch = Only(list, Identified), NEW ids,
           (Maps(batch) /\ ids = Returning(batch, row')) \/ (Refused(batch) /\ ids = Nothing)
    PROVE  /\ TableInv' /\ Evolves /\ IdsKept /\ RowsMove
           /\ used' \in 0..MaxDisruptions /\ used <= used' /\ Given(list, ids)
<1>1. /\ batch \in Seq(Remote)
      /\ \A i \in DOMAIN list : list[i] \in Identified => \E k \in DOMAIN batch : batch[k] = list[i]
  BY OnlyParts
<1>2. CASE Maps(batch) /\ ids = Returning(batch, row')
  <2>1. /\ TableInv' /\ Evolves /\ IdsKept /\ RowsAdded /\ used' = used /\ ids \in Tables
        /\ DOMAIN ids = ToSet(batch)
        /\ \A c \in ToSet(batch) : ids[c] \in DOMAIN meaning' /\ meaning'[ids[c]] = RowOf(c)
    BY <1>1, <1>2, MapsTable
  <2>2. \A k \in DOMAIN list : list[k] \in ToSet(batch) \/ list[k] \in Anonymous
    <3>1. ASSUME NEW k \in DOMAIN list, list[k] \notin Anonymous  PROVE list[k] \in ToSet(batch)
      <4>1. list[k] \in Identified
        BY <3>1 DEF Identified
      <4>2. PICK l \in DOMAIN batch : batch[l] = list[k]
        BY <1>1, <4>1
      <4> QED  BY <4>2 DEF ToSet
    <3> QED  BY <3>1
  <2>3. Given(list, ids)
    BY <2>1, <2>2 DEF Given
  <2> QED  BY <2>1, <2>3, AddedMoves, PagesAssumption
<1>3. CASE Refused(batch) /\ ids = Nothing
  <2>1. /\ TableInv' /\ Evolves /\ IdsKept /\ RowsMove
        /\ used' \in 0..MaxDisruptions /\ used <= used' /\ (Repeats(batch) \/ used' > 0)
    BY <1>3, RefusedTable
  <2>2. Given(list, ids)
    BY <1>3, <2>1, NothingTyped DEF Given
  <2> QED  BY <2>1, <2>2
<1> QED  BY <1>2, <1>3

\* The entries of a cached thread.
Unnamed(entries, list) ==
    \A k \in DOMAIN entries : entries[k].id = Url =>
        used' > 0 \/ entries[k].copy \in Anonymous \/ Repeats(Only(list, Identified))

LEMMA FromPostsParts ==
    ASSUME TableInv', NEW list \in Seq(Remote), NEW ids, Given(list, ids)
    PROVE  FromPosts(list, ids) \in Seq(Entries) /\ Unnamed(FromPosts(list, ids), list)
<1>1. PICK entries : entries = FromPosts(list, ids)
  OBVIOUS
<1>2. entries = [k \in DOMAIN list |-> RemoteEntry(ids, list[k])]
  BY <1>1 DEF FromPosts
<1>3. DOMAIN meaning' \subseteq Nat \ {0}
  BY DEF TableInv, TableTyped
<1>4. ASSUME NEW k \in DOMAIN list
      PROVE  /\ entries[k] \in Entries
             /\ entries[k].id = Url =>
                   used' > 0 \/ entries[k].copy \in Anonymous \/ Repeats(Only(list, Identified))
  <2>1. PICK c \in Remote : c = list[k]
    OBVIOUS
  <2>2. PICK id : id = IdIfMapped(ids, c)
    OBVIOUS
  <2>3. entries[k] = [copy |-> c, post |-> PostOf[c], id |-> id, fav |-> FALSE, parent |-> Url]
    BY <1>2, <2>1, <2>2 DEF RemoteEntry, Entry
  <2>4. id = IF c \in DOMAIN ids THEN ids[c] ELSE Url
    BY <2>2 DEF IdIfMapped
  <2>5. id \in Nat /\ (id = Url => c \notin DOMAIN ids)
    BY <1>3, <2>4 DEF Given, Url
  <2>6. entries[k] \in Entries
    BY <2>3, <2>5, Sources DEF Entries, Url
  <2>7. entries[k].id = id /\ entries[k].copy = c
    BY <2>3
  <2> QED  BY <2>1, <2>5, <2>6, <2>7 DEF Given
<1>5. DOMAIN list = 1..Len(list) /\ Len(list) \in Nat
  OBVIOUS
<1>6. entries \in [1..Len(list) -> Entries]
  BY <1>2, <1>4, <1>5
<1>7. entries \in Seq(Entries)
  BY <1>5, <1>6
<1>8. Unnamed(entries, list)
  BY <1>2, <1>4 DEF Unnamed
<1> QED  BY <1>1, <1>7, <1>8

LEMMA BuildAncestorsStep == ASSUME PagesInv, BuildAncestors PROVE PagesInv'
<1>1. /\ TableInv /\ Places /\ Held /\ At("ancestors")
      /\ req \in Requests /\ used \in 0..MaxDisruptions /\ req.pc = "ancestors"
  BY DEF PagesInv, BuildAncestors, Places, At
<1>2. /\ req.kind = "context" /\ req.next = End
      /\ req.asked \in Asked /\ req.list \in Seq(Remote)
      /\ req.cursor \in DOMAIN ReplyPages[req.asked]
      /\ req.fetch = "failed" => used > 0
  BY <1>1 DEF Places, ContextPcs
<1>3. PICK chain \in Seq(Remote) : chain = CachedAbove[req.asked]
  BY <1>2, PagesAssumption
<1>4. PICK batch, ids :
         /\ batch = Only(chain, Identified) /\ Ancestors(ids)
         /\ (Maps(batch) /\ ids = Returning(batch, row')) \/ (Refused(batch) /\ ids = Nothing)
  BY <1>3 DEF BuildAncestors
<1>5. /\ TableInv' /\ Evolves
      /\ used' \in 0..MaxDisruptions /\ used <= used' /\ Given(chain, ids)
  BY <1>1, <1>4, BatchTable
<1>6. PICK entries : entries = FromPosts(chain, ids)
  OBVIOUS
<1>7. entries \in Seq(Entries) /\ Unnamed(entries, chain)
  BY <1>5, <1>6, FromPostsParts
<1>8. PICK page : page = Reverse(entries)
  OBVIOUS
<1>9. /\ page \in Seq(Entries)
      /\ \A k \in DOMAIN page : \E l \in DOMAIN entries : page[k] = entries[l]
  <2>1. /\ page = [i \in 1..Len(entries) |-> entries[(Len(entries) - i) + 1]]
        /\ Len(entries) \in Nat /\ DOMAIN entries = 1..Len(entries)
    BY <1>7, <1>8 DEF Reverse
  <2>2. \A i \in 1..Len(entries) : (Len(entries) - i) + 1 \in DOMAIN entries
    BY <2>1
  <2>3. \A i \in 1..Len(entries) : page[i] \in Entries /\ \E l \in DOMAIN entries : page[i] = entries[l]
    BY <1>7, <2>1, <2>2
  <2> QED  BY <2>1, <2>3
<1>10. req' = [req EXCEPT !.pc = "replies", !.items = <<>>, !.page = page]
  BY <1>3, <1>4, <1>6, <1>8 DEF Ancestors
<1>11. /\ req'.pc = "replies" /\ req'.items = <<>> /\ req'.kind = "context"
       /\ req'.page = page /\ req'.next = End /\ req'.asked = req.asked
       /\ req'.list = req.list /\ req'.cursor = req.cursor /\ req'.fetch = req.fetch
       /\ req'.resolved = req.resolved /\ req'.ids = req.ids /\ req'.favs0 = req.favs0
  BY <1>1, <1>2, <1>10 DEF Requests
<1>12. req' \in Requests
  <2>1. <<>> \in Seq(Entries) /\ "replies" \in Pcs
    BY DEF Pcs
  <2> QED  BY <1>1, <1>9, <1>10, <2>1 DEF Requests
<1>13. Places'
  BY <1>1, <1>2, <1>5, <1>11, <1>12, PagesAssumption DEF Places, ContextPcs
<1>14. Single' /\ Held' /\ Settled' /\ Looked' /\ Named' /\ PageMade'
  BY <1>1, <1>5, <1>11, ContextKept
<1>15. Items' /\ Translation'
  BY <1>11 DEF Items, Translation, At
<1>16. Walked'
  BY <1>3, <1>7, <1>9, <1>11 DEF Walked, Unnamed
<1> QED  BY <1>5, <1>13, <1>14, <1>15, <1>16 DEF PagesInv

\* What asking for a page of replies changes.
AsksFor(pages, pc, list, cursor, asks) ==
    /\ pc \in {"replies", "descendants"} /\ list \in Seq(Remote)
    /\ cursor \in DOMAIN pages /\ asks \in Nat
    /\ req' = [req EXCEPT !.pc = pc, !.list = list, !.cursor = cursor, !.asks = asks]
    /\ UNCHANGED used \/ Disrupt("provider")

LEMMA AskRepliesStep == ASSUME PagesInv, AskReplies PROVE PagesInv'
<1>1. /\ TableInv /\ Places /\ Held /\ Walked /\ At("replies")
      /\ req \in Requests /\ used \in 0..MaxDisruptions /\ req.pc = "replies"
  BY DEF PagesInv, AskReplies, Places, At
<1>2. /\ req.kind = "context" /\ req.next = End /\ req.items = <<>>
      /\ req.asked \in Asked /\ req.list \in Seq(Remote)
      /\ req.cursor \in DOMAIN ReplyPages[req.asked]
      /\ req.fetch = "failed" => used > 0
  BY <1>1 DEF Places, ContextPcs
<1>3. UNCHANGED rowVars
  BY DEF AskReplies
<1>4. TableInv' /\ Evolves
  BY <1>1, <1>3, SameTable
<1>5. PICK pages \in Seq(Seq(Remote)) : pages = ReplyPages[req.asked] /\ req.cursor \in DOMAIN pages
  BY <1>2, PagesAssumption
<1>6. PICK pc, list, cursor, asks : AsksFor(pages, pc, list, cursor, asks)
  <2>1. CASE req' = [req EXCEPT !.pc = "descendants"] /\ Disrupt("provider")
    <3>1. req' = [req EXCEPT !.pc = "descendants", !.list = req.list, !.cursor = req.cursor,
                             !.asks = req.asks]
      BY <1>1, <2>1 DEF Requests
    <3>2. req.asks \in Nat
      BY <1>1 DEF Requests
    <3>3. AsksFor(pages, "descendants", req.list, req.cursor, req.asks)
      BY <1>2, <1>5, <2>1, <3>1, <3>2 DEF AsksFor
    <3> QED  BY <3>3
  <2>2. CASE ~(req' = [req EXCEPT !.pc = "descendants"] /\ Disrupt("provider"))
    <3> DEFINE more == req.cursor < Len(pages) /\ req.asks + 1 < MaxPages
    <3>1. /\ req' = [req EXCEPT !.list = @ \o pages[req.cursor], !.asks = @ + 1,
                                !.cursor = IF ~more THEN @
                                           ELSE IF req.asked \in Cursorless THEN 1 ELSE @ + 1,
                                !.pc = IF more THEN "replies" ELSE "descendants"]
          /\ UNCHANGED used
      BY <1>5, <2>2 DEF AskReplies
    <3>2. PICK pc, list, cursor, asks :
             /\ pc = IF more THEN "replies" ELSE "descendants"
             /\ list = req.list \o pages[req.cursor] /\ asks = req.asks + 1
             /\ cursor = IF ~more THEN req.cursor
                         ELSE IF req.asked \in Cursorless THEN 1 ELSE req.cursor + 1
      OBVIOUS
    <3>3. req' = [req EXCEPT !.pc = pc, !.list = list, !.cursor = cursor, !.asks = asks]
      BY <1>1, <3>1, <3>2 DEF Requests
    <3>4. pages[req.cursor] \in Seq(Remote)
      BY <1>5
    <3>5. list \in Seq(Remote)
      BY <1>2, <3>2, <3>4
    <3>6. asks \in Nat
      BY <1>1, <3>2 DEF Requests
    <3>7. cursor \in DOMAIN pages
      BY <1>5, <3>2
    <3>8. pc \in {"replies", "descendants"}
      BY <3>2
    <3>9. AsksFor(pages, pc, list, cursor, asks)
      BY <3>1, <3>3, <3>5, <3>6, <3>7, <3>8 DEF AsksFor
    <3> QED  BY <3>9
  <2> QED  BY <2>1, <2>2
<1>16. /\ pc \in {"replies", "descendants"} /\ list \in Seq(Remote)
       /\ cursor \in DOMAIN pages /\ asks \in Nat
       /\ req' = [req EXCEPT !.pc = pc, !.list = list, !.cursor = cursor, !.asks = asks]
       /\ UNCHANGED used \/ Disrupt("provider")
  BY <1>6 DEF AsksFor
<1>7. used' \in 0..MaxDisruptions /\ used \in Nat /\ used' \in Nat /\ used <= used'
  BY <1>1, <1>16, Disrupted
<1>8. /\ req'.pc = pc /\ req'.items = <<>> /\ req'.kind = "context"
      /\ req'.page = req.page /\ req'.next = End /\ req'.asked = req.asked
      /\ req'.list = list /\ req'.cursor = cursor /\ req'.fetch = req.fetch
      /\ req'.resolved = req.resolved /\ req'.ids = req.ids /\ req'.favs0 = req.favs0
  BY <1>1, <1>2, <1>16 DEF Requests
<1>9. req' \in Requests
  <2>1. list \in Seq(Copies) /\ cursor \in Nat /\ pc \in Pcs
    BY <1>5, <1>16, Sources DEF Pcs
  <2> QED  BY <1>1, <1>16, <2>1 DEF Requests
<1>10. Places'
  BY <1>1, <1>2, <1>5, <1>16, <1>7, <1>8, <1>9 DEF Places, ContextPcs
<1>11. Single' /\ Held' /\ Settled' /\ Looked' /\ Named' /\ PageMade'
  BY <1>1, <1>4, <1>16, <1>8, ContextKept
<1>12. Items' /\ Translation'
  BY <1>16, <1>8 DEF Items, Translation, At
<1>13. Walked'
  BY <1>1, <1>2, <1>16, <1>7, <1>8 DEF Walked, At
<1> QED  BY <1>4, <1>10, <1>11, <1>12, <1>13 DEF PagesInv

LEMMA MapDescendantsStep == ASSUME PagesInv, MapDescendants PROVE PagesInv'
<1>1. /\ TableInv /\ Places /\ Held /\ Walked /\ At("descendants")
      /\ req \in Requests /\ used \in 0..MaxDisruptions /\ req.pc = "descendants"
  BY DEF PagesInv, MapDescendants, Places, At
<1>2. /\ req.kind = "context" /\ req.next = End /\ req.items = <<>>
      /\ req.asked \in Asked /\ req.list \in Seq(Remote)
      /\ req.cursor \in DOMAIN ReplyPages[req.asked]
      /\ req.fetch = "failed" => used > 0
  BY <1>1 DEF Places, ContextPcs
<1>3. PICK list \in Seq(Remote) : list = req.list
  BY <1>2
<1>4. PICK batch, ids :
         /\ batch = Only(list, Identified) /\ Descendants(ids)
         /\ (Maps(batch) /\ ids = Returning(batch, row')) \/ (Refused(batch) /\ ids = Nothing)
  BY <1>3 DEF MapDescendants
<1>5. /\ TableInv' /\ Evolves
      /\ used' \in 0..MaxDisruptions /\ used <= used' /\ Given(list, ids)
  BY <1>1, <1>4, BatchTable
<1>6. PICK entries : entries = FromPosts(list, ids)
  OBVIOUS
<1>7. entries \in Seq(Entries) /\ Unnamed(entries, list)
  BY <1>5, <1>6, FromPostsParts
<1>8. PICK above, page : above = req.page /\ page = above \o entries
  OBVIOUS
<1>9. above \in Seq(Entries)
  BY <1>1, <1>8 DEF Requests
<1>10. page \in Seq(Entries) /\ Joins(page, above, entries)
  BY <1>7, <1>8, <1>9, Joined
<1>11. req' = [req EXCEPT !.pc = "shown", !.page = page, !.next = End]
  BY <1>3, <1>4, <1>6, <1>8 DEF Descendants, Show
<1>12. /\ req'.pc = "shown" /\ req'.items = <<>> /\ req'.kind = "context"
       /\ req'.page = page /\ req'.next = End /\ req'.asked = req.asked
       /\ req'.list = req.list /\ req'.cursor = req.cursor /\ req'.fetch = req.fetch
       /\ req'.resolved = req.resolved /\ req'.ids = req.ids /\ req'.favs0 = req.favs0
  BY <1>1, <1>2, <1>11 DEF Requests
<1>13. req' \in Requests
  <2>1. "shown" \in Pcs /\ End \in Nat \cup {End}
    BY DEF Pcs
  <2> QED  BY <1>1, <1>10, <1>11, <2>1 DEF Requests
<1>14. Places'
  BY <1>1, <1>2, <1>5, <1>12, <1>13, PagesAssumption DEF Places, ContextPcs
<1>15. Single' /\ Held' /\ Settled' /\ Looked' /\ Named' /\ PageMade'
  BY <1>1, <1>5, <1>12, ContextKept
<1>16. Items' /\ Translation'
  BY <1>12 DEF Items, Translation, At
<1>17. Walked'
  <2>1. SUFFICES ASSUME NEW k \in DOMAIN page, page[k].id = Url
                 PROVE  \/ used' > 0 \/ page[k].copy \in Anonymous
                        \/ Repeats(Only(CachedAbove[req.asked], Identified))
                        \/ Repeats(Only(list, Identified))
    BY <1>3, <1>12 DEF Walked, At
  <2>2. (\E l \in DOMAIN above : page[k] = above[l]) \/ (\E l \in DOMAIN entries : page[k] = entries[l])
    BY <1>10, <2>1 DEF Joins
  <2>3. CASE \E l \in DOMAIN above : page[k] = above[l]
    <3>1. used > 0 => used' > 0
      BY <1>1, <1>5, PagesAssumption
    <3> QED  BY <1>1, <1>2, <1>8, <2>1, <2>3, <3>1 DEF Walked, At
  <2>4. CASE \E l \in DOMAIN entries : page[k] = entries[l]
    BY <1>7, <2>1, <2>4 DEF Unnamed
  <2> QED  BY <2>2, <2>3, <2>4
<1> QED  BY <1>5, <1>14, <1>15, <1>16, <1>17 DEF PagesInv

----------------------------------------------------------------------------
\* The invariant holds at first and after every step.
LEMMA InitInv == Init => PagesInv
<1>1. SUFFICES ASSUME Init PROVE PagesInv
  OBVIOUS
<1>2. TableInv /\ req = Idle /\ used = 0
  BY <1>1, InitTable DEF Init
<1>3. /\ req.pc = "idle" /\ req.kind = "tag" /\ req.list = <<>> /\ req.favs0 = {}
      /\ req.resolved = Nothing /\ req.ids = Nothing /\ req.items = <<>> /\ req.page = <<>>
      /\ req.fetch = "ready" /\ req \in Requests
  BY <1>2, IdleTyped DEF Idle
<1>4. Places
  BY <1>2, <1>3, PagesAssumption DEF Places, ContextPcs
<1>5. Single /\ Held
  BY <1>3 DEF Single, Held, Nothing
<1>6. Items /\ Translation /\ Walked
  BY <1>3 DEF Items, Translation, Walked, At
<1>7. Settled /\ Looked /\ Named /\ PageMade
  BY <1>3 DEF Settled, Looked, Named, PageMade, Consulted, Timeline, At
<1> QED  BY <1>2, <1>4, <1>5, <1>6, <1>7 DEF PagesInv

LEMMA StepInv == PagesInv /\ [Next]_vars => PagesInv'
<1> SUFFICES ASSUME PagesInv, [Next]_vars PROVE PagesInv'
  OBVIOUS
<1>1. ASSUME NEW kind \in DOMAIN Rankings, Open(kind) PROVE PagesInv'
  BY <1>1, OpenStep
<1>2. ASSUME NEW c \in Asked, OpenContext(c) PROVE PagesInv'
  BY <1>2, OpenContextStep
<1>3. CASE Follow \/ Close \/ Others
  BY <1>3, FollowStep, CloseStep, OthersStep
<1>4. CASE Lookup \/ FetchBase \/ Enrich \/ MapPosts \/ Serve
  BY <1>4, LookupStep, FetchBaseStep, EnrichStep, MapPostsStep, ServeStep
<1>5. CASE Forward \/ Translate \/ Answer \/ Clear
  BY <1>5, ForwardStep, TranslateStep, AnswerStep, ClearStep
<1>6. CASE BuildAncestors \/ AskReplies \/ MapDescendants
  BY <1>6, BuildAncestorsStep, AskRepliesStep, MapDescendantsStep
<1>7. CASE UNCHANGED vars
  <2>1. TableInv /\ UNCHANGED rowVars /\ req' = req /\ used' = used
    BY <1>7 DEF PagesInv, vars
  <2>2. TableInv' /\ Evolves /\ RowsMove
    BY <2>1, SameTable, AddedMoves
  <2> QED  BY <2>1, <2>2, Meanwhile
<1> QED  BY <1>1, <1>2, <1>3, <1>4, <1>5, <1>6, <1>7 DEF Next, Handle

LEMMA PagesInvHolds == Spec => []PagesInv
BY InitInv, StepInv, PTL DEF Spec

----------------------------------------------------------------------------
(* Whatever feeds, contexts, the resolver and Mastodon do to the rows, in  *)
(* any order and with any statement failing, a row has an id of its own    *)
(* and no local id but one of its post, and a request is in a state the    *)
(* handlers have, with a page that fits and a link that is one of its ids. *)
THEOREM PagesTyped == Spec => []TypeOK
<1>1. PagesInv => TypeOK
  <2>1. SUFFICES ASSUME PagesInv PROVE TypeOK
    OBVIOUS
  <2>2. TableInv /\ Places /\ PageMade
    BY <2>1 DEF PagesInv
  <2>3. /\ \A c \in Remote : row[c] = NoRow \/
              /\ row[c].id \in DOMAIN meaning /\ meaning[row[c].id] = RowOf(c)
              /\ row[c].local # 0 => meaning[row[c].local] = Status(PostOf[c])
        /\ Len(meaning) <= MaxId /\ visible \cup favs \subseteq DOMAIN meaning
        /\ changes \in 0..MaxChanges
    BY <2>2 DEF TableInv, TableTyped, RowsMeant
  <2>4. /\ req.pc \in Pcs /\ req.fetch \in {"base", "enrich", "ready", "failed"}
        /\ used \in 0..MaxDisruptions
    BY <2>2 DEF Places, Requests
  <2>5. Timeline => Len(req.page) <= Limit /\ req.next \in {End, Url} \cup DOMAIN meaning
    BY <2>2 DEF PageMade
  <2> QED  BY <2>3, <2>4, <2>5 DEF TypeOK
<1> QED  BY <1>1, PagesInvHolds, PTL

(* A snowflake stays its row's for any number of feeds and contexts that   *)
(* map the post again (Snowflakes::map_posts upserts), of resolutions and  *)
(* of 404s that clear the local id: only a deleted row gets another one.   *)
THEOREM SnowflakesStay == Spec => HandlesKept
<1> DEFINE Moved == \A c \in Remote : row[c] # NoRow /\ row'[c] # NoRow => row'[c].id = row[c].id
<1>1. PagesInv /\ [Next]_vars => [Moved]_vars
  <2>1. SUFFICES ASSUME PagesInv, [Next]_vars PROVE IdsKept
    BY DEF IdsKept
  <2>2. /\ TableInv /\ Places /\ req \in Requests /\ used \in 0..MaxDisruptions
        /\ req.kind = "context" => req.asked \in Asked /\ req.list \in Seq(Remote)
        /\ req.pc \in ContextPcs => req.kind = "context"
    BY <2>1 DEF PagesInv, Places
  <2>3. CASE UNCHANGED rowVars
    BY <2>2, <2>3, SameTable
  <2>4. CASE Others
    BY <2>2, <2>4, OthersTable
  <2>5. CASE Clear
    BY <2>2, <2>5, ClearTable
  <2>6. CASE MapPosts
    <3>1. PICK list \in Seq(Copies) : list = req.list
      BY <2>2 DEF Requests
    <3>2. PICK S : S = {c \in Identified : Foreign(c)}
      OBVIOUS
    <3>3. PICK batch : batch = Only(list, S) /\ (Maps(batch) \/ Refused(batch))
      BY <2>6, <3>1, <3>2 DEF MapPosts
    <3>4. batch \in Seq(Remote)
      <4>1. /\ batch \in Seq(Copies)
            /\ \A k \in DOMAIN batch : batch[k] \in S
        BY <3>1, <3>3, OnlyParts
      <4>2. \A k \in 1..Len(batch) : batch[k] \in Remote
        BY <3>2, <4>1, Sources
      <4> QED  BY <4>1, <4>2
    <3> QED  BY <2>2, <3>3, <3>4, MapsTable, RefusedTable
  <2>7. CASE BuildAncestors
    <3>1. PICK chain \in Seq(Remote) : chain = CachedAbove[req.asked]
      BY <2>2, <2>7, PagesAssumption DEF BuildAncestors, At, ContextPcs
    <3>2. PICK batch, ids :
             /\ batch = Only(chain, Identified)
             /\ (Maps(batch) /\ ids = Returning(batch, row')) \/ (Refused(batch) /\ ids = Nothing)
      BY <2>7, <3>1 DEF BuildAncestors
    <3> QED  BY <2>2, <3>2, BatchTable
  <2>8. CASE MapDescendants
    <3>1. PICK list \in Seq(Remote) : list = req.list
      BY <2>2, <2>8 DEF MapDescendants, At, ContextPcs
    <3>2. PICK batch, ids :
             /\ batch = Only(list, Identified)
             /\ (Maps(batch) /\ ids = Returning(batch, row')) \/ (Refused(batch) /\ ids = Nothing)
      BY <2>8, <3>1 DEF MapDescendants
    <3> QED  BY <2>2, <3>2, BatchTable
  <2>9. CASE \/ Follow \/ Close \/ Lookup \/ FetchBase \/ Enrich \/ Serve
             \/ Forward \/ Translate \/ Answer \/ AskReplies
    <3>1. UNCHANGED rowVars
      BY <2>9 DEF Follow, Begin, Close, Lookup, FetchBase, Enrich, Serve, Forward, Translate,
                  Answer, AskReplies
    <3> QED  BY <2>3, <3>1
  <2>10. ASSUME NEW kind, Open(kind) PROVE IdsKept
    <3>1. UNCHANGED rowVars
      BY <2>10 DEF Open, Begin
    <3> QED  BY <2>3, <3>1
  <2>11. ASSUME NEW c, OpenContext(c) PROVE IdsKept
    <3>1. UNCHANGED rowVars
      BY <2>11 DEF OpenContext
    <3> QED  BY <2>3, <3>1
  <2>12. CASE UNCHANGED vars
    BY <2>3, <2>12 DEF vars
  <2> QED  BY <2>1, <2>4, <2>5, <2>6, <2>7, <2>8, <2>9, <2>10, <2>11, <2>12 DEF Next, Handle
<1>2. []PagesInv /\ [][Next]_vars => [][Moved]_vars
  BY <1>1, PTL
<1> QED  BY <1>2, PagesInvHolds, PTL DEF Spec, HandlesKept
----------------------------------------------------------------------------
\* What a shown page says.
LEMMA ShownParts ==
    ASSUME PagesInv, Timeline
    PROVE  /\ TableInv /\ Held /\ InOrder /\ OfServed /\ Len(req.page) \in Nat
           /\ req \in Requests /\ req.list \in Seq(Copies)
           /\ \A i \in DOMAIN req.list : req.list[i] \in Copies
           /\ \A k \in DOMAIN req.page :
                 /\ Consulted /\ req.fetch = "ready" /\ req.map = "ready"
                 /\ req.page[k].post = PostOf[req.page[k].copy]
                 /\ \E i \in DOMAIN req.list : req.list[i] = req.page[k].copy
<1>1. TableInv /\ Held /\ PageMade /\ req \in Requests
  BY DEF PagesInv, Places
<1>2. req.list \in Seq(Copies) /\ req.page \in Seq(Entries)
  BY <1>1 DEF Requests
<1>3. InOrder /\ OfServed /\ (req.page # <<>> => req.fetch = "ready" /\ req.map = "ready")
  BY <1>1 DEF PageMade
<1>4. ASSUME NEW k \in DOMAIN req.page
      PROVE  /\ Consulted /\ req.fetch = "ready" /\ req.map = "ready"
             /\ req.page[k].post = PostOf[req.page[k].copy]
             /\ \E i \in DOMAIN req.list : req.list[i] = req.page[k].copy
  <2>1. req.page # <<>>
    BY <1>2, <1>4
  <2>2. Consulted
    BY <2>1 DEF Consulted
  <2>3. PICK c : c = req.page[k].copy
    OBVIOUS
  <2>4. req.page[k] = EntryOf(c)
    BY <1>3, <2>3 DEF OfServed
  <2>5. EntryOf(c).post = PostOf[c]
    BY EntryOfCopy
  <2>6. \E i \in DOMAIN req.list : req.list[i] = req.page[k].copy
    BY <1>3 DEF InOrder
  <2> QED  BY <1>3, <2>1, <2>2, <2>3, <2>4, <2>5, <2>6
<1> QED  BY <1>1, <1>2, <1>3, <1>4

\* The id and the flag of what is served from either side.
LEMMA LocalEntryIs ==
    ASSUME NEW c, IsLocal(c)
    PROVE  EntryOf(c).id = LocalId(c) /\ EntryOf(c).fav = (LocalId(c) \in req.flags)
BY DEF EntryOf, LocalEntry, Entry

LEMMA ForeignEntryIs ==
    ASSUME NEW c, Foreign(c)
    PROVE  EntryOf(c).id = IF c \in DOMAIN req.ids THEN req.ids[c] ELSE Url
BY DEF Foreign, EntryOf, RemoteEntry, Entry, IdIfMapped

LEMMA TimelineSnowflakes ==
    ASSUME PagesInv, Timeline, NEW k \in DOMAIN req.page
    PROVE  LET e == req.page[k]
           IN IF e.id # Url THEN meaning[e.id].post = e.post
              ELSE used > 0 \/ e.copy \in Anonymous \/ BatchRepeats
<1>1. /\ TableInv /\ Held /\ OfServed /\ Consulted /\ req.map = "ready"
      /\ req.page[k].post = PostOf[req.page[k].copy]
  BY ShownParts
<1>2. PICK i \in DOMAIN req.list : req.list[i] = req.page[k].copy /\ req.list[i] \in Copies
  BY ShownParts
<1>3. PICK c \in Copies : c = req.list[i] /\ c = req.page[k].copy
  BY <1>2
<1>4. req.page[k] = EntryOf(c)
  BY <1>1, <1>3 DEF OfServed
<1>5. DOMAIN meaning \subseteq Nat \ {0}
  BY <1>1 DEF TableInv, TableTyped
<1>6. CASE IsLocal(c)
  <2>1. LocalId(c) \in DOMAIN meaning /\ meaning[LocalId(c)] = Status(PostOf[c])
    BY <1>1, <1>6, LocalMeant
  <2>2. req.page[k].id = LocalId(c)
    BY <1>4, <1>6, LocalEntryIs
  <2>3. meaning[req.page[k].id].post = PostOf[c]
    BY <2>1, <2>2 DEF Status
  <2> QED  BY <1>1, <1>3, <1>5, <2>1, <2>2, <2>3 DEF Url
<1>7. CASE Foreign(c)
  <2>1. req.page[k].id = IF c \in DOMAIN req.ids THEN req.ids[c] ELSE Url
    BY <1>4, <1>7, ForeignEntryIs
  <2>2. CASE c \in DOMAIN req.ids
    <3>1. req.ids[c] \in DOMAIN meaning /\ meaning[req.ids[c]] = RowOf(c)
      BY <1>1, <2>2 DEF Held
    <3>2. meaning[req.page[k].id].post = PostOf[c]
      BY <2>1, <2>2, <3>1 DEF RowOf
    <3> QED  BY <1>1, <1>3, <1>5, <2>1, <2>2, <3>1, <3>2 DEF Url
  <2>3. CASE c \notin DOMAIN req.ids
    <3>1. Named
      BY DEF PagesInv
    <3>2. Excused(c)
      BY <1>1, <1>3, <1>7, <2>3, <3>1 DEF Named
    <3> QED  BY <1>3, <2>1, <2>3, <3>2 DEF Excused
  <2> QED  BY <2>2, <2>3
<1> QED  BY <1>6, <1>7 DEF Foreign

LEMMA ContextSnowflakes ==
    ASSUME PagesInv, req.kind = "context", At("shown"), NEW k \in DOMAIN req.page,
           req.page[k].id = Url
    PROVE  used > 0 \/ req.page[k].copy \in Anonymous \/ BatchRepeats
<1>1. Translation /\ Walked
  BY DEF PagesInv
<1>2. req.items = <<>>
  BY <1>1 DEF Translation, Url
<1> QED  BY <1>1, <1>2 DEF Walked, At, BatchRepeats

(* What a timeline or a context serves under an id is the very post the id *)
(* was drawn for, whichever of the snowflake and Mastodon's id it is; and  *)
(* Status::from_post falls back to the url only if a statement failed, the *)
(* provider gave no id, or a batch named a row twice.                      *)
THEOREM PagesNameTheirPosts == Spec => []SnowflakeKept
<1>1. PagesInv => SnowflakeKept
  <2>1. SUFFICES ASSUME PagesInv, At("shown"), NEW k \in DOMAIN req.page
                 PROVE  LET e == req.page[k]
                        IN IF e.id # Url
                           THEN Timeline => meaning[e.id].post = e.post
                           ELSE used > 0 \/ e.copy \in Anonymous \/ BatchRepeats
    BY DEF SnowflakeKept
  <2>2. CASE Timeline
    BY <2>1, <2>2, TimelineSnowflakes
  <2>3. CASE ~Timeline
    <3>1. req.kind = "context"
      BY <2>1, <2>3 DEF Timeline
    <3> QED  BY <2>1, <2>3, <3>1, ContextSnowflakes
  <2> QED  BY <2>2, <2>3
<1> QED  BY <1>1, PagesInvHolds, PTL

(* A status that the viewer had favourited when the page was asked for is  *)
(* shown as favourited wherever its row has its id throughout, although    *)
(* the flags are read by a later statement than the ids.                   *)
THEOREM FavouritesShown == Spec => []FavouriteShown
<1>1. PagesInv => FavouriteShown
  <2>1. SUFFICES ASSUME PagesInv, Timeline, NEW k \in DOMAIN req.page, NEW id \in req.favs0,
                        req.page[k].post \notin req.touched,
                        LET c == req.page[k].copy
                        IN \/ c \in Natives /\ NativeId(c) = id
                           \/ c \in Remote /\ Mapped(c) /\ row[c].local = id
                 PROVE  req.page[k].fav
    BY DEF FavouriteShown
  <2>2. /\ TableInv /\ OfServed /\ Consulted /\ req.fetch = "ready"
        /\ req.page[k].post = PostOf[req.page[k].copy]
    BY <2>1, ShownParts
  <2>3. PICK i \in DOMAIN req.list : req.list[i] = req.page[k].copy /\ req.list[i] \in Copies
    BY <2>1, ShownParts
  <2>4. PICK c \in Copies : c = req.list[i] /\ c = req.page[k].copy
    BY <2>3
  <2>5. Served(c) /\ req.page[k] = EntryOf(c)
    BY <2>1, <2>2, <2>4 DEF OfServed
  <2>6. Settled /\ Looked
    BY <2>1 DEF PagesInv
  <2>7. IsLocal(c) /\ LocalId(c) = id
    <3>1. CASE c \in Natives /\ NativeId(c) = id
      BY <3>1 DEF IsLocal, LocalId
    <3>2. CASE c \in Remote /\ Mapped(c) /\ row[c].local = id
      <4>1. c \in DOMAIN req.resolved /\ row[c].local = req.resolved[c]
        BY <2>1, <2>2, <2>4, <2>6, <3>2 DEF Settled
      <4> QED  BY <3>2, <4>1 DEF IsLocal, LocalId, Remote
    <3> QED  BY <2>1, <2>4, <3>1, <3>2
  <2>8. LocalId(c) \in req.base
    BY <2>5, <2>7 DEF Served, Foreign
  <2>9. LocalId(c) \in req.flags
    BY <2>1, <2>2, <2>6, <2>7, <2>8 DEF Looked
  <2> QED  BY <2>5, <2>7, <2>9, LocalEntryIs
<1> QED  BY <1>1, PagesInvHolds, PTL

\* What a first page leaves out.
LEMMA LeftOut ==
    ASSUME PagesInv, Timeline, used = 0, req.max = Url, NEW c \in Copies,
           NEW i \in DOMAIN req.list, c = req.list[i], ~Served(c)
    PROVE  \/ PostOf[c] \in req.touched
           \/ c \in Natives /\ NativeId(c) \notin visible
           \/ c \in Remote /\ Mapped(c) /\ row[c].local \notin visible
<1>1. Settled /\ Looked /\ Consulted /\ req.fetch = "ready"
  BY DEF PagesInv, PageMade, Consulted
<1>2. IsLocal(c) /\ LocalId(c) \notin req.base
  BY DEF Served, Foreign
<1>3. LocalId(c) \notin visible
  BY <1>1, <1>2 DEF Looked
<1>4. CASE c \in Natives
  BY <1>3, <1>4 DEF LocalId
<1>5. CASE c \notin Natives
  <2>1. c \in Remote /\ c \in DOMAIN req.resolved /\ LocalId(c) = req.resolved[c]
    BY <1>2, <1>5 DEF Remote, IsLocal, LocalId
  <2>2. PostOf[c] \notin req.touched => Mapped(c) /\ row[c].local = req.resolved[c]
    BY <1>1, <2>1 DEF Settled
  <2> QED  BY <1>3, <2>1, <2>2
<1> QED  BY <1>4, <1>5

(* A page has its candidates in the order they were ranked, leaves none    *)
(* out of a first page but what Mastodon hides or others changed, and      *)
(* shows a post once on a tag timeline: for any ranking, any rows, and     *)
(* whatever happens between the three statements it is put together from.  *)
THEOREM PagesFollowRankings == Spec => []PageFollowsRanking
<1>1. PagesInv => PageFollowsRanking
  <2>1. SUFFICES ASSUME PagesInv, Timeline PROVE PageFollowsRanking
    BY DEF PageFollowsRanking
  <2>2. PICK at \in [DOMAIN req.page -> DOMAIN req.list] :
           /\ \A k \in DOMAIN at : req.list[at[k]] = req.page[k].copy
           /\ \A k, l \in DOMAIN at : k < l => at[k] < at[l]
    BY <2>1, ShownParts DEF InOrder
  <2>3. ASSUME used = 0, req.max = Url, Len(req.page) < Limit, NEW i \in DOMAIN req.list,
               NEW c, c = req.list[i]
        PROVE  \/ \E k \in DOMAIN req.page : req.page[k].copy = c
               \/ PostOf[c] \in req.touched
               \/ c \in Natives /\ NativeId(c) \notin visible
               \/ c \in Remote /\ Mapped(c) /\ row[c].local \notin visible
    <3>1. AllServed /\ c \in Copies
      BY <2>1, <2>3, ShownParts DEF PagesInv, PageMade
    <3>2. CASE Served(c)
      BY <2>3, <3>1, <3>2 DEF AllServed
    <3>3. CASE ~Served(c)
      BY <2>1, <2>3, <3>1, <3>3, LeftOut
    <3> QED  BY <3>2, <3>3
  <2>4. ASSUME req.kind = "tag", NEW k \in DOMAIN req.page, NEW l \in DOMAIN req.page,
               k < l, req.page[k].post = req.page[l].post
        PROVE  {req.page[k].copy, req.page[l].copy} \cap Uriless # {}
    <3>1. SUFFICES ASSUME req.page[k].copy \notin Uriless, req.page[l].copy \notin Uriless
                   PROVE  FALSE
      OBVIOUS
    <3>2. PostOf[req.page[k].copy] = PostOf[req.page[l].copy]
      BY <2>1, <2>4, ShownParts
    <3>3. Key(req.page[k].copy) = Key(req.page[l].copy)
      BY <3>1, <3>2 DEF Key
    <3>4. /\ at[k] \in DOMAIN req.list /\ at[l] \in DOMAIN req.list /\ at[k] < at[l]
          /\ req.list[at[k]] = req.page[k].copy /\ req.list[at[l]] = req.page[l].copy
      BY <2>2, <2>4
    <3>5. at[k] = at[l]
      BY <2>1, <2>4, <3>3, <3>4 DEF PagesInv, Single
    <3>6. at[k] \in Int
      BY <2>1, <3>4, ShownParts
    <3> QED  BY <3>4, <3>5, <3>6
  <2> QED  BY <2>2, <2>3, <2>4 DEF PageFollowsRanking
<1> QED  BY <1>1, PagesInvHolds, PTL

(* translate_response gives an answer of Mastodon's as a whole or not at   *)
(* all: each item that nobody changed meanwhile under its snowflake, and a *)
(* reply naming its parent by the id that the parent has in that answer,   *)
(* although the items are translated one statement after another.          *)
THEOREM ContextsWhole == Spec => []ContextWhole
<1>1. PagesInv => ContextWhole
  <2>1. SUFFICES ASSUME PagesInv, At("shown"), req.items # <<>>, NEW k \in DOMAIN req.page,
                        req.page[k].post \notin req.touched
                 PROVE  /\ req.page[k].id = Back(req.items[k].id)
                        /\ \A l \in DOMAIN req.page :
                              /\ req.items[l].id = req.items[k].parent
                              /\ req.page[l].post \notin req.touched
                              => req.page[k].parent = req.page[l].id
    BY DEF ContextWhole
  <2>2. /\ TableInv /\ Items /\ Translation
        /\ req.page \in Seq(Entries) /\ req.items \in Seq(Entries)
    BY <2>1 DEF PagesInv, Places, Requests
  <2>3. Len(req.page) <= Len(req.items) /\ DOMAIN req.page \subseteq DOMAIN req.items
    BY <2>1, <2>2 DEF Translation
  <2>4. req.page[k].id = Back(req.items[k].id)
    BY <2>1, <2>2 DEF Translation
  <2>5. ASSUME NEW l \in DOMAIN req.page, req.items[l].id = req.items[k].parent,
               req.page[l].post \notin req.touched
        PROVE  req.page[k].parent = req.page[l].id
    <3>1. req.page[l].id = Back(req.items[l].id) /\ req.page[l].post = req.items[l].post
      BY <2>1, <2>2, <2>5 DEF Translation
    <3>2. req.items[l].id \in DOMAIN meaning /\ meaning[req.items[l].id] = Status(req.items[l].post)
      BY <2>2, <2>3, <2>5 DEF Items
    <3>3. meaning[req.items[k].parent].post \notin req.touched
      BY <2>5, <3>1, <3>2 DEF Status
    <3>4. req.items[k].parent # Null
      BY <2>2, <2>5, <3>2 DEF TableInv, TableTyped, Null
    <3>5. req.page[k].parent = Back(req.items[k].parent)
      BY <2>1, <2>2, <3>3, <3>4 DEF Translation
    <3> QED  BY <2>5, <3>1, <3>5
  <2> QED  BY <2>4, <2>5
<1> QED  BY <1>1, PagesInvHolds, PTL
=============================================================================
