--------------------------- MODULE HomeFeedProofs ---------------------------
(***************************************************************************)
(* The home timeline for every number of requests, every set of posts and  *)
(* rankings, every length of the seen list and every mixture of failures:  *)
(* what a scroll repeats, withholds and ends on, and how long a block      *)
(* lasts.  At the end, the breaker of the cache that holds pool and seen   *)
(* list, for any tasks and any threshold.                                  *)
(***************************************************************************)
EXTENDS HomeFeed, CacheBreaker, SublistsProofs

Early == Collecting \cup {"restore"}

RequestType ==
    [pc : Pcs, reload : BOOLEAN, limit : Limits \cup {1}, policy : SUBSET Posts,
     list : Lists, known : SUBSET Posts, chosen : Lists, answer : Seq(Posts),
     prev : Seq(Posts), offers : SUBSET Rankings]

\* TypeOK with what it leaves open.
Typed ==
    /\ TypeOK
    /\ req \in [Requests -> RequestType]
    /\ seen \in Seq(Posts) /\ log \in Seq(Posts)
    /\ \A r \in Requests :
          /\ req[r].pc \in Early \cup {"render"} => req[r].limit \in Limits
          /\ req[r].pc \notin {"load", "extend", "answer"} => req[r].answer = <<>>

\* Requests came one after the other.
Single ==
    "overlap" \notin faults =>
        \A r, q \in Requests : r # q => req[r].pc = "idle" \/ req[q].pc = "idle"

\* What a request has read of the seen list still is the seen list, and what
\* it has chosen has regard to it.
FollowsSeen(q) ==
    /\ q.pc \in {"rebuild", "restore"} => q.known = Elements(seen)
    /\ q.pc \in {"render", "load", "extend"} /\ ~q.reload =>
          Elements(q.chosen) \cap Elements(seen) = {}
    /\ q.pc = "extend" => q.prev = seen

\* The seen list is what was chosen.
InStep ==
    Undisturbed => log = seen /\ \A r \in Requests : FollowsSeen(req[r])

\* What a request has read of the seen list was spent, and so is all that was
\* collected where nothing is chosen out of it.
Accounted(q) ==
    /\ q.known \subseteq Spent
    /\ q.pc = "extend" => Elements(q.prev) \subseteq Spent
    /\ q.pc = "restore" =>
          \E o \in q.offers : Elements(o) \ q.policy \subseteq Elements(q.list)
    /\ q.pc \in {"render", "load"} /\ q.chosen = <<>> =>
          \E o \in q.offers : Elements(o) \ blocked \subseteq Spent

\* The ranking that is on offer now was offered to every request under way.
Offered(q) == q.pc \notin Served => offer \in q.offers

HomeInv ==
    /\ Typed /\ Single /\ InStep
    /\ Elements(seen) \subseteq Spent
    /\ \A r \in Requests : Accounted(req[r]) /\ Offered(req[r])

----------------------------------------------------------------------------
LEMMA ListsSeq ==
    /\ Cardinality(Posts) \in Nat
    /\ \A s : s \in Lists <=> s \in Seq(Posts) /\ Len(s) <= Cardinality(Posts)
    /\ <<>> \in Lists
<1>1. Cardinality(Posts) \in Nat
  BY CardinalityNat, RankingAssumption
<1>2. ASSUME NEW s, s \in Lists
      PROVE  s \in Seq(Posts) /\ Len(s) <= Cardinality(Posts)
  <2>1. PICK n \in 0..Cardinality(Posts) : s \in [1..n -> Posts]
    BY <1>2 DEF Lists
  <2> QED  BY <1>1, <2>1
<1>3. ASSUME NEW s \in Seq(Posts), Len(s) <= Cardinality(Posts)
      PROVE  s \in Lists
  <2>1. Len(s) \in 0..Cardinality(Posts) /\ s \in [1..Len(s) -> Posts]
    BY <1>1, <1>3
  <2> QED  BY <2>1 DEF Lists
<1>4. <<>> \in Lists
  <2>1. <<>> \in Seq(Posts) /\ Len(<<>>) = 0
    OBVIOUS
  <2>2. Len(<<>>) <= Cardinality(Posts)
    BY <1>1, <2>1
  <2> QED  BY <1>3, <2>1, <2>2, Zenon
<1>5. \A s : s \in Lists => s \in Seq(Posts) /\ Len(s) <= Cardinality(Posts)
  BY <1>2, Zenon
<1>6. \A s : s \in Seq(Posts) /\ Len(s) <= Cardinality(Posts) => s \in Lists
  BY <1>3, Zenon
<1> QED  BY <1>1, <1>4, <1>5, <1>6, Zenon

LEMMA RankingsAreLists == Rankings \subseteq Lists
<1> SUFFICES ASSUME NEW ranking \in Rankings PROVE ranking \in Lists
  OBVIOUS
<1>1. ranking \in Seq(Posts) /\ \A i, j \in DOMAIN ranking : ranking[i] = ranking[j] => i = j
  BY RankingAssumption
<1>2. Len(ranking) \in Nat /\ DOMAIN ranking = 1..Len(ranking)
      /\ ranking \in [1..Len(ranking) -> Posts]
  BY <1>1
<1>3. ranking \in Injection(1..Len(ranking), Posts)
  BY <1>1, <1>2 DEF Injection, IsInjective
<1>4. Cardinality(1..Len(ranking)) <= Cardinality(Posts)
  BY <1>3, RankingAssumption, FS_Injection
<1>5. Cardinality(1..Len(ranking)) = Len(ranking)
  BY <1>2, FS_Interval
<1> QED  BY <1>1, <1>4, <1>5, ListsSeq

LEMMA CollectedParts ==
    ASSUME NEW r \in Requests, offer \in Rankings
    PROVE  /\ Collected(r) \in Lists
           /\ Elements(Collected(r)) = Elements(offer) \ req[r].policy
<1>1. offer \in Seq(Posts) /\ offer \in Lists
  BY RankingsAreLists, ListsSeq
<1> DEFINE S == Posts \ req[r].policy
           list == Collected(r)
<1> HIDE DEF S
<1>2. /\ list \in Seq(Posts) /\ Len(list) <= Len(offer)
      /\ \A k \in DOMAIN list : list[k] \in S /\ \E i \in DOMAIN offer : list[k] = offer[i]
      /\ \A i \in DOMAIN offer : offer[i] \in S => \E k \in DOMAIN list : list[k] = offer[i]
  <2>1. list = Only(offer, S)
    BY DEF Collected, S
  <2> QED  BY <1>1, <2>1, OnlyParts
<1> HIDE DEF list
<1>3. list \in Lists
  BY <1>1, <1>2, ListsSeq
<1>4. \A i \in DOMAIN offer : offer[i] \in Posts
  BY <1>1
<1>5. Elements(list) = Elements(offer) \ req[r].policy
  BY <1>2, <1>4 DEF Elements, S
<1> QED  BY <1>3, <1>5 DEF list

LEMMA SliceParts ==
    ASSUME NEW list \in Lists, NEW q, q.limit \in Nat \ {0}
    PROVE  /\ Slice(list, q) \in Lists /\ Len(Slice(list, q)) <= q.limit
           /\ Elements(Slice(list, q)) \subseteq Elements(list)
           /\ \A p \in Elements(Slice(list, q)) :
                 (q.reload /\ p \in Network) \/ p \notin q.known
           /\ Slice(list, q) = <<>> => Elements(list) \subseteq q.known
<1> DEFINE S == {p \in Posts : (q.reload /\ p \in Network) \/ p \notin q.known}
           kept == Keep(list, q.reload, q.known)
           n == IF Len(kept) < q.limit THEN Len(kept) ELSE q.limit
           slice == SubSeq(kept, 1, n)
<1>1. list \in Seq(Posts) /\ Len(list) <= Cardinality(Posts)
  BY ListsSeq
<1>2. \A p : p \in S <=> p \in Posts /\ ((q.reload /\ p \in Network) \/ p \notin q.known)
  OBVIOUS
<1> HIDE DEF S
<1>3. /\ kept \in Seq(Posts) /\ Len(kept) <= Len(list)
      /\ \A k \in DOMAIN kept : kept[k] \in S /\ \E i \in DOMAIN list : kept[k] = list[i]
      /\ \A i \in DOMAIN list : list[i] \in S => \E k \in DOMAIN kept : kept[k] = list[i]
  BY <1>1, OnlyParts DEF Keep, S
<1> HIDE DEF kept
<1>4. n \in 0..Len(kept) /\ n <= q.limit /\ (n = 0 <=> Len(kept) = 0)
  BY <1>3
<1> HIDE DEF n
<1>5. slice \in Seq(Posts) /\ Len(slice) = n /\ \A k \in 1..n : slice[k] = kept[k]
  BY <1>3, <1>4
<1>6. slice \in Lists /\ Len(slice) <= q.limit
  <2>1. Len(slice) <= Cardinality(Posts)
    BY <1>1, <1>3, <1>4, <1>5, ListsSeq
  <2> QED  BY <1>4, <1>5, <2>1, ListsSeq
<1>7. DOMAIN slice = 1..n /\ 1..n \subseteq DOMAIN kept
  BY <1>3, <1>4, <1>5
<1> HIDE DEF slice
<1>8. \A k \in DOMAIN slice : slice[k] \in S /\ \E i \in DOMAIN list : slice[k] = list[i]
  BY <1>3, <1>5, <1>7
<1>9. ASSUME slice = <<>>, NEW i \in DOMAIN list PROVE list[i] \in q.known
  <2>1. n = 0 /\ DOMAIN kept = {}
    BY <1>3, <1>4, <1>5, <1>9
  <2> QED  BY <1>1, <1>2, <1>3, <2>1
<1>10. Slice(list, q) = slice
  BY DEF Slice, slice, kept, n
<1> QED  BY <1>2, <1>6, <1>8, <1>9, <1>10 DEF Elements

LEMMA NewestParts ==
    ASSUME NEW s \in Seq(Posts)
    PROVE  /\ Newest(s) \in Seq(Posts) /\ Len(Newest(s)) <= Cap
           /\ Elements(Newest(s)) \subseteq Elements(s)
<1>1. CASE Len(s) > Cap
  <2> DEFINE m == Len(s) - Cap + 1
  <2>1. m \in 1..Len(s) /\ Len(s) - m + 1 = Cap
    BY <1>1, HomeAssumption
  <2>2. Newest(s) = SubSeq(s, m, Len(s))
    BY <1>1 DEF Newest
  <2> HIDE DEF m
  <2>3. /\ SubSeq(s, m, Len(s)) \in Seq(Posts) /\ Len(SubSeq(s, m, Len(s))) = Cap
        /\ \A k \in 1..Cap : /\ SubSeq(s, m, Len(s))[k] = s[m + k - 1]
                             /\ m + k - 1 \in DOMAIN s
    BY <2>1, HomeAssumption
  <2> DEFINE t == SubSeq(s, m, Len(s))
  <2>4. DOMAIN t = 1..Cap
    BY <2>3
  <2> HIDE DEF t
  <2>5. Elements(t) \subseteq Elements(s)
    BY <2>3, <2>4 DEF Elements, t
  <2>6. Newest(s) = t /\ t \in Seq(Posts) /\ Len(t) = Cap /\ Cap \in Nat
    BY <2>2, <2>3, HomeAssumption DEF t
  <2> QED  BY <2>5, <2>6
<1>2. CASE ~(Len(s) > Cap)
  BY <1>2, HomeAssumption DEF Newest
<1> QED  BY <1>1, <1>2

LEMMA ConcatParts ==
    ASSUME NEW s \in Seq(Posts), NEW t \in Seq(Posts)
    PROVE  s \o t \in Seq(Posts) /\ Elements(s \o t) \subseteq Elements(s) \cup Elements(t)
<1>1. /\ s \o t \in Seq(Posts) /\ Len(s \o t) = Len(s) + Len(t)
      /\ \A k \in 1..(Len(s) + Len(t)) :
            (s \o t)[k] = IF k <= Len(s) THEN s[k] ELSE t[k - Len(s)]
  OBVIOUS
<1>2. ASSUME NEW k \in DOMAIN (s \o t)
      PROVE  (s \o t)[k] \in Elements(s) \cup Elements(t)
  <2>1. CASE k <= Len(s)
    <3>1. k \in DOMAIN s /\ (s \o t)[k] = s[k]
      BY <1>1, <2>1
    <3> QED  BY <3>1 DEF Elements
  <2>2. CASE ~(k <= Len(s))
    <3>1. k - Len(s) \in DOMAIN t /\ (s \o t)[k] = t[k - Len(s)]
      BY <1>1, <2>2
    <3> QED  BY <3>1 DEF Elements
  <2> QED  BY <2>1, <2>2
<1> QED  BY <1>1, <1>2 DEF Elements

----------------------------------------------------------------------------
USE DEF HomeInv

TroubleTyped ==
    /\ used' \in 0..MaxDisruptions /\ faults' \subseteq ToldApart
    /\ faults \subseteq faults'

LEMMA SufferEffect ==
    ASSUME Typed, NEW kinds, IsFiniteSet(kinds), Suffer(kinds)
    PROVE  TroubleTyped /\ faults' = faults \cup (kinds \cap ToldApart)
<1>1. IsFiniteSet(kinds \ {"overlap"})
  BY FS_Subset
<1>2. Cardinality(kinds \ {"overlap"}) \in Nat
  BY <1>1, CardinalityNat
<1>3. used' \in 0..MaxDisruptions
  BY <1>2, HomeAssumption DEF Suffer, Typed, TypeOK
<1>4. faults' = faults \cup (kinds \cap ToldApart)
  BY DEF Suffer
<1> QED  BY <1>3, <1>4 DEF TroubleTyped, Typed, TypeOK

LEMMA DisruptEffect ==
    ASSUME Typed, NEW d, Disrupt(d)
    PROVE  TroubleTyped /\ faults' = faults \cup ({d} \cap ToldApart)
<1>1. IsFiniteSet({d})
  BY FS_Singleton
<1> QED  BY <1>1, SufferEffect DEF Disrupt

LEMMA QuietEffect == ASSUME Typed, UNCHANGED trouble PROVE TroubleTyped /\ faults' = faults
BY DEF Typed, TypeOK, TroubleTyped, trouble

LEMMA GotEffect ==
    ASSUME Typed, NEW entry, NEW value, Got(entry, value)
    PROVE  /\ TroubleTyped /\ faults' \subseteq faults \cup {"get"}
           /\ value \in {entry, <<>>} /\ ("get" \notin faults' => value = entry)
BY DisruptEffect, QuietEffect DEF Got, ToldApart

LEMMA StoredEffect ==
    ASSUME Typed, NEW entry, NEW value, NEW result, Stored(entry, value, result)
    PROVE  /\ TroubleTyped /\ faults' \subseteq faults \cup {"set"}
           /\ result \in {entry, value} /\ ("set" \notin faults' => result = value)
BY DisruptEffect, QuietEffect DEF Stored, ToldApart

LEMMA IdleTyped == Idle \in RequestType /\ Idle.pc = "idle" /\ Idle.policy = {}
    /\ Idle.list = <<>> /\ Idle.chosen = <<>> /\ Idle.answer = <<>> /\ Idle.known = {}
<1>1. <<>> \in Lists /\ <<>> \in Seq(Posts)
  BY ListsSeq
<1> QED  BY <1>1 DEF Idle, RequestType, Pcs

----------------------------------------------------------------------------
\* What a record of a request must be like for its type to go on holding.
Sound(q) ==
    /\ q.policy \subseteq blocked
    /\ q.chosen = <<>> \/ \E n \in Limits : Len(q.chosen) <= n
    /\ Elements(q.answer) \subseteq Elements(q.chosen)
    /\ q.pc \in Early \cup {"render"} => q.limit \in Limits
    /\ q.pc \notin {"load", "extend", "answer"} => q.answer = <<>>

(* The invariant says these things of every request.                       *)
LEMMA HomeInvParts ==
    ASSUME HomeInv, NEW r \in Requests
    PROVE  /\ req[r] \in RequestType /\ Sound(req[r])
           /\ Undisturbed => FollowsSeen(req[r])
           /\ Accounted(req[r]) /\ Offered(req[r])
<1>1. req[r] \in RequestType /\ Sound(req[r])
  BY DEF Typed, TypeOK, Sound
<1> QED  BY <1>1 DEF InStep

LEMMA StateTyped ==
    ASSUME HomeInv
    PROVE  /\ offer \in Rankings /\ pool \in Lists /\ blocked \subseteq Blockable
           /\ seen \in Seq(Posts) /\ Len(seen) <= Cap /\ log \in Seq(Posts)
           /\ req \in [Requests -> RequestType]
           /\ Undisturbed => log = seen
           /\ Elements(seen) \subseteq Spent
BY DEF Typed, TypeOK, InStep

LEMMA TypedByParts ==
    ASSUME TroubleTyped, offer' \in Rankings, pool' \in Lists, blocked' \subseteq Blockable,
           seen' \in Seq(Posts), Len(seen') <= Cap, log' \in Seq(Posts),
           req' \in [Requests -> RequestType],
           \A r \in Requests : Sound(req[r])'
    PROVE  Typed'
<1>1. Elements(seen)' \subseteq Posts
  BY DEF Elements
<1>2. \A r \in Requests :
          /\ req'[r].pc \in Pcs /\ req'[r].limit \in Limits \cup {1}
          /\ req'[r].list \in Lists /\ req'[r].known \subseteq Posts
          /\ req'[r].chosen \in Lists
  BY DEF RequestType
<1>3. TypeOK'
  BY <1>1, <1>2 DEF TypeOK, TroubleTyped, Sound
<1> QED  BY <1>3 DEF Typed, Sound

LEMMA HomeInvByParts ==
    ASSUME TroubleTyped, offer' \in Rankings, pool' \in Lists, blocked' \subseteq Blockable,
           seen' \in Seq(Posts), Len(seen') <= Cap, log' \in Seq(Posts),
           req' \in [Requests -> RequestType],
           \A r \in Requests :
               /\ Sound(req[r])'
               /\ Undisturbed' => FollowsSeen(req[r])'
               /\ Accounted(req[r])' /\ Offered(req[r])',
           Single', Undisturbed' => log' = seen', (Elements(seen) \subseteq Spent)'
    PROVE  HomeInv'
<1>1. Typed'
  BY TypedByParts
<1>2. InStep'
  BY DEF InStep
<1> QED  BY <1>1, <1>2

(* Faults are only ever added.                                             *)
LEMMA FaultsStay == ASSUME TroubleTyped PROVE Undisturbed' => Undisturbed
BY DEF TroubleTyped, Undisturbed

(* What was spent stays spent, as long as the request that steps keeps     *)
(* account of what it is about to answer.                                  *)
LEMMA SpentGrows ==
    ASSUME delivered \subseteq delivered', lost \subseteq lost', NEW r \in Requests,
           \A q \in Requests \ {r} : req'[q] = req[q],
           Pending(r) \subseteq delivered' \cup lost' \cup Pending(r)'
    PROVE  Spent \subseteq Spent'
<1> SUFFICES ASSUME NEW p \in Spent PROVE p \in Spent'
  OBVIOUS
<1>1. CASE p \in delivered \cup lost
  BY <1>1 DEF Spent
<1>2. ASSUME NEW q \in Requests, p \in Pending(q) PROVE p \in Spent'
  <2>1. CASE q = r
    BY <1>2, <2>1 DEF Spent, Answering
  <2>2. CASE q # r
    <3>1. Pending(q)' = Pending(q)
      BY <2>2 DEF Pending, Elements
    <3> QED  BY <1>2, <3>1 DEF Spent, Answering
  <2> QED  BY <2>1, <2>2
<1> QED  BY <1>1, <1>2 DEF Spent, Answering

(* Of the requests that a step leaves as they are, nothing changes.        *)
LEMMA OthersSound ==
    ASSUME HomeInv, TroubleTyped, blocked \subseteq blocked', Spent \subseteq Spent',
           offer' = offer, NEW q \in Requests, req'[q] = req[q],
           Undisturbed' => seen' = seen \/ req[q].pc = "idle"
    PROVE  /\ Sound(req[q])'
           /\ Undisturbed' => FollowsSeen(req[q])'
           /\ Accounted(req[q])' /\ Offered(req[q])'
<1>1. Sound(req[q])'
  BY HomeInvParts DEF Sound
<1>2. Undisturbed' => FollowsSeen(req[q])'
  <2> SUFFICES ASSUME Undisturbed' PROVE FollowsSeen(req[q])'
    OBVIOUS
  <2>1. Undisturbed /\ FollowsSeen(req[q])
    BY HomeInvParts, FaultsStay
  <2>2. CASE seen' = seen
    BY <2>1, <2>2 DEF FollowsSeen, Elements
  <2>3. CASE req[q].pc = "idle"
    BY <2>3 DEF FollowsSeen
  <2> QED  BY <2>2, <2>3
<1>3. Accounted(req[q])'
  <2>1. Accounted(req[q])
    BY HomeInvParts
  <2>2. ASSUME NEW o, Elements(o) \ blocked \subseteq Spent
        PROVE  Elements(o) \ blocked' \subseteq Spent'
    BY <2>2
  <2>3. /\ Elements(req'[q].prev) = Elements(req[q].prev)
        /\ Elements(req'[q].list) = Elements(req[q].list)
    OBVIOUS
  <2> QED  BY <2>1, <2>2, <2>3 DEF Accounted
<1>4. Offered(req[q])'
  BY HomeInvParts DEF Offered
<1> QED  BY <1>1, <1>2, <1>3, <1>4

(* A step of a request that leaves the seen list alone.                    *)
LEMMA OwnStep ==
    ASSUME HomeInv, NEW r \in Requests, NEW next \in RequestType,
           req' = [req EXCEPT ![r] = next],
           req[r].pc = "idle" /\ "overlap" \notin faults' => Alone(r),
           TroubleTyped, pool' \in Lists, UNCHANGED <<offer, blocked, seen, log>>,
           delivered \subseteq delivered', lost \subseteq lost',
           Pending(r) \subseteq delivered' \cup lost' \cup Pending(r)',
           Sound(next), Undisturbed' => FollowsSeen(next), Accounted(next), Offered(next)
    PROVE  HomeInv'
<1>1. /\ req' \in [Requests -> RequestType] /\ req'[r] = next
      /\ \A q \in Requests \ {r} : req'[q] = req[q]
  BY DEF Typed
<1>2. Spent \subseteq Spent'
  BY <1>1, SpentGrows
<1>3. ASSUME NEW q \in Requests
      PROVE  /\ Sound(req[q])'
             /\ Undisturbed' => FollowsSeen(req[q])'
             /\ Accounted(req[q])' /\ Offered(req[q])'
  <2>1. CASE q = r
    <3>1. Sound(req[q])' /\ Offered(req[q])'
      BY <1>1, <2>1 DEF Sound, Offered
    <3>2. Undisturbed' => FollowsSeen(req[q])'
      BY <1>1, <2>1 DEF FollowsSeen, Elements
    <3>3. ASSUME NEW o, Elements(o) \ blocked \subseteq Spent
          PROVE  Elements(o) \ blocked' \subseteq Spent'
      BY <1>2, <3>3
    <3>4. Accounted(req[q])'
      BY <1>1, <1>2, <2>1, <3>3 DEF Accounted
    <3> QED  BY <3>1, <3>2, <3>4
  <2>2. CASE q # r
    BY <1>1, <1>2, <2>2, OthersSound
  <2> QED  BY <2>1, <2>2
<1>4. Single'
  BY <1>1 DEF Single, TroubleTyped, Alone
<1>5. (Elements(seen) \subseteq Spent)'
  BY <1>2, StateTyped DEF Elements
<1> QED  BY <1>1, <1>3, <1>4, <1>5, StateTyped, FaultsStay, HomeInvByParts

(* A request that is not about to answer has nothing to keep account of.   *)
LEMMA QuietStep ==
    ASSUME HomeInv, NEW r \in Requests, NEW next \in RequestType,
           req' = [req EXCEPT ![r] = next], req[r].pc # "answer",
           req[r].pc = "idle" /\ "overlap" \notin faults' => Alone(r),
           TroubleTyped, pool' \in Lists,
           UNCHANGED <<offer, blocked, seen, log, delivered, lost>>,
           Sound(next), Undisturbed' => FollowsSeen(next), Accounted(next), Offered(next)
    PROVE  HomeInv'
<1>1. Pending(r) = {}
  BY DEF Pending
<1> QED  BY <1>1, OwnStep

----------------------------------------------------------------------------
LEMMA InitHomeInv == Init => HomeInv
<1> SUFFICES ASSUME Init PROVE HomeInv
  OBVIOUS
<1>1. /\ \A r \in Requests : req[r] = Idle /\ req[r].pc = "idle" /\ req[r].answer = <<>>
      /\ req \in [Requests -> RequestType]
  BY IdleTyped DEF Init
<1>2. <<>> \in Lists /\ <<>> \in Seq(Posts) /\ Elements(<<>>) = {} /\ Len(<<>>) = 0
  BY ListsSeq DEF Elements
<1>3. Typed
  <2>1. offer \in Rankings /\ pool \in Lists /\ blocked \subseteq Blockable
        /\ Elements(seen) \subseteq Posts /\ Len(seen) <= Cap
    BY <1>2, HomeAssumption DEF Init
  <2>2. used \in 0..MaxDisruptions /\ faults \subseteq ToldApart
    BY HomeAssumption DEF Init
  <2>3. \A r \in Requests :
          /\ req[r].pc \in Pcs /\ req[r].limit \in Limits \cup {1}
          /\ req[r].list \in Lists /\ req[r].policy \subseteq blocked
          /\ req[r].known \subseteq Posts
          /\ req[r].chosen \in Lists /\ req[r].chosen = <<>>
          /\ Elements(req[r].answer) \subseteq Elements(req[r].chosen)
    BY <1>1, <1>2 DEF Idle, Pcs
  <2>4. seen \in Seq(Posts) /\ log \in Seq(Posts)
    BY <1>2 DEF Init
  <2> QED  BY <1>1, <2>1, <2>2, <2>3, <2>4 DEF Typed, TypeOK, Early, Collecting
<1>4. Single /\ InStep
  BY <1>1 DEF Single, InStep, FollowsSeen, Init
<1>5. ASSUME NEW r \in Requests PROVE Accounted(req[r]) /\ Offered(req[r])
  BY <1>1, IdleTyped DEF Accounted, Offered, Served
<1>6. Elements(seen) \subseteq Spent
  BY <1>2 DEF Init
<1> QED  BY <1>3, <1>4, <1>5, <1>6

LEMMA RequestStep == ASSUME HomeInv, NEW r \in Requests, Request(r) PROVE HomeInv'
<1>1. PICK reload \in Reloads, limit \in Limits, policy \in {blocked, {}},
           failed \in SUBSET {"policy"} :
        /\ Policy(policy, failed)
        /\ Suffer(failed \cup (IF Alone(r) THEN {} ELSE {"overlap"}))
        /\ req' = [req EXCEPT ![r] =
              [@ EXCEPT !.pc = "pool", !.reload = reload, !.limit = limit,
                        !.policy = policy, !.offers = {offer}]]
  BY DEF Request
<1> DEFINE kinds == failed \cup (IF Alone(r) THEN {} ELSE {"overlap"})
           next == [req[r] EXCEPT !.pc = "pool", !.reload = reload, !.limit = limit,
                                  !.policy = policy, !.offers = {offer}]
<1>2. TroubleTyped /\ ("overlap" \notin faults' => Alone(r))
  <2>1. IsFiniteSet({"policy"} \cup {"overlap"})
    BY FS_Singleton, FS_AddElement, Zenon
  <2>2. IsFiniteSet(kinds)
    <3>1. kinds \in SUBSET ({"policy"} \cup {"overlap"})
      OBVIOUS
    <3> HIDE DEF kinds
    <3> QED  BY <2>1, <3>1, FS_Subset, Zenon
  <2>3. TroubleTyped /\ faults' = faults \cup (kinds \cap ToldApart)
    BY <1>1, <2>2, SufferEffect
  <2> QED  BY <2>3 DEF ToldApart
<1>3. req[r].pc = "idle" /\ UNCHANGED <<offer, blocked, pool, seen, log, delivered, lost>>
  BY DEF Request
<1>4. req[r] \in RequestType /\ Sound(req[r]) /\ Accounted(req[r])
  BY HomeInvParts
<1>5. next \in RequestType
  BY <1>1, <1>4, StateTyped, RankingAssumption, HomeAssumption DEF RequestType, Pcs
<1>6. /\ next.pc = "pool" /\ next.policy = policy /\ next.limit = limit
      /\ next.offers = {offer} /\ next.known = req[r].known
      /\ next.chosen = req[r].chosen /\ next.answer = req[r].answer
  BY <1>4 DEF RequestType
<1>7. req' = [req EXCEPT ![r] = next]
  BY <1>1
<1> HIDE DEF next
<1>8. Sound(next)
  BY <1>3, <1>4, <1>6 DEF Sound
<1>9. FollowsSeen(next) /\ Accounted(next) /\ Offered(next)
  BY <1>4, <1>6 DEF FollowsSeen, Accounted, Offered
<1> QED  BY <1>2, <1>3, <1>5, <1>7, <1>8, <1>9, StateTyped, QuietStep

LEMMA LoadPoolStep == ASSUME HomeInv, NEW r \in Requests, LoadPool(r) PROVE HomeInv'
<1>1. PICK hit \in {pool, <<>>} :
        /\ Got(pool, hit)
        /\ req' = [req EXCEPT ![r] =
              [@ EXCEPT !.pc = IF hit = <<>> THEN "build" ELSE "seen", !.list = hit]]
  BY DEF LoadPool
<1> DEFINE goesTo == IF hit = <<>> THEN "build" ELSE "seen"
           next == [req[r] EXCEPT !.pc = goesTo, !.list = hit]
<1>2. TroubleTyped
  BY <1>1, GotEffect
<1>3. req[r].pc = "pool" /\ UNCHANGED <<offer, blocked, pool, seen, log, delivered, lost>>
  BY DEF LoadPool
<1>4. /\ req[r] \in RequestType /\ Sound(req[r])
      /\ Accounted(req[r]) /\ offer \in req[r].offers
  BY <1>3, HomeInvParts DEF Offered, Served
<1>5. hit \in Lists
  BY StateTyped, ListsSeq
<1>6. goesTo \in {"build", "seen"}
  OBVIOUS
<1> HIDE DEF goesTo
<1>7. /\ next \in RequestType /\ next.pc = goesTo /\ next.policy = req[r].policy
      /\ next.limit = req[r].limit /\ next.offers = req[r].offers
      /\ next.known = req[r].known /\ next.chosen = req[r].chosen
      /\ next.answer = req[r].answer
  BY <1>4, <1>5, <1>6 DEF RequestType, Pcs
<1>8. req' = [req EXCEPT ![r] = next]
  BY <1>1 DEF goesTo
<1> HIDE DEF next
<1>9. Sound(next)
  BY <1>3, <1>4, <1>6, <1>7 DEF Sound, Early, Collecting
<1>10. FollowsSeen(next) /\ Accounted(next) /\ Offered(next)
  BY <1>4, <1>6, <1>7 DEF FollowsSeen, Accounted, Offered
<1> QED  BY <1>2, <1>3, <1>7, <1>8, <1>9, <1>10, StateTyped, QuietStep

(* What was collected is, at that moment, all that is on offer.            *)
LEMMA CollectStep == ASSUME HomeInv, NEW r \in Requests, Collect(r) PROVE HomeInv'
<1> DEFINE list == Collected(r)
           goesTo == IF req[r].pc = "build" THEN "store" ELSE "restore"
           next == [req[r] EXCEPT !.pc = goesTo, !.list = list]
<1>1. /\ req[r].pc \in {"build", "rebuild"}
      /\ UNCHANGED <<offer, blocked, pool, seen, log, delivered, lost, trouble>>
      /\ req' = [req EXCEPT ![r] = next]
  BY DEF Collect
<1>2. TroubleTyped
  BY <1>1, QuietEffect
<1>3. /\ req[r] \in RequestType /\ Sound(req[r])
      /\ Undisturbed' => FollowsSeen(req[r])
      /\ Accounted(req[r]) /\ offer \in req[r].offers
  BY <1>1, <1>2, HomeInvParts, FaultsStay DEF Offered, Served
<1>4. list \in Lists /\ Elements(list) = Elements(offer) \ req[r].policy
  BY StateTyped, CollectedParts
<1>5. goesTo \in {"store", "restore"} /\ (goesTo = "restore" => req[r].pc = "rebuild")
  BY <1>1
<1> HIDE DEF list, goesTo
<1>6. /\ next \in RequestType /\ next.pc = goesTo /\ next.policy = req[r].policy
      /\ next.limit = req[r].limit /\ next.offers = req[r].offers /\ next.list = list
      /\ next.known = req[r].known /\ next.chosen = req[r].chosen
      /\ next.answer = req[r].answer
  BY <1>3, <1>4, <1>5 DEF RequestType, Pcs
<1> HIDE DEF next
<1>7. Sound(next)
  BY <1>1, <1>3, <1>5, <1>6 DEF Sound, Early, Collecting
<1>8. Undisturbed' => FollowsSeen(next)
  BY <1>3, <1>5, <1>6 DEF FollowsSeen
<1>9. Accounted(next) /\ Offered(next)
  BY <1>3, <1>4, <1>5, <1>6 DEF Accounted, Offered
<1> QED  BY <1>1, <1>2, <1>6, <1>7, <1>8, <1>9, StateTyped, QuietStep

LEMMA StoreStep == ASSUME HomeInv, NEW r \in Requests, Store(r) PROVE HomeInv'
<1> DEFINE next == [req[r] EXCEPT !.pc = "seen"]
<1>1. /\ req[r].pc = "store" /\ UNCHANGED <<offer, blocked, seen, log, delivered, lost>>
      /\ Stored(pool, req[r].list, pool') /\ req' = [req EXCEPT ![r] = next]
  BY DEF Store
<1>2. TroubleTyped /\ pool' \in {pool, req[r].list}
  BY <1>1, StoredEffect
<1>3. /\ req[r] \in RequestType /\ Sound(req[r])
      /\ Accounted(req[r]) /\ offer \in req[r].offers
  BY <1>1, HomeInvParts DEF Offered, Served
<1>4. /\ next \in RequestType /\ next.pc = "seen" /\ next.policy = req[r].policy
      /\ next.limit = req[r].limit /\ next.offers = req[r].offers
      /\ next.known = req[r].known /\ next.chosen = req[r].chosen
      /\ next.answer = req[r].answer
  BY <1>3 DEF RequestType, Pcs
<1> HIDE DEF next
<1>5. pool' \in Lists
  BY <1>2, <1>3, StateTyped DEF RequestType
<1>6. Sound(next)
  BY <1>1, <1>3, <1>4 DEF Sound, Early, Collecting
<1>7. FollowsSeen(next) /\ Accounted(next) /\ Offered(next)
  BY <1>3, <1>4 DEF FollowsSeen, Accounted, Offered
<1> QED  BY <1>1, <1>2, <1>4, <1>5, <1>6, <1>7, QuietStep

LEMMA LoadSeenStep == ASSUME HomeInv, NEW r \in Requests, LoadSeen(r) PROVE HomeInv'
<1>1. PICK got \in {seen, <<>>} :
        /\ Got(seen, got)
        /\ LET q == [req[r] EXCEPT !.known = Elements(got)]
           IN \E chosen \in {Slice(q.list, q)} :
                 req' = [req EXCEPT ![r] =
                    [q EXCEPT !.pc = IF chosen = <<>> THEN "rebuild" ELSE "render",
                              !.chosen = chosen]]
  BY DEF LoadSeen
<1> DEFINE known == Elements(got)
           q == [req[r] EXCEPT !.known = known]
           chosen == Slice(q.list, q)
           goesTo == IF chosen = <<>> THEN "rebuild" ELSE "render"
           next == [q EXCEPT !.pc = goesTo, !.chosen = chosen]
<1>2. req[r].pc = "seen" /\ UNCHANGED <<offer, blocked, pool, seen, log, delivered, lost>>
  BY DEF LoadSeen
<1>3. TroubleTyped /\ ("get" \notin faults' => got = seen)
  BY <1>1, GotEffect
<1>4. /\ req[r] \in RequestType /\ Sound(req[r])
      /\ Accounted(req[r]) /\ offer \in req[r].offers
  BY <1>2, HomeInvParts DEF Offered, Served
<1>5. /\ known \subseteq Posts
      /\ Undisturbed' => known = Elements(seen)
      /\ known \subseteq Spent
  <2>1. got \in Seq(Posts) /\ Elements(<<>>) = {}
    <3>1. <<>> \in Seq(Posts) /\ Elements(<<>>) = {}
      BY DEF Elements
    <3> QED  BY <3>1, StateTyped
  <2>2. known \subseteq Posts
    BY <2>1 DEF Elements
  <2>3. Undisturbed' => got = seen
    BY <1>3 DEF Undisturbed
  <2>4. known \subseteq Spent
    BY <2>1, StateTyped
  <2> QED  BY <2>2, <2>3, <2>4
<1>6. req' = [req EXCEPT ![r] = next]
  BY <1>1
<1> HIDE DEF known
<1>7. /\ q \in RequestType /\ q.known = known /\ q.limit = req[r].limit /\ q.list \in Lists
      /\ q.policy = req[r].policy /\ q.offers = req[r].offers /\ q.answer = req[r].answer
      /\ q.reload = req[r].reload
  BY <1>4, <1>5 DEF RequestType
<1> HIDE DEF q
<1>8. req[r].limit \in Limits /\ req[r].limit \in Nat \ {0} /\ req[r].answer = <<>>
  BY <1>2, <1>4, HomeAssumption DEF Sound, Early, Collecting
<1>9. /\ chosen \in Lists /\ Len(chosen) <= req[r].limit
      /\ \A p \in Elements(chosen) : (req[r].reload /\ p \in Network) \/ p \notin known
  BY <1>7, <1>8, SliceParts
<1>10. goesTo \in {"rebuild", "render"} /\ (goesTo = "render" => chosen # <<>>)
  OBVIOUS
<1> HIDE DEF chosen, goesTo
<1>11. /\ next \in RequestType /\ next.pc = goesTo /\ next.policy = req[r].policy
       /\ next.limit = req[r].limit /\ next.offers = req[r].offers
       /\ next.known = known /\ next.chosen = chosen /\ next.answer = req[r].answer
       /\ next.reload = req[r].reload
  BY <1>7, <1>9, <1>10 DEF RequestType, Pcs
<1> HIDE DEF next
<1>12. Sound(next)
  <2>1. Elements(next.answer) = {}
    BY <1>8, <1>11 DEF Elements
  <2> QED  BY <1>4, <1>8, <1>9, <1>10, <1>11, <2>1 DEF Sound, Early
<1>13. Undisturbed' => FollowsSeen(next)
  BY <1>5, <1>9, <1>10, <1>11 DEF FollowsSeen
<1>14. Accounted(next) /\ Offered(next)
  BY <1>4, <1>5, <1>10, <1>11 DEF Accounted, Offered
<1> QED  BY <1>2, <1>3, <1>6, <1>11, <1>12, <1>13, <1>14, StateTyped, QuietStep

(* Where nothing is chosen of a ranking that was on offer, everything in it *)
(* was spent before or is blocked.                                         *)
LEMMA RestoreStep == ASSUME HomeInv, NEW r \in Requests, Restore(r) PROVE HomeInv'
<1> DEFINE list == req[r].list
           chosen == Slice(list, req[r])
           next == [req[r] EXCEPT !.pc = "render", !.chosen = chosen]
<1>1. /\ req[r].pc = "restore" /\ UNCHANGED <<offer, blocked, seen, log, delivered, lost>>
      /\ Stored(pool, list, pool') /\ req' = [req EXCEPT ![r] = next]
  BY DEF Restore
<1>2. TroubleTyped /\ pool' \in {pool, list}
  BY <1>1, StoredEffect
<1>3. /\ req[r] \in RequestType /\ Sound(req[r])
      /\ Undisturbed' => FollowsSeen(req[r])
      /\ Accounted(req[r]) /\ offer \in req[r].offers
  BY <1>1, <1>2, HomeInvParts, FaultsStay DEF Offered, Served
<1>4. list \in Lists /\ \E o \in req[r].offers : Elements(o) \ req[r].policy \subseteq Elements(list)
  BY <1>1, <1>3 DEF RequestType, Accounted
<1> HIDE DEF list
<1>5. req[r].limit \in Limits /\ req[r].limit \in Nat \ {0} /\ req[r].answer = <<>>
  BY <1>1, <1>3, HomeAssumption DEF Sound, Early
<1>6. /\ chosen \in Lists /\ Len(chosen) <= req[r].limit
      /\ \A p \in Elements(chosen) : (req[r].reload /\ p \in Network) \/ p \notin req[r].known
      /\ chosen = <<>> => Elements(list) \subseteq req[r].known
  BY <1>4, <1>5, SliceParts
<1> HIDE DEF chosen
<1>7. /\ next \in RequestType /\ next.pc = "render" /\ next.policy = req[r].policy
      /\ next.limit = req[r].limit /\ next.offers = req[r].offers
      /\ next.known = req[r].known /\ next.chosen = chosen /\ next.answer = req[r].answer
      /\ next.reload = req[r].reload
  BY <1>3, <1>4, <1>6 DEF RequestType, Pcs
<1> HIDE DEF next
<1>8. Sound(next)
  <2>1. Elements(next.answer) = {}
    BY <1>5, <1>7 DEF Elements
  <2> QED  BY <1>3, <1>5, <1>6, <1>7, <2>1 DEF Sound, Early
<1>9. Undisturbed' => FollowsSeen(next)
  BY <1>1, <1>3, <1>6, <1>7 DEF FollowsSeen
<1>10. Accounted(next) /\ Offered(next)
  <2>1. req[r].known \subseteq Spent /\ req[r].policy \subseteq blocked
    BY <1>3 DEF Accounted, Sound
  <2>2. chosen = <<>> => \E o \in req[r].offers : Elements(o) \ blocked \subseteq Spent
    BY <1>4, <1>6, <2>1
  <2> QED  BY <1>3, <1>7, <2>1, <2>2 DEF Accounted, Offered
<1> QED  BY <1>1, <1>2, <1>4, <1>7, <1>8, <1>9, <1>10, StateTyped, QuietStep

LEMMA RenderStep == ASSUME HomeInv, NEW r \in Requests, Render(r) PROVE HomeInv'
<1>1. PICK kept \in SUBSET Elements(req[r].chosen) :
        /\ Rendered(req[r], Only(req[r].chosen, kept))
        /\ req' = [req EXCEPT ![r] =
              [@ EXCEPT !.pc = "load", !.answer = Only(req[r].chosen, kept), !.list = <<>>,
                        !.known = {}, !.policy = {}, !.limit = 1]]
  BY DEF Render
<1> DEFINE answer == Only(req[r].chosen, kept)
           next == [req[r] EXCEPT !.pc = "load", !.answer = answer, !.list = <<>>,
                                  !.known = {}, !.policy = {}, !.limit = 1]
<1>2. req[r].pc = "render" /\ UNCHANGED <<offer, blocked, pool, seen, log, delivered, lost>>
  BY DEF Render
<1>3. TroubleTyped
  BY <1>1, QuietEffect, DisruptEffect DEF Rendered
<1>4. /\ req[r] \in RequestType /\ Sound(req[r])
      /\ Undisturbed' => FollowsSeen(req[r])
      /\ Accounted(req[r]) /\ offer \in req[r].offers
  BY <1>2, <1>3, HomeInvParts, FaultsStay DEF Offered, Served
<1>5. answer \in Seq(Posts) /\ Elements(answer) \subseteq Elements(req[r].chosen)
  <2>1. req[r].chosen \in Seq(Posts)
    BY <1>4, ListsSeq DEF RequestType
  <2> QED  BY <2>1, OnlyParts DEF Elements
<1>6. req' = [req EXCEPT ![r] = next]
  BY <1>1
<1> HIDE DEF answer
<1>7. /\ next \in RequestType /\ next.pc = "load" /\ next.policy = {} /\ next.known = {}
      /\ next.offers = req[r].offers /\ next.chosen = req[r].chosen /\ next.answer = answer
      /\ next.reload = req[r].reload
  <2>1. <<>> \in Lists
    BY ListsSeq
  <2> QED  BY <1>4, <1>5, <2>1 DEF RequestType, Pcs
<1> HIDE DEF next
<1>8. Sound(next)
  BY <1>4, <1>5, <1>7 DEF Sound, Early, Collecting
<1>9. Undisturbed' => FollowsSeen(next)
  BY <1>2, <1>4, <1>7 DEF FollowsSeen
<1>10. Accounted(next) /\ Offered(next)
  BY <1>2, <1>4, <1>7 DEF Accounted, Offered
<1> QED  BY <1>2, <1>3, <1>6, <1>7, <1>8, <1>9, <1>10, StateTyped, QuietStep

LEMMA BackToIdle ==
    ASSUME HomeInv, NEW r \in Requests, req[r].pc # "idle", req' = [req EXCEPT ![r] = Idle],
           TroubleTyped, UNCHANGED <<offer, blocked, pool, seen, log>>,
           delivered \subseteq delivered', lost \subseteq lost',
           Pending(r) \subseteq delivered' \cup lost'
    PROVE  HomeInv'
<1>1. Sound(Idle)
  BY IdleTyped DEF Sound, Early, Collecting, Elements
<1>2. FollowsSeen(Idle) /\ Accounted(Idle) /\ Offered(Idle)
  BY IdleTyped DEF FollowsSeen, Accounted, Offered, Served
<1> QED  BY <1>1, <1>2, IdleTyped, StateTyped, OwnStep

LEMMA ReadSeenStep == ASSUME HomeInv, NEW r \in Requests, ReadSeen(r) PROVE HomeInv'
<1>1. req[r].pc = "load" /\ UNCHANGED <<offer, blocked, pool, seen, log, delivered, lost>>
  BY DEF ReadSeen
<1>2. CASE req' = [req EXCEPT ![r] = Idle] /\ UNCHANGED trouble
  <2>1. Pending(r) = {}
    BY <1>1 DEF Pending
  <2> QED  BY <1>1, <1>2, <2>1, QuietEffect, BackToIdle
<1>3. ASSUME NEW got \in {seen, <<>>}, Got(seen, got),
             req' = [req EXCEPT ![r] = [@ EXCEPT !.pc = "extend", !.prev = got, !.offers = {}]]
      PROVE  HomeInv'
  <2> DEFINE next == [req[r] EXCEPT !.pc = "extend", !.prev = got, !.offers = {}]
  <2>1. TroubleTyped /\ ("get" \notin faults' => got = seen)
    BY <1>3, GotEffect
  <2>2. /\ req[r] \in RequestType /\ Sound(req[r])
        /\ Undisturbed' => FollowsSeen(req[r])
        /\ Accounted(req[r])
    BY <1>1, <2>1, HomeInvParts, FaultsStay
  <2>3. got \in Seq(Posts) /\ Elements(got) \subseteq Spent
    <3>1. Elements(<<>>) = {} /\ <<>> \in Seq(Posts)
      BY DEF Elements
    <3> QED  BY <3>1, StateTyped
  <2>4. /\ next \in RequestType /\ next.pc = "extend" /\ next.policy = req[r].policy
        /\ next.known = req[r].known /\ next.chosen = req[r].chosen
        /\ next.answer = req[r].answer /\ next.prev = got /\ next.reload = req[r].reload
    BY <2>2, <2>3 DEF RequestType, Pcs
  <2>5. req' = [req EXCEPT ![r] = next]
    BY <1>3
  <2> HIDE DEF next
  <2>6. Sound(next)
    BY <1>1, <2>2, <2>4 DEF Sound, Early, Collecting
  <2>7. Undisturbed' => FollowsSeen(next)
    <3>1. Undisturbed' => got = seen
      BY <2>1 DEF Undisturbed
    <3> QED  BY <1>1, <2>2, <2>4, <3>1 DEF FollowsSeen
  <2>8. Accounted(next) /\ Offered(next)
    BY <2>2, <2>3, <2>4 DEF Accounted, Offered, Served
  <2> QED  BY <1>1, <2>1, <2>4, <2>5, <2>6, <2>7, <2>8, StateTyped, QuietStep
<1> QED  BY <1>2, <1>3 DEF ReadSeen

(* The list is written: of what it holds now, the request that wrote it    *)
(* answers for the posts of its page, and the others of them are lost.     *)
LEMMA ExtendStep == ASSUME HomeInv, NEW r \in Requests, Extend(r) PROVE HomeInv'
<1> DEFINE q == req[r]
           marked == Newest(q.prev \o q.chosen)
           logged == Newest(log \o q.chosen)
           next == [Idle EXCEPT !.pc = "answer", !.chosen = q.chosen,
                                !.answer = q.answer, !.prev = seen']
<1>1. /\ q.pc = "extend" /\ UNCHANGED <<offer, blocked, pool, delivered>>
      /\ Stored(seen, marked, seen')
      /\ log' = IF Undisturbed THEN logged ELSE <<>>
      /\ lost' = lost \cup ((Elements(q.chosen) \cap Elements(seen')) \ Elements(q.answer))
      /\ req' = [req EXCEPT ![r] = next]
  BY DEF Extend
<1>2. /\ TroubleTyped /\ seen' \in {seen, marked}
      /\ "set" \notin faults' => seen' = marked
  BY <1>1, StoredEffect
<1>3. /\ q \in RequestType /\ Sound(q) /\ Accounted(q)
      /\ Undisturbed' => FollowsSeen(q)
  BY <1>2, HomeInvParts, FaultsStay
<1>4. /\ q.prev \in Seq(Posts) /\ q.chosen \in Seq(Posts)
      /\ seen \in Seq(Posts) /\ log \in Seq(Posts)
  BY <1>3, StateTyped, ListsSeq DEF RequestType
<1>5. /\ marked \in Seq(Posts) /\ Len(marked) <= Cap
      /\ Elements(marked) \subseteq Elements(q.prev) \cup Elements(q.chosen)
      /\ logged \in Seq(Posts)
  <2>1. /\ q.prev \o q.chosen \in Seq(Posts) /\ log \o q.chosen \in Seq(Posts)
        /\ Elements(q.prev \o q.chosen) \subseteq Elements(q.prev) \cup Elements(q.chosen)
    BY <1>4, ConcatParts
  <2> HIDE DEF q
  <2> QED  BY <2>1, NewestParts
<1>6. seen' \in Seq(Posts) /\ Len(seen') <= Cap
  <2> HIDE DEF marked
  <2> QED  BY <1>2, <1>5, StateTyped
<1>7. /\ next \in RequestType /\ next.pc = "answer" /\ next.chosen = q.chosen
      /\ next.answer = q.answer /\ next.prev = seen' /\ next.policy = {} /\ next.known = {}
  <2> DEFINE new == seen'
  <2>1. new \in Seq(Posts)
    BY <1>6
  <2> HIDE DEF q, new
  <2>2. LET n == [Idle EXCEPT !.pc = "answer", !.chosen = q.chosen,
                              !.answer = q.answer, !.prev = new]
        IN /\ n \in RequestType /\ n.pc = "answer" /\ n.chosen = q.chosen
           /\ n.answer = q.answer /\ n.prev = new /\ n.policy = {} /\ n.known = {}
    BY <1>3, <2>1, IdleTyped DEF RequestType, Pcs
  <2> QED  BY <2>2 DEF new
<1> HIDE DEF next
<1>8. /\ req' \in [Requests -> RequestType] /\ req'[r] = next
      /\ \A x \in Requests \ {r} : req'[x] = req[x]
  BY <1>1, <1>7, StateTyped
<1>9. Pending(r) = {} /\ Pending(r)' = Elements(q.answer) \cap Elements(seen')
  <2>1. Pending(r) = {}
    BY <1>1 DEF Pending
  <2>2. Pending(r)' = Elements(req'[r].answer) \cap Elements(req'[r].prev)
    BY <1>7, <1>8 DEF Pending, Elements
  <2> QED  BY <1>7, <1>8, <2>1, <2>2
<1>10. Spent \subseteq Spent' /\ Elements(seen') \subseteq Spent'
  <2>1. Spent \subseteq Spent'
    BY <1>1, <1>8, <1>9, SpentGrows
  <2>2. Elements(q.prev) \subseteq Spent' /\ Elements(seen) \subseteq Spent'
    BY <1>1, <1>3, <2>1, StateTyped DEF Accounted
  <2>3. Elements(q.chosen) \cap Elements(seen') \subseteq Spent'
    BY <1>1, <1>9 DEF Spent, Answering
  <2>4. Elements(seen') \subseteq Elements(seen) \cup Elements(q.prev) \cup Elements(q.chosen)
    <3> HIDE DEF marked
    <3> QED  BY <1>2, <1>5
  <2> QED  BY <2>1, <2>2, <2>3, <2>4
<1>11. Undisturbed' => log' = seen'
  <2> SUFFICES ASSUME Undisturbed' PROVE log' = seen'
    OBVIOUS
  <2>1. Undisturbed /\ "set" \notin faults' /\ q.prev = seen
    BY <1>1, <1>2, <1>3, FaultsStay DEF Undisturbed, FollowsSeen
  <2>2. log = seen
    BY <2>1, StateTyped
  <2>3. logged = marked
    BY <2>1, <2>2
  <2> QED  BY <1>1, <1>2, <2>1, <2>3
<1>12. ASSUME NEW x \in Requests
       PROVE  /\ Sound(req[x])'
              /\ Undisturbed' => FollowsSeen(req[x])'
              /\ Accounted(req[x])' /\ Offered(req[x])'
  <2>1. CASE x = r
    <3>1. Sound(req[x])'
      BY <1>3, <1>7, <1>8, <2>1 DEF Sound, Early, Collecting
    <3> QED  BY <1>7, <1>8, <2>1, <3>1 DEF FollowsSeen, Accounted, Offered, Served
  <2>2. CASE x # r
    <3>1. Undisturbed' => req[x].pc = "idle"
      BY <1>1, <1>2, <2>2 DEF Single, Undisturbed, TroubleTyped
    <3> QED  BY <1>1, <1>2, <1>8, <1>10, <2>2, <3>1, OthersSound
  <2> QED  BY <2>1, <2>2
<1>13. Single'
  <2>1. ASSUME "overlap" \notin faults', NEW x \in Requests \ {r} PROVE req'[x].pc = "idle"
    BY <1>1, <1>2, <1>8, <2>1 DEF Single, TroubleTyped
  <2> QED  BY <1>8, <2>1 DEF Single
<1>14. /\ offer' \in Rankings /\ pool' \in Lists /\ blocked' \subseteq Blockable
       /\ log' \in Seq(Posts) /\ (Elements(seen) \subseteq Spent)'
  <2>1. <<>> \in Seq(Posts)
    OBVIOUS
  <2>2. (Elements(seen) \subseteq Spent)'
    BY <1>10 DEF Elements
  <2> HIDE DEF marked, logged
  <2> QED  BY <1>1, <1>5, <2>1, <2>2, StateTyped
<1> QED  BY <1>2, <1>6, <1>8, <1>11, <1>12, <1>13, <1>14, HomeInvByParts

(* The page is answered, and so is what it had marked.                     *)
LEMMA AnswerStep == ASSUME HomeInv, NEW r \in Requests, Answer(r) PROVE HomeInv'
<1>1. /\ req[r].pc = "answer" /\ UNCHANGED <<offer, blocked, pool, seen, log, lost, trouble>>
      /\ delivered' = delivered \cup Elements(req[r].answer)
      /\ req' = [req EXCEPT ![r] = Idle]
  BY DEF Answer
<1>2. Pending(r) \subseteq delivered'
  BY <1>1 DEF Pending
<1> QED  BY <1>1, <1>2, QuietEffect, BackToIdle

----------------------------------------------------------------------------
LEMMA NewOfferStep == ASSUME HomeInv, NewOffer PROVE HomeInv'
<1>1. /\ offer' \in Rankings /\ UNCHANGED <<blocked, pool, seen, log, delivered, lost, trouble>>
      /\ req' = [r \in Requests |->
            IF req[r].pc \in Served THEN req[r]
            ELSE [req[r] EXCEPT !.offers = @ \cup {offer'}]]
  BY DEF NewOffer
<1>2. TroubleTyped
  BY <1>1, QuietEffect
<1>3. ASSUME NEW r \in Requests
      PROVE  /\ req'[r] \in RequestType
             /\ req'[r].pc = req[r].pc /\ req[r].offers \subseteq req'[r].offers
             /\ req[r].pc \notin Served => offer' \in req'[r].offers
             /\ req'[r].reload = req[r].reload /\ req'[r].limit = req[r].limit
             /\ req'[r].policy = req[r].policy /\ req'[r].known = req[r].known
             /\ req'[r].chosen = req[r].chosen /\ req'[r].answer = req[r].answer
             /\ req'[r].prev = req[r].prev /\ req'[r].list = req[r].list
  <2>1. req[r] \in RequestType
    BY StateTyped
  <2>2. CASE req[r].pc \in Served
    BY <1>1, <2>1, <2>2
  <2>3. CASE req[r].pc \notin Served
    <3> DEFINE new == offer'
               next == [req[r] EXCEPT !.offers = @ \cup {new}]
    <3>1. req'[r] = next /\ new \in Rankings
      BY <1>1, <2>3
    <3> HIDE DEF new
    <3>2. /\ next \in RequestType /\ next.pc = req[r].pc
          /\ next.offers = req[r].offers \cup {new}
          /\ next.reload = req[r].reload /\ next.limit = req[r].limit
          /\ next.policy = req[r].policy /\ next.known = req[r].known
          /\ next.chosen = req[r].chosen /\ next.answer = req[r].answer
          /\ next.prev = req[r].prev /\ next.list = req[r].list
      BY <2>1, <3>1 DEF RequestType
    <3> HIDE DEF next
    <3> QED  BY <3>1, <3>2 DEF new
  <2> QED  BY <2>2, <2>3
<1>4. req' \in [Requests -> RequestType]
  <2>1. req' = [r \in Requests |-> req'[r]]
    BY <1>1
  <2> QED  BY <1>3, <2>1
<1>5. Spent' = Spent
  <2>1. ASSUME NEW r \in Requests PROVE Pending(r)' = Pending(r)
    <3>1. /\ req'[r].pc = req[r].pc /\ req'[r].answer = req[r].answer
          /\ req'[r].prev = req[r].prev
      BY <1>3
    <3> QED  BY <3>1 DEF Pending, Elements
  <2> QED  BY <1>1, <2>1 DEF Spent, Answering
<1>6. ASSUME NEW r \in Requests
      PROVE  /\ Sound(req[r])'
             /\ Undisturbed' => FollowsSeen(req[r])'
             /\ Accounted(req[r])' /\ Offered(req[r])'
  <2>1. Sound(req[r])'
    BY <1>1, <1>3, HomeInvParts DEF Sound
  <2>2. Undisturbed' => FollowsSeen(req[r])'
    BY <1>1, <1>2, <1>3, HomeInvParts, FaultsStay DEF FollowsSeen, Elements
  <2>3. Accounted(req[r])'
    <3>1. /\ Elements(req'[r].prev) = Elements(req[r].prev)
          /\ Elements(req'[r].list) = Elements(req[r].list)
      BY <1>3
    <3> QED  BY <1>1, <1>3, <1>5, <3>1, HomeInvParts DEF Accounted
  <2>4. Offered(req[r])'
    BY <1>3 DEF Offered
  <2> QED  BY <2>1, <2>2, <2>3, <2>4
<1>7. Single'
  BY <1>2, <1>3 DEF Single, TroubleTyped
<1>8. Undisturbed' => log' = seen'
  BY <1>1, <1>2, StateTyped, FaultsStay
<1>9. (Elements(seen) \subseteq Spent)'
  BY <1>1, <1>5, StateTyped DEF Elements
<1> QED  BY <1>1, <1>2, <1>4, <1>6, <1>7, <1>8, <1>9, StateTyped, HomeInvByParts

(* What else happens, and a stuttering step: no request is touched.        *)
LEMMA OutsideStep ==
    ASSUME HomeInv, Block \/ PoolExpires \/ SeenExpires \/ UNCHANGED vars
    PROVE  HomeInv'
<1>1. TroubleTyped
  BY QuietEffect, DisruptEffect DEF Block, PoolExpires, SeenExpires, vars
<1>2. UNCHANGED <<offer, req, log, delivered, lost>>
  BY DEF Block, PoolExpires, SeenExpires, vars
<1>3. /\ blocked \subseteq blocked' /\ blocked' \subseteq Blockable
      /\ pool' \in {pool, <<>>} /\ seen' \in {seen, <<>>}
  BY StateTyped DEF Block, PoolExpires, SeenExpires, vars
<1>4. Undisturbed' => seen' = seen
  <2>1. CASE SeenExpires
    BY <2>1, DisruptEffect DEF SeenExpires, Undisturbed, ToldApart
  <2>2. CASE Block \/ PoolExpires \/ UNCHANGED vars
    BY <2>2 DEF Block, PoolExpires, vars
  <2> QED  BY <2>1, <2>2
<1>5. <<>> \in Lists /\ <<>> \in Seq(Posts) /\ Elements(<<>>) = {} /\ Len(<<>>) <= Cap
  BY ListsSeq, HomeAssumption DEF Elements
<1>6. /\ offer' \in Rankings /\ pool' \in Lists /\ blocked' \subseteq Blockable
      /\ seen' \in Seq(Posts) /\ Len(seen') <= Cap /\ log' \in Seq(Posts)
      /\ req' \in [Requests -> RequestType]
  BY <1>2, <1>3, <1>5, StateTyped
<1>7. Spent' = Spent
  <2>1. \A r \in Requests : Pending(r)' = Pending(r)
    BY <1>2 DEF Pending, Elements
  <2> QED  BY <1>2, <2>1 DEF Spent, Answering
<1>8. ASSUME NEW r \in Requests
      PROVE  /\ Sound(req[r])'
             /\ Undisturbed' => FollowsSeen(req[r])'
             /\ Accounted(req[r])' /\ Offered(req[r])'
  BY <1>1, <1>2, <1>3, <1>4, <1>7, OthersSound
<1>9. Single'
  BY <1>1, <1>2 DEF Single, TroubleTyped
<1>10. Undisturbed' => log' = seen'
  BY <1>1, <1>2, <1>4, StateTyped, FaultsStay
<1>11. (Elements(seen) \subseteq Spent)'
  <2>1. Elements(seen') \subseteq Spent
    BY <1>3, <1>5, StateTyped
  <2> QED  BY <1>7, <2>1 DEF Elements
<1> QED  BY <1>1, <1>6, <1>8, <1>9, <1>10, <1>11, HomeInvByParts

(* Hanging up before the answer loses what was marked already.             *)
LEMMA CancelStep == ASSUME HomeInv, NEW r \in Requests, Cancel(r) PROVE HomeInv'
<1>1. TroubleTyped
  BY DisruptEffect DEF Cancel
<1> QED  BY <1>1, BackToIdle DEF Cancel

LEMMA NextHomeInv == HomeInv /\ [Next]_vars => HomeInv'
<1> SUFFICES ASSUME HomeInv, [Next]_vars PROVE HomeInv'
  OBVIOUS
<1>1. ASSUME NEW r \in Requests, Serve(r) PROVE HomeInv'
  BY <1>1, RequestStep, LoadPoolStep, CollectStep, StoreStep, LoadSeenStep, RestoreStep,
     RenderStep, ReadSeenStep, ExtendStep, AnswerStep DEF Serve
<1>2. ASSUME NEW r \in Requests, Cancel(r) PROVE HomeInv'
  BY <1>2, CancelStep
<1>3. CASE NewOffer
  BY <1>3, NewOfferStep
<1>4. CASE Block \/ PoolExpires \/ SeenExpires \/ UNCHANGED vars
  BY <1>4, OutsideStep
<1> QED  BY <1>1, <1>2, <1>3, <1>4 DEF Next

LEMMA HomeInvHolds == Spec => []HomeInv
BY InitHomeInv, NextHomeInv, PTL DEF Spec

----------------------------------------------------------------------------
\* A request that has the post, or may yet collect it.
Carries(q, p) ==
    \/ p \in Elements(q.list) \cup Elements(q.chosen)
    \/ q.pc \in Collecting /\ p \notin q.policy

LEMMA CirculatesParts ==
    ASSUME NEW p
    PROVE  Circulates(p) <=> p \in Elements(pool) \/ \E r \in Requests : Carries(req[r], p)
BY DEF Circulates, Carries

LEMMA NotCarried ==
    ASSUME HomeInv, NEW r \in Requests, NEW next, NEW p, ~Circulates(p),
           req' = [req EXCEPT ![r] = next], ~Carries(next, p), p \notin Elements(pool')
    PROVE  ~Circulates(p)'
<1>1. req'[r] = next /\ \A q \in Requests \ {r} : req'[q] = req[q]
  BY StateTyped
<1>2. ASSUME NEW q \in Requests PROVE ~Carries(req'[q], p)
  BY <1>1, CirculatesParts
<1> QED  BY <1>2 DEF Circulates, Carries, Elements

LEMMA NoElements == Elements(<<>>) = {} /\ \A p : ~Carries(Idle, p)
<1>1. Elements(<<>>) = {}
  BY DEF Elements
<1> QED  BY <1>1, IdleTyped DEF Carries, Collecting

(* A blocked post that is nowhere under way is not collected again, since  *)
(* the policies of all requests that may still collect exclude it.         *)
LEMMA ServeKeepsOut ==
    ASSUME HomeInv, NEW r \in Requests, Serve(r), NEW p \in blocked,
           ~Circulates(p), "policy" \notin faults'
    PROVE  ~Circulates(p)'
<1>1. /\ p \notin Elements(pool) /\ ~Carries(req[r], p)
      /\ req[r] \in RequestType /\ offer \in Rankings
  BY CirculatesParts, StateTyped
<1>2. ASSUME Request(r) PROVE ~Circulates(p)'
  <2>1. PICK reload \in Reloads, limit \in Limits, policy \in {blocked, {}},
             failed \in SUBSET {"policy"} :
          /\ Policy(policy, failed)
          /\ Suffer(failed \cup (IF Alone(r) THEN {} ELSE {"overlap"}))
          /\ req' = [req EXCEPT ![r] =
                [@ EXCEPT !.pc = "pool", !.reload = reload, !.limit = limit,
                          !.policy = policy, !.offers = {offer}]]
    BY <1>2 DEF Request
  <2>2. policy = blocked
    BY <2>1 DEF Policy, Suffer, ToldApart
  <2> DEFINE next == [req[r] EXCEPT !.pc = "pool", !.reload = reload, !.limit = limit,
                                    !.policy = policy, !.offers = {offer}]
  <2>3. next.list = req[r].list /\ next.chosen = req[r].chosen /\ next.policy = policy
    BY <1>1 DEF RequestType
  <2>4. req' = [req EXCEPT ![r] = next] /\ pool' = pool
    BY <1>2, <2>1 DEF Request
  <2> HIDE DEF next
  <2> QED  BY <1>1, <2>2, <2>3, <2>4, NotCarried DEF Carries
<1>3. ASSUME LoadPool(r) PROVE ~Circulates(p)'
  <2>1. PICK hit \in {pool, <<>>} :
          req' = [req EXCEPT ![r] =
              [@ EXCEPT !.pc = IF hit = <<>> THEN "build" ELSE "seen", !.list = hit]]
    BY <1>3 DEF LoadPool
  <2> DEFINE goesTo == IF hit = <<>> THEN "build" ELSE "seen"
             next == [req[r] EXCEPT !.pc = goesTo, !.list = hit]
  <2>2. p \in req[r].policy /\ pool' = pool
    BY <1>1, <1>3 DEF Carries, Collecting, LoadPool
  <2>3. req' = [req EXCEPT ![r] = next]
    BY <2>1
  <2> HIDE DEF goesTo
  <2>4. next.list = hit /\ next.chosen = req[r].chosen /\ next.policy = req[r].policy
    BY <1>1 DEF RequestType
  <2>5. p \notin Elements(hit)
    BY <1>1, NoElements
  <2> HIDE DEF next
  <2> QED  BY <1>1, <2>2, <2>3, <2>4, <2>5, NotCarried DEF Carries
<1>4. ASSUME Collect(r) PROVE ~Circulates(p)'
  <2> DEFINE list == Collected(r)
             goesTo == IF req[r].pc = "build" THEN "store" ELSE "restore"
             next == [req[r] EXCEPT !.pc = goesTo, !.list = list]
  <2>1. p \in req[r].policy
    BY <1>1, <1>4 DEF Carries, Collecting, Collect
  <2>2. list \in Lists /\ p \notin Elements(list)
    BY <1>1, <2>1, CollectedParts
  <2>3. req' = [req EXCEPT ![r] = next] /\ pool' = pool
    BY <1>4 DEF Collect
  <2> HIDE DEF list, goesTo
  <2>4. next.list = list /\ next.chosen = req[r].chosen /\ next.policy = req[r].policy
    BY <1>1 DEF RequestType
  <2> HIDE DEF next
  <2> QED  BY <1>1, <2>1, <2>2, <2>3, <2>4, NotCarried DEF Carries
<1>5. ASSUME Store(r) PROVE ~Circulates(p)'
  <2> DEFINE next == [req[r] EXCEPT !.pc = "seen"]
  <2>1. req' = [req EXCEPT ![r] = next] /\ pool' \in {pool, req[r].list}
    BY <1>5, StoredEffect DEF Store
  <2>2. p \in req[r].policy /\ p \notin Elements(req[r].list)
    BY <1>1, <1>5 DEF Carries, Collecting, Store
  <2>3. /\ next.list = req[r].list /\ next.chosen = req[r].chosen
        /\ next.policy = req[r].policy
    BY <1>1 DEF RequestType
  <2> HIDE DEF next
  <2> QED  BY <1>1, <2>1, <2>2, <2>3, NotCarried DEF Carries
<1>6. ASSUME Restore(r) PROVE ~Circulates(p)'
  <2> DEFINE list == req[r].list
             chosen == Slice(list, req[r])
             next == [req[r] EXCEPT !.pc = "render", !.chosen = chosen]
  <2>1. req' = [req EXCEPT ![r] = next] /\ pool' \in {pool, list}
    BY <1>6, StoredEffect DEF Restore
  <2>2. list \in Lists /\ p \notin Elements(list)
    BY <1>1 DEF Carries, RequestType
  <2>3. req[r].limit \in Nat \ {0}
    BY <1>6, HomeInvParts, HomeAssumption DEF Restore, Sound, Early
  <2>4. Elements(chosen) \subseteq Elements(list)
    <3> HIDE DEF list
    <3> QED  BY <2>2, <2>3, SliceParts
  <2> HIDE DEF chosen
  <2>5. next.list = list /\ next.chosen = chosen /\ next.pc = "render"
    BY <1>1 DEF RequestType
  <2> HIDE DEF next, list
  <2> QED  BY <1>1, <2>1, <2>2, <2>4, <2>5, NotCarried DEF Carries, Collecting
<1>7. ASSUME LoadSeen(r) PROVE ~Circulates(p)'
  <2>1. PICK got :
          LET q == [req[r] EXCEPT !.known = Elements(got)]
          IN \E chosen \in {Slice(q.list, q)} :
                req' = [req EXCEPT ![r] =
                   [q EXCEPT !.pc = IF chosen = <<>> THEN "rebuild" ELSE "render",
                             !.chosen = chosen]]
    BY <1>7 DEF LoadSeen
  <2> DEFINE known == Elements(got)
             q == [req[r] EXCEPT !.known = known]
             chosen == Slice(q.list, q)
             goesTo == IF chosen = <<>> THEN "rebuild" ELSE "render"
             next == [q EXCEPT !.pc = goesTo, !.chosen = chosen]
  <2>2. req' = [req EXCEPT ![r] = next] /\ pool' = pool
    BY <1>7, <2>1 DEF LoadSeen
  <2>3. req[r].limit \in Nat \ {0} /\ p \in req[r].policy
    BY <1>1, <1>7, HomeInvParts, HomeAssumption DEF LoadSeen, Sound, Early, Collecting, Carries
  <2> HIDE DEF known
  <2>4. /\ q.list = req[r].list /\ q.limit = req[r].limit /\ q.policy = req[r].policy
        /\ DOMAIN q = DOMAIN req[r] /\ "pc" \in DOMAIN q /\ "chosen" \in DOMAIN q
    BY <1>1 DEF RequestType
  <2>5. q.list \in Lists
    BY <1>1, <2>4 DEF RequestType
  <2> HIDE DEF q
  <2>6. Elements(chosen) \subseteq Elements(req[r].list)
    BY <2>3, <2>4, <2>5, SliceParts
  <2> HIDE DEF chosen, goesTo
  <2>7. next.list = req[r].list /\ next.chosen = chosen /\ next.policy = req[r].policy
    BY <2>4
  <2> HIDE DEF next
  <2> QED  BY <1>1, <2>2, <2>3, <2>6, <2>7, NotCarried DEF Carries
<1>8. ASSUME Render(r) PROVE ~Circulates(p)'
  <2>1. PICK answer :
          req' = [req EXCEPT ![r] = [@ EXCEPT !.pc = "load", !.answer = answer, !.list = <<>>,
                                              !.known = {}, !.policy = {}, !.limit = 1]]
    BY <1>8 DEF Render
  <2> DEFINE next == [req[r] EXCEPT !.pc = "load", !.answer = answer, !.list = <<>>,
                                    !.known = {}, !.policy = {}, !.limit = 1]
  <2>2. next.list = <<>> /\ next.chosen = req[r].chosen /\ next.pc = "load"
    BY <1>1 DEF RequestType
  <2>3. req' = [req EXCEPT ![r] = next] /\ pool' = pool
    BY <1>8, <2>1 DEF Render
  <2> HIDE DEF next
  <2> QED  BY <1>1, <2>2, <2>3, NoElements, NotCarried DEF Carries, Collecting
<1>9. ASSUME ReadSeen(r) PROVE ~Circulates(p)'
  <2>1. pool' = pool
    BY <1>9 DEF ReadSeen
  <2>2. CASE req' = [req EXCEPT ![r] = Idle]
    BY <1>1, <2>1, <2>2, NoElements, NotCarried
  <2>3. ASSUME NEW got,
               req' = [req EXCEPT ![r] = [@ EXCEPT !.pc = "extend", !.prev = got, !.offers = {}]]
        PROVE  ~Circulates(p)'
    <3> DEFINE next == [req[r] EXCEPT !.pc = "extend", !.prev = got, !.offers = {}]
    <3>1. next.list = req[r].list /\ next.chosen = req[r].chosen /\ next.pc = "extend"
      BY <1>1 DEF RequestType
    <3>2. req' = [req EXCEPT ![r] = next]
      BY <2>3
    <3> HIDE DEF next
    <3> QED  BY <1>1, <2>1, <3>1, <3>2, NotCarried DEF Carries, Collecting
  <2> QED  BY <1>9, <2>2, <2>3 DEF ReadSeen
<1>10. ASSUME Extend(r) PROVE ~Circulates(p)'
  <2> DEFINE next == [Idle EXCEPT !.pc = "answer", !.chosen = req[r].chosen,
                                  !.answer = req[r].answer, !.prev = seen']
  <2>1. req' = [req EXCEPT ![r] = next] /\ pool' = pool
    BY <1>10 DEF Extend
  <2>2. next.list = <<>> /\ next.chosen = req[r].chosen /\ next.pc = "answer"
    BY DEF Idle
  <2> HIDE DEF next
  <2> QED  BY <1>1, <2>1, <2>2, NoElements, NotCarried DEF Carries, Collecting
<1>11. ASSUME Answer(r) PROVE ~Circulates(p)'
  <2>1. req' = [req EXCEPT ![r] = Idle] /\ pool' = pool
    BY <1>11 DEF Answer
  <2> QED  BY <1>1, <2>1, NoElements, NotCarried
<1> QED  BY <1>2, <1>3, <1>4, <1>5, <1>6, <1>7, <1>8, <1>9, <1>10, <1>11 DEF Serve

LEMMA OthersKeepOut ==
    ASSUME HomeInv, NewOffer \/ Block \/ PoolExpires \/ SeenExpires, NEW p, ~Circulates(p)
    PROVE  ~Circulates(p)'
<1>1. pool' \in {pool, <<>>}
  BY DEF NewOffer, Block, PoolExpires, SeenExpires
<1>2. ASSUME NEW r \in Requests
      PROVE  /\ req'[r].list = req[r].list /\ req'[r].chosen = req[r].chosen
             /\ req'[r].pc = req[r].pc /\ req'[r].policy = req[r].policy
  <2>1. req[r] \in RequestType
    BY StateTyped
  <2>2. CASE NewOffer
    BY <2>1, <2>2 DEF NewOffer, RequestType
  <2>3. CASE Block \/ PoolExpires \/ SeenExpires
    BY <2>3 DEF Block, PoolExpires, SeenExpires
  <2> QED  BY <2>2, <2>3
<1> QED  BY <1>1, <1>2, NoElements DEF Circulates, Elements

----------------------------------------------------------------------------
(* The pool, the seen list and what requests hold are lists of the user's  *)
(* posts, a page is no longer than a client may ask for, and the seen list *)
(* never outgrows CAP, whatever interleaving of requests wrote it.         *)
THEOREM HomeTyped == Spec => []TypeOK
<1>1. HomeInv => TypeOK
  BY DEF Typed
<1> QED  BY <1>1, HomeInvHolds, PTL

(* Requests that come one after the other, with the seen list kept, never  *)
(* answer one of the last Cap posts again, but for a reload of the network *)
(* posts: the list extended after the page is what the next one reads.     *)
THEOREM ScrollsWithoutRepeats == Spec => []NoRepeat
<1>1. HomeInv => NoRepeat
  <2> SUFFICES ASSUME HomeInv, Undisturbed, NEW r \in Requests, req[r].pc = "extend",
                      ~req[r].reload
               PROVE  Elements(req[r].answer) \cap Elements(log) = {}
    BY DEF NoRepeat
  <2>1. Elements(req[r].answer) \subseteq Elements(req[r].chosen) /\ log = seen
    BY HomeInvParts, StateTyped DEF Sound
  <2>2. Elements(req[r].chosen) \cap Elements(seen) = {}
    BY HomeInvParts DEF FollowsSeen
  <2> QED  BY <2>1, <2>2
<1> QED  BY <1>1, HomeInvHolds, PTL

(* A post is withheld as seen only because it was answered, is about to    *)
(* be, or was lost in one of two ways: its status was not found when it    *)
(* was chosen, or the client hung up while its page waited for the seen    *)
(* list to be written.  No overlap of requests, no failing or forgetting   *)
(* cache and no hanging up before that costs the user a post.              *)
THEOREM OnlySeenWithheld == Spec => []SeenWasDelivered
<1>1. HomeInv => SeenWasDelivered
  BY DEF SeenWasDelivered, Accounted
<1> QED  BY <1>1, HomeInvHolds, PTL

(* Nothing is chosen for a page only where a ranking that was offered      *)
(* while it was served has nothing more for the user than what was         *)
(* answered, is about to be, was lost or is blocked.                       *)
THEOREM EmptyPageIsTheEnd == Spec => []EmptyOnlyIfExhausted
<1>1. HomeInv => EmptyOnlyIfExhausted
  BY DEF EmptyOnlyIfExhausted, Accounted
<1> QED  BY <1>1, HomeInvHolds, PTL

(* Once neither the pool nor a request under way has a post of a blocked   *)
(* author, no step of any request brings it back.                          *)
THEOREM BlocksHold == Spec => BlocksLast
<1> DEFINE Kept == \A p \in blocked : ~Circulates(p) /\ "policy" \notin faults' => ~Circulates(p)'
<1>1. HomeInv /\ [Next]_vars => [Kept]_vars
  <2> SUFFICES ASSUME HomeInv, Next, NEW p \in blocked, ~Circulates(p), "policy" \notin faults'
               PROVE  ~Circulates(p)'
    OBVIOUS
  <2>1. ASSUME NEW r \in Requests, Serve(r) PROVE ~Circulates(p)'
    BY <2>1, ServeKeepsOut
  <2>2. ASSUME NEW r \in Requests, Cancel(r) PROVE ~Circulates(p)'
    <3>1. req' = [req EXCEPT ![r] = Idle] /\ pool' = pool
      BY <2>2 DEF Cancel
    <3>2. p \notin Elements(pool)
      BY CirculatesParts
    <3> QED  BY <3>1, <3>2, NoElements, NotCarried
  <2>3. CASE NewOffer \/ Block \/ PoolExpires \/ SeenExpires
    BY <2>3, OthersKeepOut
  <2> QED  BY <2>1, <2>2, <2>3 DEF Next
<1> QED  BY <1>1, HomeInvHolds, PTL DEF Spec, BlocksLast

----------------------------------------------------------------------------
\* The circuit breaker that the feed reads and writes its two entries through.
\* The counter stands at the threshold throughout an outage, so every failure
\* sends its task through the store that opens the breaker again.
CounterHeld == outage => failures >= FailureThreshold

ProbeInv == BreakerTypeOK /\ CounterHeld /\ OneProbePerTask

LEMMA InitProbeInv == BreakerInit => ProbeInv
<1> SUFFICES ASSUME BreakerInit PROVE ProbeInv
  OBVIOUS
<1>1. BreakerTypeOK
  <2>1. redisUp \in BOOLEAN /\ outage \in BOOLEAN
    BY Zenon DEF BreakerInit
  <2>2. failures \in 0..MaxFailures /\ left \in 0..Cooldown
    BY BreakerAssumption DEF BreakerInit
  <2>3. pc \in [Tasks -> {"idle", "sent", "tripping"}] /\ probed \subseteq Tasks
    BY DEF BreakerInit
  <2> QED  BY <2>1, <2>2, <2>3, Zenon DEF BreakerTypeOK
<1>2. CounterHeld /\ OneProbePerTask
  BY Zenon DEF BreakerInit, CounterHeld, OneProbePerTask
<1> QED  BY <1>1, <1>2 DEF ProbeInv

LEMMA NextProbeInv == ProbeInv /\ [BreakerNext]_breakerVars => ProbeInv'
<1> SUFFICES ASSUME ProbeInv, [BreakerNext]_breakerVars PROVE ProbeInv'
  OBVIOUS
<1> USE BreakerAssumption DEF ProbeInv, BreakerTypeOK, CounterHeld, OneProbePerTask
<1>1. ASSUME NEW t \in Tasks, Send(t) PROVE ProbeInv'
  BY <1>1 DEF Send
<1>2. ASSUME NEW t \in Tasks, Succeed(t) PROVE ProbeInv'
  <2>1. BreakerTypeOK'
    <3>1. redisUp' \in BOOLEAN /\ outage' \in BOOLEAN
      BY <1>2, Zenon DEF Succeed
    <3>2. /\ failures' \in 0..MaxFailures /\ left' \in 0..Cooldown
          /\ pc' \in [Tasks -> {"idle", "sent", "tripping"}]
          /\ probed' \subseteq Tasks
      BY <1>2 DEF Succeed
    <3> QED  BY <3>1, <3>2, Zenon
  <2>2. (CounterHeld /\ OneProbePerTask)'
    BY <1>2, Zenon DEF Succeed
  <2> QED  BY <2>1, <2>2
<1>3. ASSUME NEW t \in Tasks, Fail(t) PROVE ProbeInv'
  <2>1. /\ failures' \in 0..MaxFailures
        /\ failures' >= failures
        /\ failures + 1 >= FailureThreshold => failures' >= FailureThreshold
    BY <1>3 DEF Fail
  <2>2. CASE failures + 1 >= FailureThreshold
    BY <1>3, <2>1, <2>2 DEF Fail
  <2>3. CASE ~(failures + 1 >= FailureThreshold)
    <3>1. ~outage
      BY <2>3
    <3> QED  BY <1>3, <2>1, <2>3, <3>1 DEF Fail
  <2> QED  BY <2>2, <2>3
<1>4. ASSUME NEW t \in Tasks, Trip(t) PROVE ProbeInv'
  BY <1>4 DEF Trip
<1>5. CASE Tick
  BY <1>5 DEF Tick
<1>6. CASE RedisChanges
  BY <1>6 DEF RedisChanges
<1>7. CASE UNCHANGED breakerVars
  BY <1>7 DEF breakerVars
<1> QED  BY <1>1, <1>2, <1>3, <1>4, <1>5, <1>6, <1>7 DEF BreakerNext

(* During an outage no task goes to Redis twice between two openings of    *)
(* the breaker, whatever the interleaving of the two atomics.              *)
THEOREM ProbesBounded == BreakerSpec => []OneProbePerTask
<1>1. ProbeInv => OneProbePerTask
  BY DEF ProbeInv
<1> QED  BY <1>1, InitProbeInv, NextProbeInv, PTL DEF BreakerSpec

(* The breaker's state keeps its type.                                     *)
THEOREM BreakerTypeCorrect == BreakerSpec => []BreakerTypeOK
<1>1. ProbeInv => BreakerTypeOK
  BY DEF ProbeInv
<1> QED  BY <1>1, InitProbeInv, NextProbeInv, PTL DEF BreakerSpec
=============================================================================
