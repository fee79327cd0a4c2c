----------------------------- MODULE FeedProofs -----------------------------
(***************************************************************************)
(* Theorems about FeedPipeline, for any sources, answers, quotas, policy   *)
(* and limit, and about TrendFeed, whose lists come out of such a          *)
(* pipeline, for any providers, lists, pages and rebuilds.                 *)
(***************************************************************************)
EXTENDS FeedPipeline, TrendFeed, SublistsProofs, SequenceTheorems, FunctionTheorems

----------------------------------------------------------------------------
\* The operators of the stages.

\* A finite family of finite sets.
LEMMA FiniteUnion ==
  ASSUME NEW n \in Nat, NEW part, DOMAIN part = 1..n, \A i \in 1..n : IsFiniteSet(part[i])
  PROVE  IsFiniteSet(UNION {part[i] : i \in 1..n})
<1> DEFINE parts == {part[i] : i \in 1..n}
           all == [i \in 1..n |-> part[i]]
<1>1. IsFiniteSet(1..n) /\ all \in Surjection(1..n, parts)
  BY FS_Interval DEF Surjection
<1>2. IsFiniteSet(parts)
  BY <1>1, FS_Surjection
<1> QED  BY <1>2, FS_UNION

\* A column of v pairs.
LEMMA ColumnSize ==
  ASSUME NEW q, NEW v \in Nat
  PROVE  IsFiniteSet({q} \X (1..v)) /\ Cardinality({q} \X (1..v)) = v
<1>1. PICK S, T : S = {q} /\ T = 1..v
  OBVIOUS
<1>2. IsFiniteSet(S) /\ Cardinality(S) = 1
  BY <1>1, FS_Singleton
<1>3. IsFiniteSet(T) /\ Cardinality(T) = v
  BY <1>1, FS_Interval
<1>4. IsFiniteSet(S \X T) /\ Cardinality(S \X T) = Cardinality(S) * Cardinality(T)
  BY <1>2, <1>3, FS_Product
<1>5. Cardinality(S \X T) = v
  BY <1>2, <1>3, <1>4
<1> QED  BY <1>1, <1>4, <1>5

\* A rectangle over S, of n rows.
Grid(S, n) == S \X (1..n)

LEMMA GridSize ==
  ASSUME NEW S, NEW m \in Nat, IsFiniteSet(S), Cardinality(S) = m, NEW n \in Nat
  PROVE  IsFiniteSet(Grid(S, n)) /\ Cardinality(Grid(S, n)) = m * n
<1>1. PICK T : T = 1..n
  OBVIOUS
<1>2. IsFiniteSet(T) /\ Cardinality(T) = n
  BY <1>1, FS_Interval
<1>3. IsFiniteSet(S \X T) /\ Cardinality(S \X T) = Cardinality(S) * Cardinality(T)
  BY <1>2, FS_Product
<1>4. Cardinality(S \X T) = m * n
  BY <1>2, <1>3
<1>5. Grid(S, n) = S \X T
  BY <1>1 DEF Grid
<1> QED  BY <1>3, <1>4, <1>5

(* Joined consists of elements of the batches.                             *)
LEMMA JoinedParts ==
  ASSUME NEW T, NEW n \in Nat, NEW batches \in [1..n -> Seq(T)]
  PROVE  Joined(batches) \in Seq(T)
<1> DEFINE at == UNION {{i} \X (DOMAIN batches[i]) : i \in DOMAIN batches}
           R == {p \in at \X at :
                     \/ p[1][1] < p[2][1]
                     \/ p[1][1] = p[2][1] /\ p[1][2] < p[2][2]}
           order == Arranged(at, R)
<1>1. IsFiniteSet(at)
  <2> DEFINE part == [i \in 1..n |-> {i} \X (DOMAIN batches[i])]
  <2>1. ASSUME NEW i \in 1..n PROVE IsFiniteSet(part[i])
    <3>1. PICK m \in Int : DOMAIN batches[i] = 1..m
      OBVIOUS
    <3>2. IsFiniteSet(DOMAIN batches[i])
      BY <3>1, FS_Interval
    <3>3. IsFiniteSet({i})
      BY FS_Singleton
    <3> QED  BY <3>2, <3>3, FS_Product
  <2>2. at = UNION {part[i] : i \in 1..n} /\ DOMAIN part = 1..n
    OBVIOUS
  <2> HIDE DEF part, at
  <2> QED  BY <2>1, <2>2, FiniteUnion
<1>2. ASSUME NEW x \in at
      PROVE  /\ x = <<x[1], x[2]>> /\ x[1] \in 1..n /\ x[2] \in Nat
             /\ batches[x[1]][x[2]] \in T
  <2>1. PICK i \in 1..n : x \in {i} \X (DOMAIN batches[i])
    OBVIOUS
  <2>2. x = <<i, x[2]>> /\ x[2] \in DOMAIN batches[i]
    BY <2>1
  <2> QED  BY <2>2
<1>3. \A x, y \in at : <<x, y>> \in R <=> x[1] < y[1] \/ (x[1] = y[1] /\ x[2] < y[2])
  OBVIOUS
<1>4. Joined(batches) = [k \in DOMAIN order |-> batches[order[k][1]][order[k][2]]]
  BY DEF Joined
<1> HIDE DEF at, R
<1>5. Orders(R, at)
  <2>1. \A x \in at : x = <<x[1], x[2]>> /\ x[1] \in Int /\ x[2] \in Int
    BY <1>2
  <2>2. \A x, y \in at : x[1] = y[1] /\ x[2] = y[2] => x = y
    BY <2>1
  <2>3. \A x \in at : <<x, x>> \notin R
    BY <2>1, <1>3
  <2>4. ASSUME NEW x \in at, NEW y \in at PROVE x = y \/ <<x, y>> \in R \/ <<y, x>> \in R
    <3>1. \/ x[1] < y[1] \/ y[1] < x[1]
          \/ x[1] = y[1] /\ (x[2] < y[2] \/ y[2] < x[2] \/ x[2] = y[2])
      BY <2>1
    <3> QED  BY <3>1, <2>2, <1>3
  <2>5. ASSUME NEW x \in at, NEW y \in at, NEW z \in at, <<x, y>> \in R, <<y, z>> \in R
        PROVE  <<x, z>> \in R
    <3>1. /\ x[1] < y[1] \/ (x[1] = y[1] /\ x[2] < y[2])
          /\ y[1] < z[1] \/ (y[1] = z[1] /\ y[2] < z[2])
      BY <2>5, <1>3
    <3>2. /\ x[1] \in Int /\ y[1] \in Int /\ z[1] \in Int
          /\ x[2] \in Int /\ y[2] \in Int /\ z[2] \in Int
      BY <2>1
    <3>3. x[1] < z[1] \/ (x[1] = z[1] /\ x[2] < z[2])
      BY <3>1, <3>2
    <3> QED  BY <3>3, <1>3
  <2> QED  BY <2>3, <2>4, <2>5 DEF Orders
<1>6. order \in [1..Cardinality(at) -> at] /\ Cardinality(at) \in Nat
  BY <1>1, <1>5, ArrangedOrder, CardinalityNat
<1> HIDE DEF order
<1>7. Joined(batches) \in [1..Cardinality(at) -> T]
  BY <1>2, <1>4, <1>6
<1> QED  BY <1>6, <1>7

\* SublistParts, for a sublist with a name.
LEMMA PartsOf ==
  ASSUME NEW list \in Seq(Candidate), NEW at \in SUBSET DOMAIN list, NEW d, d = Sublist(list, at)
  PROVE  /\ d \in Seq(Candidate)
         /\ \E from \in [DOMAIN d -> at] :
               /\ \A k \in DOMAIN d : d[k] = list[from[k]]
               /\ \A i \in at : \E k \in DOMAIN d : from[k] = i
               /\ \A k, l \in DOMAIN d : k < l <=> from[k] < from[l]
               /\ \A k, l \in DOMAIN d : from[k] = from[l] => k = l
<1>1. /\ Sublist(list, at) \in Seq(Candidate)
      /\ \E from \in [DOMAIN Sublist(list, at) -> at] :
            /\ \A k \in DOMAIN Sublist(list, at) : Sublist(list, at)[k] = list[from[k]]
            /\ \A i \in at : \E k \in DOMAIN Sublist(list, at) : from[k] = i
            /\ \A k, l \in DOMAIN Sublist(list, at) : k < l <=> from[k] < from[l]
            /\ \A k, l \in DOMAIN Sublist(list, at) : from[k] = from[l] => k = l
  BY SublistParts
<1> QED  BY <1>1

\* The copies of a post, the preferred one first.
Preferred(c, i, j) ==
    \/ PriorityOf[c[i].group] < PriorityOf[c[j].group]
    \/ PriorityOf[c[i].group] = PriorityOf[c[j].group] /\ i < j

(* Sorting by priority is a stable rearrangement.                          *)
LEMMA SortedParts ==
  ASSUME NEW c \in Seq(Candidate)
  PROVE  \E order \in [DOMAIN c -> DOMAIN c] :
            /\ ByPriority(c) = [k \in DOMAIN c |-> c[order[k]]]
            /\ \A i \in DOMAIN c : \E k \in DOMAIN c : order[k] = i
            /\ \A k, l \in DOMAIN c : k < l <=> Preferred(c, order[k], order[l])
            /\ \A k, l \in DOMAIN c : order[k] = order[l] => k = l
<1> DEFINE S == DOMAIN c
           R == {p \in S \X S :
                     \/ PriorityOf[c[p[1]].group] < PriorityOf[c[p[2]].group]
                     \/ PriorityOf[c[p[1]].group] = PriorityOf[c[p[2]].group] /\ p[1] < p[2]}
           order == Arranged(S, R)
<1>1. IsFiniteSet(S) /\ S = 1..Cardinality(S) /\ S \subseteq Nat
  <2>1. Len(c) \in Nat /\ S = 1..Len(c)
    OBVIOUS
  <2>2. IsFiniteSet(S) /\ Cardinality(S) = Len(c)
    BY <2>1, FS_Interval
  <2> QED  BY <2>1, <2>2
<1>2. ASSUME NEW i \in S PROVE PriorityOf[c[i].group] \in Int
  <2>1. c[i] \in Candidate
    OBVIOUS
  <2>2. c[i].group \in Groups
    BY <2>1 DEF Candidate
  <2> QED  BY <2>2, PipelineAssumption
<1>3. \A i, j \in S : <<i, j>> \in R <=> Preferred(c, i, j)
  BY DEF Preferred
<1>4. ByPriority(c) = [k \in DOMAIN order |-> c[order[k]]]
  BY DEF ByPriority
<1> HIDE DEF S, R
<1>5. Orders(R, S)
  <2>1. \A i \in S : <<i, i>> \notin R
    BY <1>1, <1>2, <1>3 DEF Preferred
  <2>2. ASSUME NEW i \in S, NEW j \in S PROVE i = j \/ <<i, j>> \in R \/ <<j, i>> \in R
    <3>1. i = j \/ Preferred(c, i, j) \/ Preferred(c, j, i)
      BY <1>1, <1>2 DEF Preferred
    <3> QED  BY <1>3, <3>1
  <2>3. ASSUME NEW i \in S, NEW j \in S, NEW k \in S, <<i, j>> \in R, <<j, k>> \in R
        PROVE  <<i, k>> \in R
    <3>1. Preferred(c, i, j) /\ Preferred(c, j, k)
      BY <1>3, <2>3
    <3>2. i \in Nat /\ j \in Nat /\ k \in Nat
      BY <1>1
    <3>3. Preferred(c, i, k)
      BY <3>1, <3>2, <1>2 DEF Preferred
    <3> QED  BY <1>3, <3>3
  <2> QED  BY <2>1, <2>2, <2>3 DEF Orders
<1>6. /\ order \in [S -> S]
      /\ \A i \in S : \E k \in S : order[k] = i
      /\ \A k, l \in S : k < l <=> <<order[k], order[l]>> \in R
      /\ \A k, l \in S : order[k] = order[l] => k = l
  <2>1. PICK n : n = Cardinality(S) /\ S = 1..n
    BY <1>1
  <2>2. /\ order \in [1..Cardinality(S) -> S]
        /\ \A i \in S : \E k \in 1..Cardinality(S) : order[k] = i
        /\ \A k, l \in 1..Cardinality(S) : k < l <=> <<order[k], order[l]>> \in R
        /\ \A k, l \in 1..Cardinality(S) : order[k] = order[l] => k = l
    BY <1>1, <1>5, ArrangedOrder
  <2> HIDE DEF order
  <2> QED  BY <2>1, <2>2
<1> HIDE DEF order
<1>7. \A k, l \in S : k < l <=> Preferred(c, order[k], order[l])
  BY <1>3, <1>6
<1>8. ByPriority(c) = [k \in S |-> c[order[k]]]
  BY <1>4, <1>6
<1> QED  BY <1>6, <1>7, <1>8 DEF S

\* The first copy of the post at i, of those of the best priority.
IsFirst(c, i, f) ==
    /\ f \in DOMAIN c /\ c[f].uri = c[i].uri
    /\ \A j \in DOMAIN c : c[j].uri = c[i].uri => f = j \/ Preferred(c, f, j)

(* Deduplication keeps the first copy of every post, and no other.         *)
LEMMA DedupParts ==
  ASSUME NEW c \in Seq(Candidate)
  PROVE  /\ Dedup(c) \in Seq(Candidate)
         /\ \A k, l \in DOMAIN Dedup(c) : Dedup(c)[k].uri = Dedup(c)[l].uri => k = l
         /\ \A i, f \in DOMAIN c : IsFirst(c, i, f) => \E k \in DOMAIN Dedup(c) : Dedup(c)[k] = c[f]
<1> DEFINE s == ByPriority(c)
           at == {i \in DOMAIN s : \A j \in 1..(i - 1) : s[j].uri # s[i].uri}
           d == Dedup(c)
<1>1. PICK order \in [DOMAIN c -> DOMAIN c] :
            /\ ByPriority(c) = [k \in DOMAIN c |-> c[order[k]]]
            /\ \A i \in DOMAIN c : \E k \in DOMAIN c : order[k] = i
            /\ \A k, l \in DOMAIN c : k < l <=> Preferred(c, order[k], order[l])
            /\ \A k, l \in DOMAIN c : order[k] = order[l] => k = l
  BY SortedParts
<1>2. s \in Seq(Candidate) /\ DOMAIN s = DOMAIN c /\ \A k \in DOMAIN c : s[k] = c[order[k]]
  <2>1. DOMAIN c = 1..Len(c) /\ Len(c) \in Nat
    OBVIOUS
  <2>2. s \in [1..Len(c) -> Candidate]
    BY <1>1, <2>1
  <2> QED  BY <1>1, <2>1, <2>2
<1>3. d = Sublist(s, at) /\ at \in SUBSET DOMAIN s
  BY DEF Dedup
<1>4. \A i : i \in at <=> i \in DOMAIN s /\ \A j \in 1..(i - 1) : s[j].uri # s[i].uri
  OBVIOUS
<1>5. DOMAIN s \subseteq Nat \ {0} /\ \A i \in DOMAIN s : 1..(i - 1) \subseteq DOMAIN s
  BY <1>2
<1> HIDE DEF s, at, d
<1>6. /\ d \in Seq(Candidate)
      /\ \E from \in [DOMAIN d -> at] :
            /\ \A k \in DOMAIN d : d[k] = s[from[k]]
            /\ \A i \in at : \E k \in DOMAIN d : from[k] = i
            /\ \A k, l \in DOMAIN d : k < l <=> from[k] < from[l]
            /\ \A k, l \in DOMAIN d : from[k] = from[l] => k = l
  BY <1>2, <1>3, PartsOf
<1>7. PICK from \in [DOMAIN d -> at] :
            /\ \A k \in DOMAIN d : d[k] = s[from[k]]
            /\ \A i \in at : \E k \in DOMAIN d : from[k] = i
            /\ \A k, l \in DOMAIN d : k < l <=> from[k] < from[l]
            /\ \A k, l \in DOMAIN d : from[k] = from[l] => k = l
  BY <1>6
<1>8. ASSUME NEW i \in at, NEW j \in at, s[i].uri = s[j].uri PROVE i = j
  <2>1. i \in Nat /\ j \in Nat /\ i > 0 /\ j > 0
    BY <1>4, <1>5
  <2>2. ~ (i < j)
    BY <2>1, <1>4, <1>8
  <2>3. ~ (j < i)
    BY <2>1, <1>4, <1>8
  <2> QED  BY <2>1, <2>2, <2>3
<1>9. \A k, l \in DOMAIN d : d[k].uri = d[l].uri => k = l
  BY <1>7, <1>8
<1>10. ASSUME NEW i \in DOMAIN c, NEW f \in DOMAIN c, IsFirst(c, i, f)
       PROVE  \E k \in DOMAIN d : d[k] = c[f]
  <2>1. PICK n \in DOMAIN c : order[n] = f
    BY <1>1
  <2>2. ASSUME NEW l \in 1..(n - 1) PROVE s[l].uri # s[n].uri
    <3>1. l \in DOMAIN c /\ l < n
      BY <1>2, <1>5
    <3>2. order[l] \in DOMAIN c /\ Preferred(c, order[l], f) /\ f # order[l]
      BY <1>1, <2>1, <3>1
    <3>3. ~ Preferred(c, f, order[l])
      BY <1>1, <1>2, <1>5, <2>1, <3>1
    <3>4. c[order[l]].uri # c[i].uri
      BY <1>10, <3>2, <3>3 DEF IsFirst
    <3> QED  BY <1>2, <1>10, <2>1, <3>1, <3>4 DEF IsFirst
  <2>3. n \in at
    BY <1>2, <1>4, <2>2
  <2>4. s[n] = c[f]
    BY <1>2, <2>1
  <2> QED  BY <1>7, <2>3, <2>4
<1> QED  BY <1>6, <1>9, <1>10 DEF d

\* The policy drops the posts of banned authors and no others.
LEMMA PermittedParts ==
  ASSUME NEW d \in Seq(Candidate), NEW p, p = Permitted(d)
  PROVE  /\ p \in Seq(Candidate)
         /\ \E from \in [DOMAIN p -> DOMAIN d] :
               /\ \A k \in DOMAIN p : p[k] = d[from[k]]
               /\ \A i \in DOMAIN d : d[i].author \notin Banned => \E k \in DOMAIN p : from[k] = i
               /\ \A k, l \in DOMAIN p : from[k] = from[l] => k = l
<1> DEFINE at == {i \in DOMAIN d : d[i].author \notin Banned}
<1>1. p = Sublist(d, at) /\ at \in SUBSET DOMAIN d
  BY DEF Permitted
<1>2. \A i \in DOMAIN d : d[i].author \notin Banned => i \in at
  OBVIOUS
<1> HIDE DEF at
<1>3. /\ p \in Seq(Candidate)
      /\ \E from \in [DOMAIN p -> at] :
            /\ \A k \in DOMAIN p : p[k] = d[from[k]]
            /\ \A i \in at : \E k \in DOMAIN p : from[k] = i
            /\ \A k, l \in DOMAIN p : k < l <=> from[k] < from[l]
            /\ \A k, l \in DOMAIN p : from[k] = from[l] => k = l
  BY <1>1, PartsOf
<1>4. PICK from \in [DOMAIN p -> at] :
            /\ \A k \in DOMAIN p : p[k] = d[from[k]]
            /\ \A i \in at : \E k \in DOMAIN p : from[k] = i
            /\ \A k, l \in DOMAIN p : k < l <=> from[k] < from[l]
            /\ \A k, l \in DOMAIN p : from[k] = from[l] => k = l
  BY <1>3
<1>5. from \in [DOMAIN p -> DOMAIN d]
  BY <1>1
<1>6. \E g \in [DOMAIN p -> DOMAIN d] :
         /\ \A k \in DOMAIN p : p[k] = d[g[k]]
         /\ \A i \in DOMAIN d : d[i].author \notin Banned => \E k \in DOMAIN p : g[k] = i
         /\ \A k, l \in DOMAIN p : g[k] = g[l] => k = l
  <2> WITNESS from \in [DOMAIN p -> DOMAIN d]
  <2> QED  BY <1>2, <1>4
<1> QED  BY <1>3, <1>6, Zenon

(* The policy and the penalty leave the uri, author and group of what they *)
(* leave, once each, and drop only posts of banned authors.                *)
LEMMA RankedParts ==
  ASSUME NEW d \in Seq(Candidate), NEW r, r = Diversified(Permitted(d))
  PROVE  /\ r \in Seq(Candidate)
         /\ (\A k, l \in DOMAIN d : d[k].uri = d[l].uri => k = l) =>
               \A k, l \in DOMAIN r : r[k].uri = r[l].uri => k = l
         /\ \A n \in DOMAIN d : d[n].author \notin Banned =>
               \E k \in DOMAIN r :
                  r[k].uri = d[n].uri /\ r[k].group = d[n].group /\ r[k].author = d[n].author
<1>4. PICK p : p = Permitted(d)
  OBVIOUS
<1>5. p \in Seq(Candidate)
  BY <1>4, PermittedParts
<1>6. PICK from \in [DOMAIN p -> DOMAIN d] :
            /\ \A k \in DOMAIN p : p[k] = d[from[k]]
            /\ \A i \in DOMAIN d : d[i].author \notin Banned => \E k \in DOMAIN p : from[k] = i
            /\ \A k, l \in DOMAIN p : from[k] = from[l] => k = l
  BY <1>4, PermittedParts
<1>7. r = [i \in DOMAIN p |->
              IF \E j \in 1..(i - 1) : p[j].author = p[i].author
              THEN [p[i] EXCEPT !.score = (@ * Penalty) \div 100] ELSE p[i]]
  BY <1>4 DEF Diversified
<1>8. ASSUME NEW i \in DOMAIN p
      PROVE  /\ r[i] \in Candidate
             /\ r[i].uri = p[i].uri /\ r[i].group = p[i].group /\ r[i].author = p[i].author
  <2>0. p[i] \in Candidate
    BY <1>5
  <2>1. p[i] \in Candidate /\ p[i].score \in Nat
    BY <2>0 DEF Candidate
  <2>2. (p[i].score * Penalty) \div 100 \in Nat
    <3>1. PICK n \in Nat : n = p[i].score * Penalty
      BY <2>1, PipelineAssumption
    <3> QED  BY <3>1
  <2>3. r[i] \in {p[i], [p[i] EXCEPT !.score = (p[i].score * Penalty) \div 100]}
    BY <1>7
  <2> QED  BY <2>1, <2>2, <2>3 DEF Candidate
<1>9. r \in Seq(Candidate) /\ DOMAIN r = DOMAIN p
  <2>1. DOMAIN p = 1..Len(p) /\ Len(p) \in Nat /\ DOMAIN r = DOMAIN p
    BY <1>5, <1>7
  <2>2. r = [k \in 1..Len(p) |-> r[k]]
    BY <1>7, <2>1
  <2> QED  BY <1>8, <2>1, <2>2
<1>10. ASSUME \A k, l \in DOMAIN d : d[k].uri = d[l].uri => k = l
       PROVE  \A k, l \in DOMAIN r : r[k].uri = r[l].uri => k = l
  BY <1>6, <1>8, <1>9, <1>10
<1>11. ASSUME NEW n \in DOMAIN d, d[n].author \notin Banned
       PROVE  \E k \in DOMAIN r :
                 r[k].uri = d[n].uri /\ r[k].group = d[n].group /\ r[k].author = d[n].author
  <2>1. PICK k \in DOMAIN p : p[k] = d[n]
    BY <1>6, <1>11
  <2> QED  BY <1>8, <1>9, <2>1
<1> QED  BY <1>9, <1>10, <1>11

----------------------------------------------------------------------------
\* The sampler.

\* rest consists of the elements of old but the one at i, each once.
Without(old, i, rest, from) ==
    /\ from \in [DOMAIN rest -> DOMAIN old \ {i}]
    /\ \A k \in DOMAIN rest : rest[k] = old[from[k]]
    /\ \A j \in DOMAIN old \ {i} : \E k \in DOMAIN rest : from[k] = j
    /\ \A k, l \in DOMAIN rest : from[k] = from[l] => k = l

(* What swap_remove leaves is the rest of the vector, each element once.   *)
LEMMA SwapRemoved ==
  ASSUME NEW c \in Seq(Candidate), NEW i \in DOMAIN c, NEW s, s = SwapRemove(c, i)
  PROVE  s \in Seq(Candidate) /\ Len(s) = Len(c) - 1 /\ \E from : Without(c, i, s, from)
<1> DEFINE T == Candidate
<1>0. c \in Seq(T)
  OBVIOUS
<1> HIDE DEF T
<1>1. PICK n \in Nat : n = Len(c) /\ DOMAIN c = 1..n /\ i \in 1..n
  OBVIOUS
<1>2. PICK b : b = [c EXCEPT ![i] = c[n]]
  OBVIOUS
<1>3. /\ Len(b) = n /\ \A k \in 1..n : b[k] \in T
      /\ \A k \in 1..n : b[k] = IF k = i THEN c[n] ELSE c[k]
  BY <1>0, <1>1, <1>2
<1>4. s = SubSeq(b, 1, n - 1)
  BY <1>1, <1>2, <1>3 DEF SwapRemove, Front, Last
<1>5. /\ s \in Seq(T) /\ Len(s) = n - 1
      /\ \A k \in 1..(n - 1) : s[k] = b[k]
  <2>1. \A k \in 1..(n - 1) : b[k] \in T
    BY <1>1, <1>3
  <2>2. n - 1 \in Int /\ 1 \in Int
    BY <1>1
  <2>3. /\ s \in Seq(T) /\ Len(s) = IF 1 <= n - 1 THEN (n - 1) - 1 + 1 ELSE 0
        /\ \A k \in 1..((n - 1) - 1 + 1) : s[k] = b[1 + k - 1]
    BY <1>4, <2>1, <2>2, SubSeqProperties
  <2> QED  BY <1>1, <2>3
<1>6. DOMAIN s = 1..(n - 1)
  BY <1>1, <1>5
<1> DEFINE from == [k \in DOMAIN s |-> IF k = i THEN n ELSE k]
<1>7. from \in [DOMAIN s -> DOMAIN c \ {i}]
  BY <1>1, <1>6
<1>8. \A k \in DOMAIN s : s[k] = c[from[k]]
  BY <1>1, <1>3, <1>5, <1>6
<1>9. ASSUME NEW j \in DOMAIN c \ {i} PROVE \E k \in DOMAIN s : from[k] = j
  <2>1. CASE j = n
    BY <1>1, <1>6, <2>1
  <2>2. CASE j # n
    BY <1>1, <1>6, <2>2
  <2> QED  BY <2>1, <2>2
<1>10. \A k, l \in DOMAIN s : from[k] = from[l] => k = l
  BY <1>1, <1>6
<1>11. Without(c, i, s, from)
  <2> HIDE DEF from
  <2> QED  BY <1>7, <1>8, <1>9, <1>10 DEF Without
<1> QED  BY <1>1, <1>5, <1>11 DEF T

(* Best is the best scored of the positions it is given.                   *)
LEMMA BestParts ==
  ASSUME candidates \in Seq(Candidate), NEW S \in SUBSET DOMAIN candidates, S # {}
  PROVE  Best(S) \in S /\ \A j \in S : candidates[j].score <= candidates[Best(S)].score
<1> DEFINE R == {p \in S \X S :
                    \/ candidates[p[1]].score < candidates[p[2]].score
                    \/ candidates[p[1]].score = candidates[p[2]].score /\ p[1] < p[2]}
           score(i) == candidates[i].score
<1>1. IsFiniteSet(S) /\ S \subseteq Nat
  <2>1. PICK n \in Nat : DOMAIN candidates = 1..n
    OBVIOUS
  <2>2. IsFiniteSet(1..n)
    BY FS_Interval
  <2> QED  BY <2>1, <2>2, FS_Subset
<1>2. \A i \in S : score(i) \in Nat
  <2>1. \A i \in S : candidates[i] \in Candidate
    OBVIOUS
  <2> QED  BY <2>1 DEF Candidate
<1>3. \A i, j \in S : <<i, j>> \in R <=> score(i) < score(j) \/ (score(i) = score(j) /\ i < j)
  OBVIOUS
<1>4. Best(S) = CHOOSE i \in S : \A j \in S :
                    score(j) < score(i) \/ (score(j) = score(i) /\ j <= i)
  BY DEF Best
<1> HIDE DEF R, score
<1>5. Orders(R, S)
  <2>1. \A i \in S : <<i, i>> \notin R
    BY <1>1, <1>2, <1>3
  <2>2. ASSUME NEW i \in S, NEW j \in S PROVE i = j \/ <<i, j>> \in R \/ <<j, i>> \in R
    <3>1. /\ score(i) < score(j) \/ score(j) < score(i) \/ score(i) = score(j)
          /\ i < j \/ j < i \/ i = j
      BY <1>1, <1>2
    <3> QED  BY <1>3, <3>1
  <2>3. ASSUME NEW i \in S, NEW j \in S, NEW k \in S, <<i, j>> \in R, <<j, k>> \in R
        PROVE  <<i, k>> \in R
    <3>1. /\ score(i) < score(j) \/ (score(i) = score(j) /\ i < j)
          /\ score(j) < score(k) \/ (score(j) = score(k) /\ j < k)
      BY <2>3, <1>3
    <3>2. /\ score(i) \in Nat /\ score(j) \in Nat /\ score(k) \in Nat
          /\ i \in Nat /\ j \in Nat /\ k \in Nat
      BY <1>1, <1>2
    <3>3. score(i) < score(k) \/ (score(i) = score(k) /\ i < k)
      BY <3>1, <3>2
    <3> QED  BY <3>3, <1>3
  <2> QED  BY <2>1, <2>2, <2>3 DEF Orders
<1>6. PICK i \in S : \A j \in S : i = j \/ <<j, i>> \in R
  BY <1>1, <1>5, Extremes
<1>7. ASSUME NEW j \in S PROVE score(j) < score(i) \/ (score(j) = score(i) /\ j <= i)
  <2>1. i = j \/ score(j) < score(i) \/ (score(j) = score(i) /\ j < i)
    BY <1>3, <1>6
  <2> QED  BY <1>1, <2>1
<1>8. /\ Best(S) \in S
      /\ \A j \in S : score(j) < score(Best(S)) \/ (score(j) = score(Best(S)) /\ j <= Best(S))
  BY <1>4, <1>7
<1>9. \A j \in S : score(j) <= score(Best(S))
  BY <1>2, <1>8
<1> QED  BY <1>8, <1>9 DEF score

LEMMA BuiltParts ==
  ASSUME built \in Pipelines
  PROVE  /\ Limit \in Nat
         /\ Quotas \in Seq([group : Groups, weight : Nat])
         /\ built.sources \in Seq([group : Groups \cup {NoGroup}, answers : SUBSET Seq(Candidate)])
         /\ built.fallback \in Seq([group : Groups \cup {NoGroup}, answers : SUBSET Seq(Candidate)])
  BY PipelineAssumption DEF Limit, Quotas

LEMMA SeqParts ==
  ASSUME NEW T, NEW s \in Seq(T)
  PROVE  \E n \in Nat : n = Len(s) /\ DOMAIN s = 1..n /\ \A k \in 1..n : s[k] \in T
  OBVIOUS

LEMMA QuotaParts ==
  ASSUME built \in Pipelines
  PROVE  \E n \in Nat : DOMAIN Quotas = 1..n /\ \A q \in 1..n : Quotas[q].weight \in Nat
<1>1. PICK T : T = [group : Groups, weight : Nat]
  OBVIOUS
<1>2. Quotas \in Seq(T)
  BY <1>1, BuiltParts, Zenon
<1>3. PICK n \in Nat : DOMAIN Quotas = 1..n /\ \A q \in 1..n : Quotas[q] \in T
  BY <1>2, SeqParts
<1> QED  BY <1>1, <1>3

LEMMA TotalWeightNat == ASSUME built \in Pipelines PROVE TotalWeight \in Nat
<1>1. PICK n \in Nat : DOMAIN Quotas = 1..n /\ \A q \in 1..n : Quotas[q].weight \in Nat
  BY QuotaParts
<1> DEFINE part == [q \in 1..n |-> {q} \X (1..Quotas[q].weight)]
<1>2. ASSUME NEW q \in 1..n PROVE IsFiniteSet(part[q])
  <2>1. PICK w \in Nat : w = Quotas[q].weight
    BY <1>1
  <2>2. IsFiniteSet({q} \X (1..w))
    BY ColumnSize
  <2> QED  BY <2>1, <2>2
<1>3. TotalWeight = Cardinality(UNION {part[q] : q \in 1..n}) /\ DOMAIN part = 1..n
  BY <1>1 DEF TotalWeight
<1> HIDE DEF part
<1> QED  BY <1>2, <1>3, FiniteUnion, CardinalityNat

LEMMA DeficitInt ==
  ASSUME built \in Pipelines, selected \in Seq(Candidate), NEW q \in DOMAIN Quotas
  PROVE  Deficit(q) \in Int
<1>1. PICK w \in Nat : w = Quotas[q].weight
  BY QuotaParts
<1>2. PICK t \in Nat : t = TotalWeight
  BY TotalWeightNat
<1>3. PICK n \in Nat : n = Len(selected) /\ DOMAIN selected = 1..n
  OBVIOUS
<1>4. PICK m \in Nat : m = CountOf(Quotas[q].group)
  <2> DEFINE mine == {i \in DOMAIN selected : selected[i].group = Quotas[q].group}
  <2>1. IsFiniteSet(1..n) /\ mine \in SUBSET (1..n)
    BY <1>3, FS_Interval
  <2>2. IsFiniteSet(mine)
    BY <2>1, FS_Subset
  <2> QED  BY <2>2, CardinalityNat DEF CountOf
<1>5. Deficit(q) = w * (n + 1) - m * t
  BY <1>1, <1>2, <1>3, <1>4 DEF Deficit
<1> QED  BY <1>5

(* A quota of greatest deficit is chosen among those with candidates left. *)
LEMMA NeediestAvailable ==
  ASSUME built \in Pipelines, selected \in Seq(Candidate), Available # {}
  PROVE  /\ NeediestQuota \in Available
         /\ \A p \in Available : Deficit(p) <= Deficit(NeediestQuota)
<1> DEFINE S == Available
           R == {p \in S \X S : \/ Deficit(p[1]) < Deficit(p[2])
                                \/ Deficit(p[1]) = Deficit(p[2]) /\ p[2] < p[1]}
<1>1. IsFiniteSet(S) /\ S \subseteq Nat /\ S \subseteq DOMAIN Quotas
  <2>1. PICK n \in Nat : DOMAIN Quotas = 1..n
    BY QuotaParts
  <2>2. S \in SUBSET DOMAIN Quotas
    BY DEF Available
  <2>3. IsFiniteSet(1..n)
    BY FS_Interval
  <2> HIDE DEF S
  <2>4. IsFiniteSet(S)
    BY <2>1, <2>2, <2>3, FS_Subset
  <2> QED  BY <2>1, <2>2, <2>4
<1>2. \A q \in S : Deficit(q) \in Int
  BY <1>1, DeficitInt
<1>3. \A p, q \in S : <<p, q>> \in R <=>
         Deficit(p) < Deficit(q) \/ (Deficit(p) = Deficit(q) /\ q < p)
  OBVIOUS
<1> HIDE DEF S, R
<1>4. Orders(R, S)
  <2>1. \A p \in S : <<p, p>> \notin R
    BY <1>1, <1>2, <1>3
  <2>2. ASSUME NEW p \in S, NEW q \in S PROVE p = q \/ <<p, q>> \in R \/ <<q, p>> \in R
    <3>1. /\ Deficit(p) < Deficit(q) \/ Deficit(q) < Deficit(p) \/ Deficit(p) = Deficit(q)
          /\ p < q \/ q < p \/ p = q
      BY <1>1, <1>2
    <3> QED  BY <1>3, <3>1
  <2>3. \A p, q, r \in S : <<p, q>> \in R /\ <<q, r>> \in R => <<p, r>> \in R
    BY <1>1, <1>2, <1>3
  <2> QED  BY <2>1, <2>2, <2>3 DEF Orders
<1>5. PICK q \in S : \A p \in S : q = p \/ <<p, q>> \in R
  <2>1. S # {}
    BY DEF S
  <2> QED  BY <2>1, <1>1, <1>4, Extremes
<1>6. \A p \in S : Deficit(p) < Deficit(q) \/ (Deficit(p) = Deficit(q) /\ q <= p)
  <2>1. ASSUME NEW p \in S
        PROVE  Deficit(p) < Deficit(q) \/ (Deficit(p) = Deficit(q) /\ q <= p)
    <3>1. q = p \/ Deficit(p) < Deficit(q) \/ (Deficit(p) = Deficit(q) /\ q < p)
      BY <1>3, <1>5
    <3> QED  BY <1>1, <3>1
  <2> QED  BY <2>1
<1>7. /\ NeediestQuota \in S
      /\ \A p \in S : \/ Deficit(p) < Deficit(NeediestQuota)
                      \/ Deficit(p) = Deficit(NeediestQuota) /\ NeediestQuota <= p
  BY <1>6 DEF S, NeediestQuota
<1>8. \A p \in S : Deficit(p) <= Deficit(NeediestQuota)
  BY <1>2, <1>7
<1> QED  BY <1>7, <1>8 DEF S

Quoted(c) == \E q \in DOMAIN Quotas : Quotas[q].group = c.group

(* The pick is the best scored of its rivals, and of a group with a quota  *)
(* while such a group has candidates left.                                 *)
LEMMA PickParts ==
  ASSUME built \in Pipelines, candidates \in Seq(Candidate), selected \in Seq(Candidate),
         candidates # <<>>, NEW i, i = PickIndex
  PROVE  /\ i \in DOMAIN candidates
         /\ \A j \in DOMAIN candidates :
               TotalWeight = 0 \/ candidates[j].group = candidates[i].group =>
                   candidates[j].score <= candidates[i].score
         /\ TotalWeight # 0 /\ (\E j \in DOMAIN candidates : Quoted(candidates[j])) =>
               Quoted(candidates[i])
<1>1. CASE TotalWeight = 0 \/ Available = {}
  <2>1. i = Best(DOMAIN candidates)
    BY <1>1 DEF PickIndex
  <2>2. DOMAIN candidates # {}
    <3>1. PICK n \in Nat : n = Len(candidates) /\ DOMAIN candidates = 1..n
      BY SeqParts
    <3>2. n # 0
      BY <3>1
    <3>3. 1 \in 1..n
      BY <3>2
    <3> QED  BY <3>1, <3>3, Zenon
  <2>3. /\ i \in DOMAIN candidates
        /\ \A j \in DOMAIN candidates : candidates[j].score <= candidates[i].score
    BY <2>1, <2>2, BestParts
  <2>4. ASSUME TotalWeight # 0, NEW j \in DOMAIN candidates, Quoted(candidates[j]) PROVE FALSE
    BY <1>1, <2>4 DEF Quoted, Available, InGroup
  <2> QED  BY <2>3, <2>4
<1>2. CASE TotalWeight # 0 /\ Available # {}
  <2>1. PICK q \in Available : q = NeediestQuota
    BY <1>2, NeediestAvailable
  <2>2. PICK S \in SUBSET DOMAIN candidates : S = InGroup(Quotas[q].group) /\ S # {}
    BY <2>1 DEF Available, InGroup
  <2>3. i = Best(S)
    BY <1>2, <2>1, <2>2 DEF PickIndex
  <2>4. i \in S /\ \A j \in S : candidates[j].score <= candidates[i].score
    BY <2>2, <2>3, BestParts
  <2>5. \A j \in DOMAIN candidates : j \in S <=> candidates[j].group = Quotas[q].group
    BY <2>2 DEF InGroup
  <2>6. q \in DOMAIN Quotas
    BY <2>1 DEF Available
  <2> QED  BY <1>2, <2>4, <2>5, <2>6 DEF Quoted
<1> QED  BY <1>1, <1>2

----------------------------------------------------------------------------
\* The invariant.

Typed == TypeOK /\ built \in Pipelines
Waiting == pc \notin {"sample", "done"} => selected = <<>> /\ candidates = collected

\* No post is offered twice, on the page or by what is left, after Dedup.
Apart == built.dedup =>
    /\ \A k, l \in DOMAIN selected : selected[k].uri = selected[l].uri => k = l
    /\ \A k, l \in DOMAIN candidates : candidates[k].uri = candidates[l].uri => k = l
    /\ \A k \in DOMAIN selected, l \in DOMAIN candidates : selected[k].uri # candidates[l].uri

\* The page and what is left are the pool.
Conserved ==
    /\ Len(selected) + Len(candidates) = Len(pool)
    /\ ToSet(selected) \cup ToSet(candidates) = ToSet(pool)

\* After Dedup the pool has the preferred copy of each post, except of a banned
\* author.
Represented == built.dedup =>
    \A i, f \in DOMAIN collected : IsFirst(collected, i, f) /\ collected[f].author \notin Banned =>
        \E k \in DOMAIN pool : /\ pool[k].uri = collected[f].uri
                               /\ pool[k].group = collected[f].group
                               /\ pool[k].author = collected[f].author

Rivals(c, d) == TotalWeight = 0 \/ d.group = c.group

\* Nothing picked later or left is better than a rival picked before.
Ranked ==
    \A i \in DOMAIN selected :
        /\ \A j \in DOMAIN selected :
              i < j /\ Rivals(selected[i], selected[j]) => selected[j].score <= selected[i].score
        /\ \A j \in DOMAIN candidates :
              Rivals(selected[i], candidates[j]) => candidates[j].score <= selected[i].score

\* Once a post without a quota is picked, none with a quota is left.
Filling ==
    \A i \in DOMAIN selected : TotalWeight # 0 /\ ~Quoted(selected[i]) =>
        /\ \A j \in DOMAIN selected : i < j => ~Quoted(selected[j])
        /\ \A j \in DOMAIN candidates : ~Quoted(candidates[j])

Ended == pc = "done" => Len(selected) = Limit \/ candidates = <<>>

PipelineInv ==
    /\ Typed /\ Waiting /\ Ended /\ Ranked /\ Filling
    /\ Sampling => Apart /\ Conserved /\ Represented

LEMMA EmptyParts ==
  /\ DOMAIN <<>> = {} /\ Len(<<>>) = 0
  /\ \A T : <<>> \in Seq(T)
  OBVIOUS

LEMMA SpecsParts ==
  ASSUME built \in Pipelines, NEW specs \in {built.sources, built.fallback}
  PROVE  \E n \in Nat :
            /\ DOMAIN specs = 1..n
            /\ \A i \in 1..n : specs[i].answers \subseteq Seq(Candidate)
                               /\ specs[i].group \in Groups \cup {NoGroup}
<1>1. PICK T : T = [group : Groups \cup {NoGroup}, answers : SUBSET Seq(Candidate)]
  OBVIOUS
<1>2. specs \in Seq(T)
  BY <1>1, BuiltParts, Zenon
<1>3. PICK n \in Nat : DOMAIN specs = 1..n /\ \A i \in 1..n : specs[i] \in T
  BY <1>2, SeqParts
<1> QED  BY <1>1, <1>3

LEMMA NoRepliesTyped ==
  ASSUME NEW specs
  PROVE  NoReplies(specs) \in [DOMAIN specs -> Seq(Candidate)]
<1>1. PICK T : T = Seq(Candidate)
  OBVIOUS
<1>2. <<>> \in T
  BY <1>1, EmptyParts
<1>3. NoReplies(specs) \in [DOMAIN specs -> T]
  BY <1>2 DEF NoReplies
<1> QED  BY <1>1, <1>3

LEMMA TaggedTyped ==
  ASSUME NEW reply \in Seq(Candidate), NEW group \in Groups \cup {NoGroup}
  PROVE  Tagged(reply, group) \in Seq(Candidate)
<1>1. CASE group = NoGroup
  BY <1>1 DEF Tagged
<1>2. CASE group # NoGroup
  <2>1. PICK n \in Nat : DOMAIN reply = 1..n /\ \A k \in 1..n : reply[k] \in Candidate
    BY SeqParts
  <2>2. ASSUME NEW k \in 1..n PROVE [reply[k] EXCEPT !.group = group] \in Candidate
    BY <1>2, <2>1 DEF Candidate
  <2>3. Tagged(reply, group) = [k \in 1..n |-> [reply[k] EXCEPT !.group = group]]
    BY <1>2, <2>1 DEF Tagged
  <2>4. Tagged(reply, group) \in [1..n -> Candidate]
    BY <2>2, <2>3
  <2> QED  BY <2>4
<1> QED  BY <1>1, <1>2

LEMMA InitPipeline == Init => PipelineInv
<1> SUFFICES ASSUME Init PROVE PipelineInv
  OBVIOUS
<1>1. Typed
  <2>1. Limit \in Nat /\ Len(selected) <= Limit
    BY BuiltParts, EmptyParts DEF Init
  <2>2. {candidates, collected, pool, selected} \subseteq Seq(Candidate)
    <3>1. <<>> \in Seq(Candidate)
      BY EmptyParts
    <3> QED  BY <3>1 DEF Init
  <2>3. replies \in [DOMAIN Specs -> Seq(Candidate)]
    BY NoRepliesTyped DEF Init, Specs
  <2> QED  BY <2>1, <2>2, <2>3 DEF Init, Typed, TypeOK
<1> QED
  BY <1>1, EmptyParts DEF Init, PipelineInv, Waiting, Ended, Ranked, Filling, Sampling

LEMMA ArriveKeeps ==
  ASSUME PipelineInv, NEW i \in DOMAIN Specs, Arrive(i)
  PROVE  PipelineInv'
<1>1. /\ pc \in {"collect", "fallback"} /\ arrived \subseteq DOMAIN Specs
      /\ replies \in [DOMAIN Specs -> Seq(Candidate)] /\ built \in Pipelines
      /\ {candidates, collected, pool, selected} \subseteq Seq(Candidate)
      /\ Len(selected) <= Limit
  BY DEF Arrive, PipelineInv, Typed, TypeOK
<1>2. Specs' = Specs /\ Limit' = Limit
  BY DEF Arrive, Specs, Limit
<1>3. PICK reply : reply \in Seq(Candidate) /\ replies' = [replies EXCEPT ![i] = reply]
  <2>1. PICK answer \in Specs[i].answers :
            replies' = [replies EXCEPT ![i] = Tagged(answer, Specs[i].group)]
    BY DEF Arrive
  <2>2. answer \in Seq(Candidate) /\ Specs[i].group \in Groups \cup {NoGroup}
    BY <1>1, SpecsParts DEF Specs
  <2> QED  BY <2>1, <2>2, TaggedTyped
<1>4. replies' \in [DOMAIN Specs -> Seq(Candidate)]
  BY <1>1, <1>3
<1>5. Typed'
  BY <1>1, <1>2, <1>4 DEF Arrive, Typed, TypeOK
<1>6. Waiting' /\ Ended' /\ ~Sampling'
  BY <1>1 DEF Arrive, PipelineInv, Waiting, Ended, Sampling
<1>7. Ranked' /\ Filling'
  <2>1. selected' = <<>>
    BY <1>1 DEF Arrive, PipelineInv, Waiting
  <2> QED  BY <2>1, EmptyParts DEF Ranked, Filling
<1> QED  BY <1>5, <1>6, <1>7 DEF PipelineInv

LEMMA GatherKeeps ==
  ASSUME PipelineInv, Gather
  PROVE  PipelineInv'
<1>1. /\ pc \in {"collect", "fallback"} /\ arrived \subseteq DOMAIN Specs
      /\ replies \in [DOMAIN Specs -> Seq(Candidate)] /\ built \in Pipelines
      /\ {candidates, collected, pool, selected} \subseteq Seq(Candidate)
      /\ Len(selected) <= Limit
  BY DEF Gather, PipelineInv, Typed, TypeOK
<1>2. candidates' \in Seq(Candidate)
  <2>1. PICK n \in Nat : DOMAIN Specs = 1..n
    BY <1>1, SpecsParts DEF Specs
  <2>2. Joined(replies) \in Seq(Candidate)
    BY <1>1, <2>1, JoinedParts
  <2>3. candidates \in Seq(Candidate)
    BY <1>1
  <2>4. candidates \o Joined(replies) \in Seq(Candidate)
    BY <2>2, <2>3, ConcatProperties
  <2> QED  BY <2>4 DEF Gather
<1>3. /\ collected' = candidates' /\ selected' = selected /\ pool' = pool /\ built' = built
      /\ Limit' = Limit
      /\ \/ pc' = "fallback" /\ arrived' = {} /\ replies' = NoReplies(built.fallback)
         \/ pc' = "rank"
  BY DEF Gather, Limit
<1>4. pc' = "fallback" => replies' \in [DOMAIN Specs' -> Seq(Candidate)]
  <2>1. pc' = "fallback" => Specs' = built.fallback
    BY <1>3 DEF Specs
  <2> QED  BY <1>3, <2>1, NoRepliesTyped
<1>5. Typed'
  BY <1>1, <1>2, <1>3, <1>4 DEF Typed, TypeOK
<1>6. selected' = <<>>
  BY <1>1, <1>3 DEF PipelineInv, Waiting
<1>7. Waiting' /\ Ended' /\ ~Sampling' /\ Ranked' /\ Filling'
  BY <1>3, <1>6, EmptyParts DEF Waiting, Ended, Sampling, Ranked, Filling
<1> QED  BY <1>5, <1>7 DEF PipelineInv

LEMMA RankKeeps ==
  ASSUME PipelineInv, Rank
  PROVE  PipelineInv'
<1>1. /\ pc = "rank" /\ pc' = "sample" /\ built \in Pipelines
      /\ {candidates, collected, pool, selected} \subseteq Seq(Candidate)
      /\ Len(selected) <= Limit /\ selected = <<>> /\ collected = candidates
  BY DEF Rank, PipelineInv, Typed, TypeOK, Waiting
<1>2. PICK c : c = collected
  OBVIOUS
<1>0. PICK d : d = IF built.dedup THEN Dedup(c) ELSE c
  OBVIOUS
<1>3. PICK r : r = Diversified(Permitted(d))
  OBVIOUS
<1>4. /\ candidates' = r /\ pool' = r /\ selected' = <<>> /\ built' = built /\ Limit' = Limit
      /\ collected' = c
  BY <1>0, <1>1, <1>2, <1>3 DEF Rank, Limit
<1>5. c \in Seq(Candidate)
  BY <1>1, <1>2
<1>6. /\ r \in Seq(Candidate)
      /\ built.dedup => \A k, l \in DOMAIN r : r[k].uri = r[l].uri => k = l
      /\ built.dedup => \A i, f \in DOMAIN c : IsFirst(c, i, f) /\ c[f].author \notin Banned =>
            \E k \in DOMAIN r :
               r[k].uri = c[f].uri /\ r[k].group = c[f].group /\ r[k].author = c[f].author
  <2>1. CASE built.dedup
    <3>1. d = Dedup(c)
      BY <1>0, <2>1
    <3>2. /\ d \in Seq(Candidate)
          /\ \A k, l \in DOMAIN d : d[k].uri = d[l].uri => k = l
          /\ \A i, f \in DOMAIN c : IsFirst(c, i, f) => \E n \in DOMAIN d : d[n] = c[f]
      BY <1>5, <3>1, DedupParts
    <3>3. /\ r \in Seq(Candidate)
          /\ \A k, l \in DOMAIN r : r[k].uri = r[l].uri => k = l
          /\ \A n \in DOMAIN d : d[n].author \notin Banned =>
                \E k \in DOMAIN r :
                   r[k].uri = d[n].uri /\ r[k].group = d[n].group /\ r[k].author = d[n].author
      BY <1>3, <3>2, RankedParts
    <3>4. ASSUME NEW i \in DOMAIN c, NEW f \in DOMAIN c, IsFirst(c, i, f),
                 c[f].author \notin Banned
          PROVE  \E k \in DOMAIN r : /\ r[k].uri = c[f].uri /\ r[k].group = c[f].group
                                     /\ r[k].author = c[f].author
      <4>1. PICK n \in DOMAIN d : d[n] = c[f]
        BY <3>2, <3>4
      <4> QED  BY <3>3, <3>4, <4>1
    <3> QED  BY <3>3, <3>4
  <2>2. CASE ~built.dedup
    <3>1. d \in Seq(Candidate)
      BY <1>0, <1>5, <2>2
    <3> QED  BY <1>3, <2>2, <3>1, RankedParts
  <2> QED  BY <2>1, <2>2
<1>7. Typed'
  BY <1>1, <1>4, <1>5, <1>6 DEF Typed, TypeOK
<1>8. Apart'
  BY <1>4, <1>6, EmptyParts DEF Apart
<1>9. Conserved'
  <2>1. Len(r) \in Nat
    BY <1>6
  <2>2. ToSet(<<>>) = {}
    BY EmptyParts DEF ToSet
  <2>3. Len(<<>>) + Len(r) = Len(r)
    BY <2>1, EmptyParts
  <2>4. ToSet(<<>>) \cup ToSet(r) = ToSet(r)
    BY <2>2
  <2> QED  BY <1>4, <2>3, <2>4 DEF Conserved
<1>10. Represented'
  BY <1>4, <1>6 DEF Represented
<1>11. Waiting' /\ Ended' /\ Ranked' /\ Filling'
  BY <1>1, <1>4, EmptyParts DEF Waiting, Ended, Ranked, Filling
<1> QED  BY <1>7, <1>8, <1>9, <1>10, <1>11 DEF PipelineInv

LEMMA FinishKeeps ==
  ASSUME PipelineInv, Finish
  PROVE  PipelineInv'
<1>1. /\ pc = "sample" /\ pc' = "done" /\ UNCHANGED <<built, candidates, collected, pool, selected>>
      /\ Len(selected) = Limit \/ candidates = <<>>
  BY DEF Finish
<1>2. Typed'
  BY <1>1 DEF PipelineInv, Typed, TypeOK, Limit
<1>3. Waiting' /\ Ended'
  BY <1>1 DEF Waiting, Ended, Limit
<1>4. TotalWeight' = TotalWeight
  BY <1>1 DEF TotalWeight, Quotas
<1>5. Ranked' /\ Filling'
  BY <1>1, <1>4 DEF PipelineInv, Ranked, Filling, Rivals, Quoted, Quotas
<1>6. Apart' /\ Conserved' /\ Represented'
  BY <1>1 DEF PipelineInv, Sampling, Apart, Conserved, Represented
<1> QED  BY <1>2, <1>3, <1>5, <1>6 DEF PipelineInv

LEMMA PickDoes ==
  ASSUME PipelineInv, Pick, NEW i, i = PickIndex, NEW n, n = Len(selected)
  PROVE  /\ selected' \in Seq(Candidate) /\ candidates' \in Seq(Candidate)
         /\ Len(selected') = n + 1 /\ Len(candidates') = Len(candidates) - 1
         /\ \A k \in 1..n : selected'[k] = selected[k]
         /\ n \in Nat /\ DOMAIN selected' = 1..(n + 1) /\ selected'[n + 1] = candidates[i]
         /\ i \in DOMAIN candidates
         /\ \E from : Without(candidates, i, candidates', from)
<1>1. /\ built \in Pipelines /\ candidates \in Seq(Candidate) /\ selected \in Seq(Candidate)
      /\ candidates # <<>>
  BY DEF PipelineInv, Typed, TypeOK, Pick
<1>2. i \in DOMAIN candidates /\ candidates[i] \in Candidate
  BY <1>1, PickParts
<1>3. /\ selected' = Append(selected, candidates[i])
      /\ candidates' = SwapRemove(candidates, i)
  BY DEF Pick
<1>4. /\ selected' \in Seq(Candidate) /\ Len(selected') = n + 1 /\ selected'[n + 1] = candidates[i]
      /\ \A k \in 1..n : selected'[k] = selected[k]
  BY <1>1, <1>2, <1>3, AppendProperties
<1>5. /\ candidates' \in Seq(Candidate) /\ Len(candidates') = Len(candidates) - 1
      /\ \E from : Without(candidates, i, candidates', from)
  BY <1>1, <1>2, <1>3, SwapRemoved
<1>6. n \in Nat /\ DOMAIN selected' = 1..(n + 1)
  BY <1>1, <1>4
<1> QED  BY <1>2, <1>4, <1>5, <1>6

LEMMA PickKeeps ==
  ASSUME PipelineInv, Pick
  PROVE  PipelineInv'
<1>1. PICK i, n, x : i = PickIndex /\ n = Len(selected) /\ x = candidates[i]
  OBVIOUS
<1>2. PICK from : Without(candidates, i, candidates', from)
  BY <1>1, PickDoes
<1>3. /\ selected' \in Seq(Candidate) /\ candidates' \in Seq(Candidate)
      /\ Len(selected') = n + 1 /\ Len(candidates') = Len(candidates) - 1
      /\ \A k \in 1..n : selected'[k] = selected[k]
  BY <1>1, PickDoes
<1>4. /\ built \in Pipelines /\ candidates \in Seq(Candidate) /\ selected \in Seq(Candidate)
      /\ candidates # <<>> /\ pc = "sample" /\ Len(selected) < Limit
      /\ UNCHANGED <<built, pc, arrived, replies, collected, pool>>
      /\ Apart /\ Conserved /\ Represented /\ Ranked /\ Filling
      /\ collected \in Seq(Candidate) /\ pool \in Seq(Candidate)
  BY DEF PipelineInv, Typed, TypeOK, Pick, Sampling
<1>5. /\ n \in Nat /\ DOMAIN selected = 1..n /\ Len(candidates) \in Nat /\ Limit \in Nat
      /\ Limit' = Limit
  BY <1>1, <1>4, BuiltParts DEF Limit
<1>6. /\ DOMAIN selected' = 1..(n + 1) /\ selected'[n + 1] = x /\ i \in DOMAIN candidates
      /\ from \in [DOMAIN candidates' -> DOMAIN candidates \ {i}]
      /\ \A k \in DOMAIN candidates' : candidates'[k] = candidates[from[k]]
      /\ \A j \in DOMAIN candidates \ {i} : \E k \in DOMAIN candidates' : from[k] = j
      /\ \A k, l \in DOMAIN candidates' : from[k] = from[l] => k = l
  BY <1>1, <1>2, PickDoes DEF Without
<1>7. Typed'
  <2>1. Len(selected') <= Limit
    BY <1>1, <1>3, <1>4, <1>5
  <2> QED  BY <1>3, <1>4, <1>5, <2>1 DEF PipelineInv, Typed, TypeOK
<1>8. Waiting' /\ Ended'
  BY <1>4 DEF Waiting, Ended
<1>9. ASSUME NEW k \in DOMAIN selected' PROVE k = n + 1 \/ (k \in DOMAIN selected /\ k < n + 1)
  BY <1>5, <1>6
<1>10. \A k \in DOMAIN selected : selected'[k] = selected[k]
  BY <1>3, <1>5
<1>11. Apart'
  <2> SUFFICES ASSUME built.dedup PROVE Apart'
    BY <1>4 DEF Apart
  <2>1. ASSUME NEW k \in DOMAIN selected', NEW l \in DOMAIN selected',
               selected'[k].uri = selected'[l].uri
        PROVE  k = l
    BY <2>1, <1>1, <1>4, <1>6, <1>9, <1>10 DEF Apart
  <2>2. ASSUME NEW k \in DOMAIN candidates', NEW l \in DOMAIN candidates',
               candidates'[k].uri = candidates'[l].uri
        PROVE  k = l
    <3>1. from[k] = from[l]
      BY <2>2, <1>4, <1>6 DEF Apart
    <3> QED  BY <3>1, <1>6
  <2>3. ASSUME NEW k \in DOMAIN selected', NEW l \in DOMAIN candidates'
        PROVE  selected'[k].uri # candidates'[l].uri
    <3>1. from[l] \in DOMAIN candidates /\ from[l] # i /\ candidates'[l] = candidates[from[l]]
      BY <1>6
    <3>2. CASE k = n + 1
      BY <3>1, <3>2, <1>1, <1>4, <1>6 DEF Apart
    <3>3. CASE k \in DOMAIN selected
      BY <3>1, <3>3, <1>4, <1>10 DEF Apart
    <3> QED  BY <3>2, <3>3, <1>9
  <2> QED  BY <2>1, <2>2, <2>3 DEF Apart
<1>12. Conserved'
  <2>1. Len(selected') + Len(candidates') = Len(pool)
    <3>1. PICK m \in Nat : m = Len(candidates)
      BY <1>5
    <3>2. Len(selected') = n + 1 /\ Len(candidates') = m - 1 /\ n \in Nat
      BY <3>1, <1>3, <1>5
    <3>3. n + m = Len(pool)
      BY <3>1, <1>1, <1>4 DEF Conserved
    <3> QED  BY <3>2, <3>3
  <2>2. ASSUME NEW c PROVE c \in ToSet(selected') \cup ToSet(candidates')
                           <=> c \in ToSet(selected) \cup ToSet(candidates)
    <3>1. ASSUME NEW k \in DOMAIN selected', c = selected'[k]
          PROVE  c \in ToSet(selected) \cup ToSet(candidates)
      BY <3>1, <1>1, <1>6, <1>9, <1>10 DEF ToSet
    <3>2. ASSUME NEW k \in DOMAIN candidates', c = candidates'[k]
          PROVE  c \in ToSet(candidates)
      BY <3>2, <1>6 DEF ToSet
    <3>3. ASSUME NEW k \in DOMAIN selected, c = selected[k]
          PROVE  c \in ToSet(selected')
      <4>1. k \in DOMAIN selected'
        BY <1>5, <1>6
      <4> QED  BY <3>3, <4>1, <1>10 DEF ToSet
    <3>4. ASSUME NEW k \in DOMAIN candidates, c = candidates[k]
          PROVE  c \in ToSet(selected') \cup ToSet(candidates')
      <4>1. CASE k = i
        <5>1. n + 1 \in DOMAIN selected' /\ selected'[n + 1] = c
          BY <3>4, <4>1, <1>1, <1>5, <1>6
        <5> QED  BY <5>1 DEF ToSet
      <4>2. CASE k # i
        <5>1. PICK l \in DOMAIN candidates' : from[l] = k
          BY <4>2, <1>6
        <5> QED  BY <5>1, <3>4, <1>6 DEF ToSet
      <4> QED  BY <4>1, <4>2
    <3> QED  BY <3>1, <3>2, <3>3, <3>4 DEF ToSet
  <2>3. ToSet(selected') \cup ToSet(candidates') = ToSet(pool)
    BY <2>2, <1>4 DEF Conserved
  <2> QED  BY <2>1, <2>3, <1>4 DEF Conserved
<1>13. Represented'
  BY <1>4 DEF Represented
<1>14. PICK t : t = TotalWeight /\ TotalWeight' = t
  BY <1>4 DEF TotalWeight, Quotas
<1>15. Ranked'
  <2>1. \A j \in DOMAIN candidates :
           t = 0 \/ candidates[j].group = x.group => candidates[j].score <= x.score
    BY <1>1, <1>4, <1>14, PickParts
  <2>2. ASSUME NEW k \in DOMAIN selected',
               NEW j \in DOMAIN selected', k < j, t = 0 \/ selected'[j].group = selected'[k].group
        PROVE  selected'[j].score <= selected'[k].score
    <3>1. k \in DOMAIN selected /\ selected'[k] = selected[k]
      BY <2>2, <1>5, <1>6, <1>9, <1>10
    <3>2. CASE j = n + 1
      BY <3>1, <3>2, <2>2, <1>1, <1>4, <1>6, <1>14 DEF Ranked, Rivals
    <3>3. CASE j \in DOMAIN selected
      BY <3>1, <3>3, <2>2, <1>4, <1>10, <1>14 DEF Ranked, Rivals
    <3> QED  BY <3>2, <3>3, <1>9
  <2>3. ASSUME NEW k \in DOMAIN selected',
               NEW j \in DOMAIN candidates', t = 0 \/ candidates'[j].group = selected'[k].group
        PROVE  candidates'[j].score <= selected'[k].score
    <3>1. from[j] \in DOMAIN candidates /\ candidates'[j] = candidates[from[j]]
      BY <1>6
    <3>2. CASE k = n + 1
      BY <3>1, <3>2, <2>1, <2>3, <1>6
    <3>3. CASE k \in DOMAIN selected
      BY <3>1, <3>3, <2>3, <1>4, <1>10, <1>14 DEF Ranked, Rivals
    <3> QED  BY <3>2, <3>3, <1>9
  <2> QED  BY <2>2, <2>3, <1>14 DEF Ranked, Rivals
<1>16. Filling'
  <2>1. \A c : Quoted(c)' <=> Quoted(c)
    BY <1>4 DEF Quoted, Quotas
  <2>2. t # 0 /\ (\E j \in DOMAIN candidates : Quoted(candidates[j])) => Quoted(x)
    BY <1>1, <1>4, <1>14, PickParts
  <2>3. ASSUME NEW k \in DOMAIN selected', t # 0, ~Quoted(selected'[k])
        PROVE  /\ \A j \in DOMAIN selected' : k < j => ~Quoted(selected'[j])
               /\ \A j \in DOMAIN candidates' : ~Quoted(candidates'[j])
    <3>1. \A j \in DOMAIN candidates' :
             from[j] \in DOMAIN candidates /\ candidates'[j] = candidates[from[j]]
      BY <1>6
    <3>2. CASE k = n + 1
      <4>1. \A j \in DOMAIN selected' : ~ (k < j)
        BY <3>2, <1>5, <1>6
      <4> QED  BY <3>1, <3>2, <4>1, <2>2, <2>3, <1>6
    <3>3. CASE k \in DOMAIN selected
      <4>1. /\ \A j \in DOMAIN selected : k < j => ~Quoted(selected[j])
            /\ \A j \in DOMAIN candidates : ~Quoted(candidates[j])
        BY <3>3, <2>3, <1>4, <1>10, <1>14 DEF Filling
      <4> QED  BY <3>1, <4>1, <1>1, <1>6, <1>9, <1>10
    <3> QED  BY <3>2, <3>3, <1>9
  <2> QED  BY <2>1, <2>3, <1>14 DEF Filling
<1> QED  BY <1>7, <1>8, <1>11, <1>12, <1>13, <1>15, <1>16 DEF PipelineInv

LEMMA NextPipeline == PipelineInv /\ [Next]_vars => PipelineInv'
<1> SUFFICES ASSUME PipelineInv, [Next]_vars PROVE PipelineInv'
  OBVIOUS
<1>1. ASSUME NEW i \in DOMAIN Specs, Arrive(i) PROVE PipelineInv'
  BY <1>1, ArriveKeeps
<1>2. CASE Gather
  BY <1>2, GatherKeeps
<1>3. CASE Rank
  BY <1>3, RankKeeps
<1>4. CASE Pick
  BY <1>4, PickKeeps
<1>5. CASE Finish
  BY <1>5, FinishKeeps
<1>6. CASE UNCHANGED vars
  <2>1. UNCHANGED <<built, pc, arrived, replies, candidates, collected, pool, selected>>
    BY <1>6 DEF vars
  <2>2. Limit' = Limit /\ Quotas' = Quotas /\ Specs' = Specs /\ TotalWeight' = TotalWeight
    BY <2>1 DEF Limit, Quotas, Specs, TotalWeight
  <2>3. Typed' /\ Waiting' /\ Ended'
    BY <2>1, <2>2 DEF PipelineInv, Typed, TypeOK, Waiting, Ended
  <2>4. Ranked' /\ Filling'
    BY <2>1, <2>2 DEF PipelineInv, Ranked, Filling, Rivals, Quoted
  <2>5. (Sampling => Apart /\ Conserved /\ Represented)'
    BY <2>1 DEF PipelineInv, Sampling, Apart, Conserved, Represented
  <2> QED  BY <2>3, <2>4, <2>5 DEF PipelineInv
<1> QED  BY <1>1, <1>2, <1>3, <1>4, <1>5, <1>6 DEF Next

LEMMA PipelineReached == Spec => []PipelineInv
<1> QED  BY InitPipeline, NextPipeline, PTL DEF Spec

----------------------------------------------------------------------------
\* What the invariant says of the page.

(* Every collected post has a first copy among those of the best priority. *)
LEMMA FirstExists ==
  ASSUME NEW c \in Seq(Candidate), NEW i \in DOMAIN c
  PROVE  \E f \in DOMAIN c : IsFirst(c, i, f)
<1> DEFINE S == {j \in DOMAIN c : c[j].uri = c[i].uri}
           R == {p \in S \X S : Preferred(c, p[1], p[2])}
<1>1. PICK n \in Nat : DOMAIN c = 1..n /\ \A k \in 1..n : c[k] \in Candidate
  BY SeqParts
<1>2. IsFiniteSet(S) /\ S # {} /\ S \subseteq Nat /\ S \subseteq DOMAIN c
  <2>1. IsFiniteSet(1..n) /\ S \in SUBSET (1..n)
    BY <1>1, FS_Interval
  <2> QED  BY <1>1, <2>1, FS_Subset
<1>3. ASSUME NEW j \in S PROVE PriorityOf[c[j].group] \in Int
  <2>1. c[j].group \in Groups
    BY <1>1, <1>2 DEF Candidate
  <2> QED  BY <2>1, PipelineAssumption
<1>4. \A j, k \in S : <<j, k>> \in R <=> Preferred(c, j, k)
  OBVIOUS
<1>5. \A j : j \in S <=> j \in DOMAIN c /\ c[j].uri = c[i].uri
  OBVIOUS
<1> HIDE DEF S, R
<1>6. Orders(R, S)
  <2>1. \A j \in S : <<j, j>> \notin R
    BY <1>2, <1>3, <1>4 DEF Preferred
  <2>2. ASSUME NEW j \in S, NEW k \in S PROVE j = k \/ <<j, k>> \in R \/ <<k, j>> \in R
    <3>1. j = k \/ Preferred(c, j, k) \/ Preferred(c, k, j)
      BY <1>2, <1>3 DEF Preferred
    <3> QED  BY <1>4, <3>1
  <2>3. ASSUME NEW j \in S, NEW k \in S, NEW l \in S, <<j, k>> \in R, <<k, l>> \in R
        PROVE  <<j, l>> \in R
    <3>1. Preferred(c, j, k) /\ Preferred(c, k, l)
      BY <1>4, <2>3
    <3>2. Preferred(c, j, l)
      BY <3>1, <1>2, <1>3 DEF Preferred
    <3> QED  BY <1>4, <3>2
  <2> QED  BY <2>1, <2>2, <2>3 DEF Orders
<1>7. PICK f \in S : \A j \in S : f = j \/ <<f, j>> \in R
  BY <1>2, <1>6, Extremes
<1>8. IsFirst(c, i, f)
  BY <1>4, <1>5, <1>7 DEF IsFirst
<1> QED  BY <1>2, <1>8

LEMMA CopiesInv == PipelineInv => PreferredCopy
<1> SUFFICES ASSUME PipelineInv, Sampling, built.dedup PROVE PreferredCopy
  BY DEF PreferredCopy
<1>1. /\ candidates \in Seq(Candidate) /\ selected \in Seq(Candidate)
      /\ collected \in Seq(Candidate) /\ pool \in Seq(Candidate)
      /\ Apart /\ Represented
  BY DEF PipelineInv, Typed, TypeOK
<1>2. ASSUME NEW k \in DOMAIN (selected \o candidates), NEW l \in DOMAIN (selected \o candidates),
             (selected \o candidates)[k].uri = (selected \o candidates)[l].uri
      PROVE  k = l
  <2>1. PICK n \in Nat : n = Len(selected) /\ DOMAIN selected = 1..n
    BY <1>1, SeqParts
  <2>2. PICK m \in Nat : m = Len(candidates) /\ DOMAIN candidates = 1..m
    BY <1>1, SeqParts
  <2>3. /\ DOMAIN (selected \o candidates) = 1..(n + m)
        /\ \A j \in 1..(n + m) : (selected \o candidates)[j] =
              IF j <= n THEN selected[j] ELSE candidates[j - n]
    BY <1>1, <2>1, <2>2, ConcatProperties
  <2>4. k \in 1..(n + m) /\ l \in 1..(n + m)
    BY <2>3
  <2>5. CASE k <= n /\ l <= n
    <3>1. k \in DOMAIN selected /\ l \in DOMAIN selected
      BY <2>1, <2>4, <2>5
    <3>2. selected[k].uri = selected[l].uri
      BY <1>2, <2>3, <2>4, <2>5
    <3> QED  BY <1>1, <3>1, <3>2 DEF Apart
  <2>6. CASE k <= n /\ ~ (l <= n)
    <3>1. k \in DOMAIN selected /\ l - n \in DOMAIN candidates
      BY <2>1, <2>2, <2>4, <2>6
    <3> QED  BY <1>1, <1>2, <2>3, <2>4, <2>6, <3>1 DEF Apart
  <2>7. CASE ~ (k <= n) /\ l <= n
    <3>1. l \in DOMAIN selected /\ k - n \in DOMAIN candidates
      BY <2>1, <2>2, <2>4, <2>7
    <3> QED  BY <1>1, <1>2, <2>3, <2>4, <2>7, <3>1 DEF Apart
  <2>8. CASE ~ (k <= n) /\ ~ (l <= n)
    <3>1. k - n \in DOMAIN candidates /\ l - n \in DOMAIN candidates
      BY <2>2, <2>4, <2>8
    <3>2. k - n = l - n
      BY <1>1, <1>2, <2>3, <2>4, <2>8, <3>1 DEF Apart
    <3> QED  BY <2>4, <3>2
  <2> QED  BY <2>5, <2>6, <2>7, <2>8
<1>3. LET offered == selected \o candidates
      IN IsInjective([i \in DOMAIN offered |-> offered[i].uri])
  BY <1>2 DEF IsInjective
<1>4. ASSUME NEW i \in DOMAIN collected PROVE Kept(i)
  <2> DEFINE copies == {j \in DOMAIN collected : collected[j].uri = collected[i].uri}
             prio(j) == PriorityOf[collected[j].group]
             first == CHOOSE j \in copies : \A k \in copies :
                         prio(j) < prio(k) \/ (prio(j) = prio(k) /\ j <= k)
  <2>0. \A j : j \in copies <=> j \in DOMAIN collected /\ collected[j].uri = collected[i].uri
    OBVIOUS
  <2>1. PICK f \in DOMAIN collected : IsFirst(collected, i, f)
    BY <1>1, FirstExists
  <2>2. DOMAIN collected \subseteq Nat
    BY <1>1
  <2> HIDE DEF copies
  <2>3. f \in copies /\ \A k \in copies : prio(f) < prio(k) \/ (prio(f) = prio(k) /\ f <= k)
    BY <2>0, <2>1, <2>2 DEF IsFirst, Preferred
  <2>4. /\ first \in copies
        /\ \A k \in copies : prio(first) < prio(k) \/ (prio(first) = prio(k) /\ first <= k)
    <3> HIDE DEF prio
    <3> QED  BY <2>3
  <2> HIDE DEF first
  <2>5. IsFirst(collected, i, first)
    BY <2>0, <2>2, <2>4 DEF IsFirst, Preferred
  <2>6. first \in DOMAIN collected
    BY <2>0, <2>4
  <2>7. ASSUME collected[first].author \notin Banned
        PROVE  \E c \in ToSet(pool) : /\ c.uri = collected[first].uri
                                      /\ c.group = collected[first].group
                                      /\ c.author = collected[first].author
    <3>1. PICK k \in DOMAIN pool : /\ pool[k].uri = collected[first].uri
                                   /\ pool[k].group = collected[first].group
                                   /\ pool[k].author = collected[first].author
      BY <1>1, <2>5, <2>6, <2>7 DEF Represented
    <3>2. pool[k] \in ToSet(pool)
      BY DEF ToSet
    <3> QED  BY <3>1, <3>2
  <2>8. \/ collected[first].author \in Banned
        \/ \E c \in ToSet(pool) : /\ c.uri = collected[first].uri
                                  /\ c.group = collected[first].group
                                  /\ c.author = collected[first].author
    BY <2>7
  <2> QED  BY <2>8, Zenon DEF Kept, first, copies
<1> QED  BY <1>3, <1>4 DEF PreferredCopy

LEMMA BestInv == PipelineInv => BestFirst
<1> SUFFICES ASSUME PipelineInv PROVE BestFirst
  OBVIOUS
<1>1. /\ candidates \in Seq(Candidate) /\ selected \in Seq(Candidate) /\ pool \in Seq(Candidate)
      /\ built \in Pipelines /\ Ranked /\ Len(selected) <= Limit /\ Ended
      /\ Sampling => Conserved
  BY DEF PipelineInv, Typed, TypeOK
<1>2. PICK n \in Nat : n = Len(selected) /\ DOMAIN selected = 1..n
                       /\ \A k \in 1..n : selected[k] \in Candidate
  BY <1>1, SeqParts
<1>3. ASSUME NEW i \in DOMAIN selected, NEW j \in (i + 1)..Len(selected),
             TotalWeight = 0 \/ selected[j].group = selected[i].group
      PROVE  selected[i].score >= selected[j].score
  <2>1. j \in DOMAIN selected /\ i < j
    BY <1>2
  <2>2. selected[i].score \in Nat /\ selected[j].score \in Nat
    BY <1>2, <2>1 DEF Candidate
  <2>3. selected[j].score <= selected[i].score
    BY <1>1, <1>3, <2>1 DEF Ranked, Rivals
  <2> QED  BY <2>2, <2>3
<1>4. ASSUME NEW i \in DOMAIN selected, NEW c \in ToSet(candidates),
             TotalWeight = 0 \/ c.group = selected[i].group
      PROVE  selected[i].score >= c.score
  <2>1. PICK j \in DOMAIN candidates : c = candidates[j]
    BY DEF ToSet
  <2>2. candidates[j] \in Candidate
    BY <1>1
  <2>3. selected[i].score \in Nat /\ c.score \in Nat
    BY <1>2, <2>1, <2>2 DEF Candidate
  <2>4. c.score <= selected[i].score
    BY <1>1, <1>4, <2>1 DEF Ranked, Rivals
  <2> QED  BY <2>3, <2>4
<1>5. Sampling => ToSet(selected) \cup ToSet(candidates) = ToSet(pool)
  BY <1>1 DEF Conserved
<1>6. ASSUME pc = "done" PROVE n = Min({Limit, Len(pool)})
  <2>1. PICK m \in Nat, l \in Nat, t \in Nat : m = Len(candidates) /\ l = Limit /\ t = Len(pool)
    BY <1>1, BuiltParts
  <2>2. n + m = t
    BY <1>1, <1>2, <1>6, <2>1 DEF Conserved, Sampling
  <2>3. n = l \/ m = 0
    BY <1>1, <1>2, <1>6, <2>1 DEF Ended
  <2>4. n \in {l, t} /\ n <= l /\ n <= t
    BY <1>1, <1>2, <2>1, <2>2, <2>3
  <2>5. \A x \in {l, t} : (\A y \in {l, t} : x <= y) => x = n
    BY <2>4
  <2>6. n \in {l, t} /\ \A y \in {l, t} : n <= y
    BY <2>4
  <2>7. Min({l, t}) = n
    BY <2>5, <2>6 DEF Min
  <2> QED  BY <2>1, <2>7
<1> QED  BY <1>2, <1>3, <1>4, <1>5, <1>6 DEF BestFirst

----------------------------------------------------------------------------
\* The share of a group.

\* A set no larger than another can be mapped into it.
LEMMA Injects ==
  ASSUME NEW X, NEW Y, IsFiniteSet(X), IsFiniteSet(Y), Cardinality(X) <= Cardinality(Y)
  PROVE  \E f : f \in Injection(X, Y)
<1>1. PICK c \in Nat, d \in Nat : c = Cardinality(X) /\ d = Cardinality(Y) /\ c <= d
  BY CardinalityNat
<1>2. PICK g : g \in Bijection(1..c, X)
  BY <1>1, FS_CardinalityType DEF ExistsBijection
<1>3. PICK h : h \in Bijection(1..d, Y)
  BY <1>1, FS_CardinalityType DEF ExistsBijection
<1>4. PICK b : b \in Bijection(X, 1..c)
  BY <1>2, Fun_BijInverse
<1>5. /\ b \in [X -> 1..c] /\ \A x, y \in X : b[x] = b[y] => x = y
      /\ h \in [1..d -> Y] /\ \A k, l \in 1..d : h[k] = h[l] => k = l
  BY <1>3, <1>4, Fun_BijectionProperties
<1> DEFINE f == [x \in X |-> h[b[x]]]
<1>6. \A x \in X : b[x] \in 1..d
  BY <1>1, <1>5
<1>7. f \in [X -> Y]
  BY <1>5, <1>6
<1>8. \A x, y \in X : f[x] = f[y] => x = y
  BY <1>5, <1>6
<1> HIDE DEF f
<1>9. f \in Injection(X, Y)
  BY <1>7, <1>8 DEF Injection, IsInjective
<1> QED  BY <1>9

\* U is the union of a family of sets, V holds a family of disjoint sets,
\* each at least as large as its counterpart.
Outnumbered(N, X, Y, U, V) ==
    /\ IsFiniteSet(V)
    /\ \A u : u \in U <=> \E q \in N : u \in X[q]
    /\ \A q \in N : /\ IsFiniteSet(X[q]) /\ Y[q] \in SUBSET V
                    /\ Cardinality(X[q]) <= Cardinality(Y[q])
    /\ \A p, q \in N : p # q => Y[p] \cap Y[q] = {}

(* Sets that are each no larger than one of several disjoint sets are      *)
(* together no larger than those.                                          *)
LEMMA Families ==
  ASSUME NEW N, NEW X, NEW Y, NEW U, NEW V, Outnumbered(N, X, Y, U, V)
  PROVE  Cardinality(U) <= Cardinality(V)
<1>0. /\ IsFiniteSet(V)
      /\ \A u : u \in U <=> \E q \in N : u \in X[q]
      /\ \A q \in N : /\ IsFiniteSet(X[q]) /\ Y[q] \in SUBSET V
                      /\ Cardinality(X[q]) <= Cardinality(Y[q])
      /\ \A p, q \in N : p # q => Y[p] \cap Y[q] = {}
  BY DEF Outnumbered
<1> DEFINE F == [q \in N |-> CHOOSE f : f \in Injection(X[q], Y[q])]
           home == [u \in U |-> CHOOSE q \in N : u \in X[q]]
           g == [u \in U |-> F[home[u]][u]]
<1>1. ASSUME NEW q \in N
      PROVE  /\ F[q] \in [X[q] -> Y[q]]
             /\ \A u, v \in X[q] : F[q][u] = F[q][v] => u = v
  <2>1. IsFiniteSet(Y[q])
    BY <1>0, FS_Subset
  <2>2. \E f : f \in Injection(X[q], Y[q])
    BY <1>0, <2>1, Injects
  <2>3. F[q] \in Injection(X[q], Y[q])
    BY <2>2
  <2> HIDE DEF F
  <2> QED  BY <2>3, Fun_InjectionProperties
<1>2. ASSUME NEW u \in U PROVE home[u] \in N /\ u \in X[home[u]]
  BY <1>0
<1>3. \A u \in U : g[u] = F[home[u]][u]
  OBVIOUS
<1>4. DOMAIN g = U /\ g = [u \in U |-> g[u]]
  OBVIOUS
<1> HIDE DEF F, home, g
<1>5. ASSUME NEW u \in U PROVE g[u] \in Y[home[u]] /\ g[u] \in V
  BY <1>0, <1>1, <1>2, <1>3
<1>6. ASSUME NEW u \in U, NEW v \in U, g[u] = g[v] PROVE u = v
  <2>1. home[u] = home[v]
    BY <1>0, <1>2, <1>5, <1>6
  <2> QED  BY <2>1, <1>1, <1>2, <1>3, <1>6
<1>7. g \in [U -> V]
  BY <1>4, <1>5
<1>8. g \in Injection(U, V)
  BY <1>6, <1>7 DEF Injection, IsInjective
<1> QED  BY <1>0, <1>8, FS_Injection

Placed(group) == {i \in DOMAIN selected : selected[i].group = group}

LEMMA PlacedParts ==
  ASSUME selected \in Seq(Candidate), NEW group
  PROVE  /\ IsFiniteSet(Placed(group)) /\ Placed(group) \in SUBSET (1..Len(selected))
         /\ CountOf(group) = Cardinality(Placed(group)) /\ CountOf(group) \in Nat
<1>1. PICK n \in Nat : n = Len(selected) /\ DOMAIN selected = 1..n
  BY SeqParts
<1>2. IsFiniteSet(1..n) /\ Placed(group) \in SUBSET (1..n)
  BY <1>1, FS_Interval DEF Placed
<1>3. IsFiniteSet(Placed(group))
  BY <1>2, FS_Subset
<1>4. CountOf(group) = Cardinality(Placed(group))
  BY DEF CountOf, Placed
<1> QED  BY <1>1, <1>2, <1>3, <1>4, CardinalityNat

(* There is always a quota that is due: the shares of n + 1 posts add up   *)
(* to more than the n posts that have been picked.                         *)
LEMMA SomeDeficit ==
  ASSUME built \in Pipelines, selected \in Seq(Candidate), TotalWeight > 0
  PROVE  \E q \in DOMAIN Quotas : Deficit(q) > 0
<1>1. PICK k \in Nat : DOMAIN Quotas = 1..k /\ \A q \in 1..k : Quotas[q].weight \in Nat
  BY QuotaParts
<1>2. PICK n \in Nat : n = Len(selected) /\ DOMAIN selected = 1..n
  BY SeqParts
<1>3. PICK t \in Nat : t = TotalWeight /\ t > 0
  BY TotalWeightNat
<1> SUFFICES ASSUME \A q \in 1..k : ~ (Deficit(q) > 0) PROVE FALSE
  BY <1>1
<1> DEFINE due == [q \in 1..k |-> {q} \X (1..Quotas[q].weight)]
           all == UNION {due[q] : q \in 1..k}
           X == [q \in 1..k |-> Grid(due[q], n + 1)]
           Y == [q \in 1..k |-> Grid(Placed(Quotas[q].group), t)]
           U == Grid(all, n + 1)
           V == Grid(1..n, t)
<1>4. ASSUME NEW q \in 1..k
      PROVE  IsFiniteSet(due[q]) /\ Cardinality(due[q]) = Quotas[q].weight
  <2>1. PICK w \in Nat : w = Quotas[q].weight
    BY <1>1
  <2>2. IsFiniteSet({q} \X (1..w)) /\ Cardinality({q} \X (1..w)) = w
    BY ColumnSize
  <2> QED  BY <2>1, <2>2
<1>5. IsFiniteSet(all) /\ Cardinality(all) = t
  <2>1. TotalWeight = Cardinality(all) /\ DOMAIN due = 1..k
    BY <1>1 DEF TotalWeight
  <2> HIDE DEF due
  <2> QED  BY <2>1, <1>3, <1>4, FiniteUnion
<1>6. n + 1 \in Nat
  OBVIOUS
<1>7. IsFiniteSet(1..n) /\ Cardinality(1..n) = n
  BY FS_Interval
<1>8. Cardinality(U) = t * (n + 1)
  <2> HIDE DEF all
  <2> QED  BY <1>5, <1>6, GridSize
<1>9. IsFiniteSet(V) /\ Cardinality(V) = n * t
  BY <1>7, GridSize
<1>10. \A u : u \in U <=> \E q \in 1..k : u \in X[q]
  <2>1. \A x : x \in all <=> \E q \in 1..k : x \in due[q]
    <3> HIDE DEF due
    <3> QED  OBVIOUS
  <2>2. ASSUME NEW u, u \in U PROVE \E q \in 1..k : u \in X[q]
    <3> HIDE DEF due, all
    <3>1. PICK x \in all, y \in 1..(n + 1) : u = <<x, y>>
      BY <2>2 DEF Grid
    <3> QED  BY <2>1, <3>1 DEF Grid
  <2>3. ASSUME NEW u, NEW q \in 1..k, u \in X[q] PROVE u \in U
    <3> HIDE DEF due, all
    <3>1. PICK x \in due[q], y \in 1..(n + 1) : u = <<x, y>>
      BY <2>3 DEF Grid
    <3> QED  BY <2>1, <3>1 DEF Grid
  <2> HIDE DEF U, X
  <2> QED  BY <2>2, <2>3
<1>11. ASSUME NEW q \in 1..k
       PROVE  /\ IsFiniteSet(X[q]) /\ Y[q] \in SUBSET V
              /\ Cardinality(X[q]) <= Cardinality(Y[q])
  <2>1. PICK w \in Nat, m \in Nat : w = Quotas[q].weight /\ m = CountOf(Quotas[q].group)
    BY <1>1, PlacedParts
  <2>2. IsFiniteSet(X[q]) /\ Cardinality(X[q]) = w * (n + 1)
    <3> HIDE DEF due
    <3>1. PICK S : S = due[q] /\ X[q] = Grid(S, n + 1)
      OBVIOUS
    <3>2. IsFiniteSet(S) /\ Cardinality(S) = w
      BY <1>4, <2>1, <3>1
    <3> QED  BY <1>6, <3>1, <3>2, GridSize
  <2>3. PICK P \in SUBSET (1..n) : /\ P = Placed(Quotas[q].group)
                                   /\ IsFiniteSet(P) /\ Cardinality(P) = m
    BY <1>2, <2>1, PlacedParts
  <2>4. Cardinality(Grid(P, t)) = m * t
    BY <2>3, GridSize
  <2>5. Y[q] = Grid(P, t)
    BY <2>3
  <2>6. w * (n + 1) - m * t <= 0
    <3>1. Deficit(q) = w * (n + 1) - m * t
      BY <1>2, <1>3, <2>1 DEF Deficit
    <3> QED  BY <3>1
  <2>7. w * (n + 1) <= m * t
    <3>1. PICK x \in Int, y \in Int : x = w * (n + 1) /\ y = m * t
      OBVIOUS
    <3> QED  BY <3>1, <2>6
  <2>8. Y[q] \in SUBSET V
    BY <2>3, <2>5 DEF Grid
  <2> HIDE DEF X, Y, V
  <2> QED  BY <2>2, <2>4, <2>5, <2>7, <2>8
<1>12. ASSUME NEW p \in 1..k, NEW q \in 1..k, p # q PROVE Y[p] \cap Y[q] = {}
  <2>1. Quotas[p].group # Quotas[q].group
    BY <1>1, <1>12, PipelineAssumption DEF Quotas
  <2>2. Placed(Quotas[p].group) \cap Placed(Quotas[q].group) = {}
    BY <2>1 DEF Placed
  <2>3. PICK P, Q : /\ P = Placed(Quotas[p].group) /\ Q = Placed(Quotas[q].group)
                    /\ P \cap Q = {}
    BY <2>2
  <2>4. Y[p] = P \X (1..t) /\ Y[q] = Q \X (1..t)
    BY <2>3 DEF Grid
  <2> HIDE DEF Y
  <2>5. ASSUME NEW y, y \in Y[p], y \in Y[q] PROVE FALSE
    <3>1. y[1] \in P /\ y[1] \in Q
      BY <2>4, <2>5
    <3> QED  BY <2>3, <3>1
  <2> QED  BY <2>5
<1>13. Cardinality(U) <= Cardinality(V)
  <2> HIDE DEF X, Y, U, V
  <2>1. Outnumbered(1..k, X, Y, U, V)
    BY <1>9, <1>10, <1>11, <1>12 DEF Outnumbered
  <2> QED  BY <2>1, Families
<1> QED  BY <1>3, <1>8, <1>9, <1>13

\* Where a group is placed after a pick.
LEMMA PlacedAfter ==
  ASSUME PipelineInv, Pick, NEW group, NEW x, x = candidates[PickIndex],
         NEW m \in Nat, m = CountOf(group)
  PROVE  CountOf(group)' = IF x.group = group THEN m + 1 ELSE m
<1>1. PICK n \in Nat : /\ n = Len(selected) /\ DOMAIN selected = 1..n
                       /\ DOMAIN selected' = 1..(n + 1) /\ selected'[n + 1] = x
                       /\ \A k \in 1..n : selected'[k] = selected[k]
  <2>1. PICK n \in Nat : n = Len(selected) /\ DOMAIN selected = 1..n
    BY DEF PipelineInv, Typed, TypeOK
  <2>2. PICK i : i = PickIndex
    OBVIOUS
  <2> QED  BY <2>1, <2>2, PickDoes
<1>2. IsFiniteSet(Placed(group)) /\ Placed(group) \in SUBSET (1..n) /\ m = Cardinality(Placed(group))
  BY <1>1, PlacedParts DEF PipelineInv, Typed, TypeOK
<1>3. \A k : k \in Placed(group) <=> k \in 1..n /\ selected[k].group = group
  BY <1>1 DEF Placed
<1> DEFINE after == {k \in DOMAIN selected' : selected'[k].group = group}
<1>4. CountOf(group)' = Cardinality(after)
  BY DEF CountOf
<1>5. \A k : k \in after <=> k \in 1..(n + 1) /\ selected'[k].group = group
  BY <1>1
<1> HIDE DEF after
<1>6. \A k : k \in 1..(n + 1) <=> k \in 1..n \/ k = n + 1
  BY <1>1
<1>7. n + 1 \notin 1..n
  BY <1>1
<1>8. CASE x.group = group
  <2>1. after = Placed(group) \cup {n + 1}
    BY <1>1, <1>3, <1>5, <1>6, <1>8
  <2> QED  BY <1>2, <1>4, <1>7, <1>8, <2>1, FS_AddElement
<1>9. CASE x.group # group
  <2>1. after = Placed(group)
    BY <1>1, <1>3, <1>5, <1>6, <1>9
  <2> QED  BY <1>2, <1>4, <1>9, <2>1
<1> QED  BY <1>8, <1>9

(* A pick goes to the neediest quota r, which was due, while all groups    *)
(* have candidates left: what the others have is set against a larger page.*)
LEMMA PickOfShare ==
  ASSUME PipelineInv, Pick, Balanced'
  PROVE  /\ Balanced /\ Quotas' = Quotas /\ TotalWeight' = TotalWeight
         /\ \E r \in DOMAIN Quotas :
               /\ Deficit(r) > 0
               /\ \A q \in DOMAIN Quotas :
                     /\ Deficit(q) <= Deficit(r)
                     /\ Excess(q)' = (IF q = r THEN TotalWeight ELSE 0) - Deficit(q)
<1>1. /\ built \in Pipelines /\ candidates \in Seq(Candidate) /\ selected \in Seq(Candidate)
      /\ pc = "sample" /\ built' = built
  BY DEF PipelineInv, Typed, TypeOK, Pick
<1>2. Quotas' = Quotas /\ TotalWeight' = TotalWeight
  BY <1>1 DEF Quotas, TotalWeight
<1>3. PICK i, n : i = PickIndex /\ n = Len(selected)
  OBVIOUS
<1>4. PICK from : Without(candidates, i, candidates', from)
  BY <1>3, PickDoes
<1>5. n \in Nat /\ Len(selected') = n + 1
  BY <1>3, PickDoes
<1>6. PICK t \in Nat : t = TotalWeight /\ t > 0 /\ TotalWeight' = t
  BY <1>1, <1>2, TotalWeightNat DEF Balanced
<1>7. Available = DOMAIN Quotas
  <2>1. ASSUME NEW p \in DOMAIN Quotas PROVE InGroup(Quotas[p].group) # {}
    <3>1. PICK k \in DOMAIN candidates' : candidates'[k].group = Quotas[p].group
      BY <1>2 DEF Balanced, Available, InGroup
    <3>2. from[k] \in DOMAIN candidates /\ candidates[from[k]].group = Quotas[p].group
      BY <1>4, <3>1 DEF Without
    <3> QED  BY <3>2 DEF InGroup
  <2> QED  BY <2>1 DEF Available
<1>8. Balanced
  BY <1>1, <1>6, <1>7 DEF Balanced, Sampling
<1>9. PICK r \in DOMAIN Quotas : /\ r = NeediestQuota /\ Deficit(r) > 0
                                 /\ \A q \in DOMAIN Quotas : Deficit(q) <= Deficit(r)
  <2>1. PICK p \in DOMAIN Quotas : Deficit(p) > 0
    BY <1>1, <1>6, SomeDeficit
  <2>2. /\ NeediestQuota \in DOMAIN Quotas
        /\ \A q \in DOMAIN Quotas : Deficit(q) <= Deficit(NeediestQuota)
    BY <1>1, <1>7, <2>1, NeediestAvailable
  <2>3. Deficit(p) \in Int /\ Deficit(NeediestQuota) \in Int
    BY <1>1, <2>2, DeficitInt
  <2> QED  BY <2>1, <2>2, <2>3
<1>10. PICK x : x = candidates[i] /\ x.group = Quotas[r].group
  <2>1. PICK S \in SUBSET DOMAIN candidates : S = InGroup(Quotas[r].group) /\ S # {}
    BY <1>7, <1>9 DEF Available, InGroup
  <2>2. i = Best(S)
    BY <1>3, <1>6, <1>7, <1>9, <2>1 DEF PickIndex
  <2>3. i \in S
    BY <1>1, <2>1, <2>2, BestParts
  <2> QED  BY <2>1, <2>3 DEF InGroup
<1>11. ASSUME NEW q \in DOMAIN Quotas
       PROVE  Excess(q)' = (IF q = r THEN t ELSE 0) - Deficit(q)
  <2>1. PICK w \in Nat, m \in Nat : w = Quotas[q].weight /\ m = CountOf(Quotas[q].group)
    BY <1>1, QuotaParts, PlacedParts
  <2>2. PICK group : group = Quotas[q].group /\ group = Quotas'[q].group
    BY <1>2
  <2>3. PICK m1 : m1 = CountOf(group)' /\ m1 = IF x.group = group THEN m + 1 ELSE m
    BY <1>3, <1>10, <2>1, <2>2, PlacedAfter
  <2>4. Excess(q)' = m1 * t - w * (n + 1)
    BY <1>2, <1>5, <1>6, <2>1, <2>2, <2>3 DEF Excess
  <2>5. Deficit(q) = w * (n + 1) - m * t
    BY <1>3, <1>6, <2>1 DEF Deficit
  <2>6. x.group = group <=> q = r
    BY <1>1, <1>9, <1>10, <2>2, PipelineAssumption DEF Quotas
  <2>7. (m + 1) * t - w * (n + 1) = t - (w * (n + 1) - m * t)
    BY <1>5
  <2>8. m * t - w * (n + 1) = 0 - (w * (n + 1) - m * t)
    BY <1>5
  <2> QED  BY <2>3, <2>4, <2>5, <2>6, <2>7, <2>8
<1> QED  BY <1>2, <1>6, <1>8, <1>9, <1>11

\* A group's excess is what it is owed of the next post less its deficit.
LEMMA ExcessParts ==
  ASSUME PipelineInv, NEW q \in DOMAIN Quotas
  PROVE  \E w \in Nat : /\ w <= TotalWeight /\ TotalWeight \in Nat
                        /\ Deficit(q) \in Int /\ Excess(q) = w - Deficit(q)
<1>1. built \in Pipelines /\ selected \in Seq(Candidate)
  BY DEF PipelineInv, Typed, TypeOK
<1>2. PICK k \in Nat : DOMAIN Quotas = 1..k /\ \A p \in 1..k : Quotas[p].weight \in Nat
  BY <1>1, QuotaParts
<1>3. PICK w \in Nat, m \in Nat, t \in Nat, n \in Nat :
         /\ w = Quotas[q].weight /\ m = CountOf(Quotas[q].group)
         /\ t = TotalWeight /\ n = Len(selected)
  BY <1>1, <1>2, PlacedParts, TotalWeightNat
<1>4. Excess(q) = m * t - w * n /\ Deficit(q) = w * (n + 1) - m * t
  BY <1>3 DEF Excess, Deficit
<1>5. m * t - w * n = w - (w * (n + 1) - m * t) /\ w * (n + 1) - m * t \in Int
  OBVIOUS
<1>6. w <= t
  <2> DEFINE part == [p \in 1..k |-> {p} \X (1..Quotas[p].weight)]
             all == UNION {part[p] : p \in 1..k}
  <2>1. ASSUME NEW p \in 1..k PROVE IsFiniteSet(part[p]) /\ Cardinality(part[p]) = Quotas[p].weight
    <3>1. PICK v \in Nat : v = Quotas[p].weight
      BY <1>2
    <3>2. IsFiniteSet({p} \X (1..v)) /\ Cardinality({p} \X (1..v)) = v
      BY ColumnSize
    <3> QED  BY <3>1, <3>2
  <2>2. TotalWeight = Cardinality(all) /\ DOMAIN part = 1..k
    BY <1>2 DEF TotalWeight
  <2> HIDE DEF part
  <2>3. IsFiniteSet(all) /\ part[q] \in SUBSET all
    BY <1>2, <2>1, <2>2, FiniteUnion
  <2>4. Cardinality(part[q]) <= Cardinality(all)
    BY <2>3, FS_Subset
  <2> QED  BY <1>2, <1>3, <2>1, <2>2, <2>4
<1>7. Deficit(q) \in Int /\ Excess(q) = w - Deficit(q)
  BY <1>4, <1>5
<1> QED  BY <1>3, <1>6, <1>7

LEMMA PickKeepsShare ==
  ASSUME PipelineInv, NeverAbove, Pick
  PROVE  NeverAbove'
<1> SUFFICES ASSUME Balanced', NEW q \in DOMAIN Quotas PROVE (Excess(q) < TotalWeight)'
  BY DEF NeverAbove, Pick, Quotas
<1>1. PICK r \in DOMAIN Quotas :
         Deficit(r) > 0 /\ Excess(q)' = (IF q = r THEN TotalWeight ELSE 0) - Deficit(q)
  BY PickOfShare
<1>2. Balanced /\ TotalWeight' = TotalWeight
  BY PickOfShare
<1>3. PICK w \in Nat : /\ w <= TotalWeight /\ TotalWeight \in Nat
                       /\ Deficit(q) \in Int /\ Excess(q) = w - Deficit(q)
  BY ExcessParts
<1>4. Excess(q) < TotalWeight
  BY <1>2 DEF NeverAbove
<1> QED  BY <1>1, <1>2, <1>3, <1>4

LEMMA EmptyShare ==
  ASSUME built \in Pipelines, selected = <<>>
  PROVE  NeverAbove /\ NeverBelow
<1> SUFFICES ASSUME Balanced, NEW q \in DOMAIN Quotas
             PROVE  Excess(q) < TotalWeight /\ -TotalWeight < Excess(q)
  BY DEF NeverAbove, NeverBelow
<1>1. PICK t \in Nat : t = TotalWeight /\ t > 0
  BY TotalWeightNat DEF Balanced
<1>2. PICK w \in Nat : w = Quotas[q].weight
  BY QuotaParts
<1>3. Len(selected) = 0 /\ DOMAIN selected = {}
  BY EmptyParts
<1>4. CountOf(Quotas[q].group) = 0
  BY <1>3, FS_EmptySet DEF CountOf
<1>5. Excess(q) = 0 * t - w * 0
  BY <1>1, <1>2, <1>3, <1>4 DEF Excess
<1> QED  BY <1>1, <1>5

\* The builders set at most three quotas.
FewQuotas == \A p \in Pipelines : Len(p.quotas) <= 3

LEMMA ThreeSets ==
  ASSUME NEW A, NEW B, NEW C, IsFiniteSet(A), IsFiniteSet(B), IsFiniteSet(C),
         A \cap B = {}, A \cap C = {}, B \cap C = {}
  PROVE  Cardinality(A \cup B \cup C) = Cardinality(A) + Cardinality(B) + Cardinality(C)
<1>1. Cardinality(A) \in Nat /\ Cardinality(B) \in Nat /\ Cardinality(C) \in Nat
  BY CardinalityNat
<1>2. Cardinality({}) = 0
  BY FS_EmptySet
<1>3. IsFiniteSet(A \cup B) /\ Cardinality(A \cup B) = Cardinality(A) + Cardinality(B) - 0
  BY <1>2, FS_Union
<1>4. (A \cup B) \cap C = {}
  OBVIOUS
<1>5. Cardinality((A \cup B) \cup C) = Cardinality(A \cup B) + Cardinality(C) - 0
  BY <1>2, <1>3, <1>4, FS_Union
<1> QED  BY <1>1, <1>3, <1>5

\* What group q holds too much, of up to three.
Over(q) == IF q \in DOMAIN Quotas THEN Excess(q) ELSE 0

(* While no group has run out, what some hold too much others lack.        *)
LEMMA ExcessesCancel ==
  ASSUME PipelineInv, Balanced, FewQuotas
  PROVE  Over(1) + Over(2) + Over(3) = 0
<1> DEFINE Q(q) == q \in DOMAIN Quotas
           due(q) == IF Q(q) THEN {q} \X (1..Quotas[q].weight) ELSE {}
           mine(q) == IF Q(q) THEN Placed(Quotas[q].group) ELSE {}
           w(q) == Cardinality(due(q))
           m(q) == Cardinality(mine(q))
<1>1. built \in Pipelines /\ selected \in Seq(Candidate) /\ Filling
  BY DEF PipelineInv, Typed, TypeOK
<1>2. PICK k \in 0..3 : DOMAIN Quotas = 1..k /\ \A q \in 1..k : Quotas[q].weight \in Nat
  <2>1. PICK k \in Nat : DOMAIN Quotas = 1..k /\ \A q \in 1..k : Quotas[q].weight \in Nat
    BY <1>1, QuotaParts
  <2>2. Len(Quotas) <= 3 /\ Len(Quotas) \in Nat /\ DOMAIN Quotas = 1..Len(Quotas)
    BY <1>1, BuiltParts DEF FewQuotas, Quotas
  <2> QED  BY <2>1, <2>2
<1>3. PICK t \in Nat : t = TotalWeight /\ t > 0
  BY <1>1, TotalWeightNat DEF Balanced
<1>4. PICK n \in Nat : n = Len(selected) /\ DOMAIN selected = 1..n
  BY <1>1, SeqParts
<1>5. \A q \in DOMAIN Quotas : q \in {1, 2, 3}
  BY <1>2
<1>6. ASSUME NEW q \in {1, 2, 3}
      PROVE  /\ IsFiniteSet(due(q)) /\ w(q) \in Nat /\ IsFiniteSet(mine(q)) /\ m(q) \in Nat
             /\ Over(q) = m(q) * t - w(q) * n
  <2>1. CASE Q(q)
    <3>1. PICK v \in Nat : v = Quotas[q].weight
      BY <1>2, <2>1
    <3>4. IsFiniteSet({q} \X (1..v)) /\ Cardinality({q} \X (1..v)) = v
      BY ColumnSize
    <3>5. IsFiniteSet(due(q)) /\ w(q) = v
      BY <2>1, <3>1, <3>4
    <3>6. IsFiniteSet(mine(q)) /\ m(q) = CountOf(Quotas[q].group) /\ m(q) \in Nat
      BY <1>1, <2>1, PlacedParts
    <3>7. Over(q) = m(q) * t - w(q) * n
      <4> HIDE DEF m, w
      <4> QED  BY <1>3, <1>4, <2>1, <3>1, <3>5, <3>6 DEF Over, Excess
    <3> QED  BY <3>1, <3>5, <3>6, <3>7
  <2>2. CASE ~Q(q)
    <3>1. IsFiniteSet(due(q)) /\ w(q) = 0 /\ IsFiniteSet(mine(q)) /\ m(q) = 0
      BY <2>2, FS_EmptySet
    <3>2. Over(q) = 0 /\ 0 = 0 * t - 0 * n
      BY <2>2, <1>3, <1>4 DEF Over
    <3> HIDE DEF m, w, due, mine
    <3> QED  BY <3>1, <3>2
  <2> QED  BY <2>1, <2>2
<1>7. w(1) + w(2) + w(3) = t
  <2>1. UNION {{q} \X (1..Quotas[q].weight) : q \in DOMAIN Quotas} = due(1) \cup due(2) \cup due(3)
    <3>1. ASSUME NEW x, NEW q \in DOMAIN Quotas, x \in {q} \X (1..Quotas[q].weight)
          PROVE  x \in due(1) \cup due(2) \cup due(3)
      <4>1. x \in due(q)
        BY <3>1
      <4> HIDE DEF due
      <4> QED  BY <4>1, <1>5
    <3>2. ASSUME NEW x, NEW q \in {1, 2, 3}, x \in due(q)
          PROVE  q \in DOMAIN Quotas /\ x \in {q} \X (1..Quotas[q].weight)
      BY <3>2
    <3>3. ASSUME NEW x, x \in due(1) \cup due(2) \cup due(3)
          PROVE  x \in UNION {{q} \X (1..Quotas[q].weight) : q \in DOMAIN Quotas}
      <4>1. PICK q \in {1, 2, 3} : x \in due(q)
        <5> HIDE DEF due
        <5> QED  BY <3>3
      <4> QED  BY <4>1, <3>2
    <3> HIDE DEF due
    <3> QED  BY <3>1, <3>3
  <2>2. due(1) \cap due(2) = {} /\ due(1) \cap due(3) = {} /\ due(2) \cap due(3) = {}
    <3>1. ASSUME NEW q \in {1, 2, 3}, NEW x \in due(q) PROVE x[1] = q
      BY <3>1
    <3> HIDE DEF due
    <3> QED  BY <3>1
  <2>3. TotalWeight = Cardinality(due(1) \cup due(2) \cup due(3))
    BY <2>1 DEF TotalWeight
  <2> HIDE DEF due
  <2> QED  BY <1>3, <1>6, <2>2, <2>3, ThreeSets
<1>8. m(1) + m(2) + m(3) = n
  <2>1. 1..n = mine(1) \cup mine(2) \cup mine(3)
    <3>1. ASSUME NEW i \in 1..n PROVE \E q \in {1, 2, 3} : i \in mine(q)
      <4>1. PICK p \in DOMAIN Quotas : TRUE
        <5>1. DOMAIN Quotas # {}
          <6>1. ASSUME DOMAIN Quotas = {} PROVE t = 0
            BY <1>3, <6>1, FS_EmptySet DEF TotalWeight
          <6> QED  BY <1>3, <6>1
        <5> QED  BY <5>1
      <4>2. PICK j \in DOMAIN candidates : candidates[j].group = Quotas[p].group
        BY <4>1 DEF Balanced, Available, InGroup
      <4>3. Quoted(selected[i])
        BY <1>1, <1>3, <1>4, <4>1, <4>2 DEF Filling, Quoted
      <4>4. PICK q \in DOMAIN Quotas : Quotas[q].group = selected[i].group
        BY <4>3 DEF Quoted
      <4> QED  BY <1>4, <1>5, <4>4 DEF Placed
    <3>2. ASSUME NEW q \in {1, 2, 3} PROVE mine(q) \subseteq 1..n
      BY <1>4 DEF Placed
    <3> HIDE DEF mine
    <3> QED  BY <3>1, <3>2
  <2>2. ASSUME NEW p \in {1, 2, 3}, NEW q \in {1, 2, 3}, p # q PROVE mine(p) \cap mine(q) = {}
    <3>1. CASE Q(p) /\ Q(q)
      <4>1. Quotas[p].group # Quotas[q].group
        BY <1>1, <2>2, <3>1, PipelineAssumption DEF Quotas
      <4> QED  BY <4>1 DEF Placed
    <3>2. CASE ~ (Q(p) /\ Q(q))
      BY <3>2
    <3> QED  BY <3>1, <3>2
  <2>3. Cardinality(1..n) = n
    BY FS_Interval
  <2> HIDE DEF mine
  <2>4. PICK A, B, C : A = mine(1) /\ B = mine(2) /\ C = mine(3)
    OBVIOUS
  <2>5. A \cap B = {} /\ A \cap C = {} /\ B \cap C = {}
    BY <2>2, <2>4
  <2>6. /\ IsFiniteSet(A) /\ IsFiniteSet(B) /\ IsFiniteSet(C)
        /\ m(1) = Cardinality(A) /\ m(2) = Cardinality(B) /\ m(3) = Cardinality(C)
    BY <1>6, <2>4
  <2>7. Cardinality(A \cup B \cup C) = Cardinality(A) + Cardinality(B) + Cardinality(C)
    BY <2>5, <2>6, ThreeSets
  <2> QED  BY <2>1, <2>3, <2>4, <2>6, <2>7
<1> HIDE DEF m, w
<1>9. PICK w1 \in Nat, w2 \in Nat, w3 \in Nat, m1 \in Nat, m2 \in Nat, m3 \in Nat :
         /\ w1 = w(1) /\ w2 = w(2) /\ w3 = w(3) /\ m1 = m(1) /\ m2 = m(2) /\ m3 = m(3)
         /\ w1 + w2 + w3 = t /\ m1 + m2 + m3 = n
  BY <1>6, <1>7, <1>8
<1>10. Over(1) + Over(2) + Over(3) = (m1 * t - w1 * n) + (m2 * t - w2 * n) + (m3 * t - w3 * n)
  BY <1>6, <1>9
<1>11. (m1 * t - w1 * n) + (m2 * t - w2 * n) + (m3 * t - w3 * n) = 0
  <2>1. (m1 + m2 + m3) * t = (w1 + w2 + w3) * n
    BY <1>9
  <2> QED  BY <2>1
<1> QED  BY <1>10, <1>11

LEMMA PickKeepsDue ==
  ASSUME PipelineInv, NeverAbove, NeverBelow, Pick, FewQuotas
  PROVE  NeverBelow'
<1> SUFFICES ASSUME Balanced', NEW q \in DOMAIN Quotas PROVE (-TotalWeight < Excess(q))'
  BY DEF NeverBelow, Pick, Quotas
<1>1. Balanced /\ Quotas' = Quotas /\ TotalWeight' = TotalWeight
  BY PickOfShare
<1>2. PICK r \in DOMAIN Quotas : \A p \in DOMAIN Quotas :
         /\ Deficit(p) <= Deficit(r)
         /\ Excess(p)' = (IF p = r THEN TotalWeight ELSE 0) - Deficit(p)
  BY PickOfShare
<1>3. \A p \in DOMAIN Quotas : \E w \in Nat : /\ w <= TotalWeight /\ TotalWeight \in Nat
                                              /\ Deficit(p) \in Int /\ Excess(p) = w - Deficit(p)
  BY ExcessParts
<1>4. CASE q = r
  <2>1. PICK w \in Nat : /\ w <= TotalWeight /\ TotalWeight \in Nat
                         /\ Deficit(q) \in Int /\ Excess(q) = w - Deficit(q)
    BY <1>3
  <2>2. -TotalWeight < Excess(q) /\ TotalWeight > 0
    BY <1>1 DEF NeverBelow, Balanced
  <2>3. Excess(q)' = TotalWeight - Deficit(q)
    BY <1>2, <1>4
  <2> QED  BY <1>1, <2>1, <2>2, <2>3
<1>5. CASE q # r
  <2>1. PICK t \in Nat, a \in Int, b \in Int :
           /\ t = TotalWeight /\ t > 0 /\ a = Deficit(q) /\ b = Deficit(r) /\ a <= b
           /\ Excess(q)' = 0 - a /\ Excess(r)' = t - b
    BY <1>1, <1>2, <1>3, <1>5 DEF Balanced
  <2>2. q \in {1, 2, 3} /\ r \in {1, 2, 3}
    <3>1. built \in Pipelines
      BY DEF PipelineInv, Typed
    <3>2. Len(Quotas) <= 3 /\ Len(Quotas) \in Nat /\ DOMAIN Quotas = 1..Len(Quotas)
      BY <3>1, BuiltParts DEF FewQuotas, Quotas
    <3> QED  BY <3>2
  <2>3. PICK s \in {1, 2, 3} : s # q /\ s # r
    BY <2>2
  <2>4. (Over(1) + Over(2) + Over(3) = 0)'
    <3>1. PipelineInv' /\ Balanced' /\ FewQuotas'
      BY PickKeeps DEF FewQuotas
    <3> QED  BY <3>1, ExcessesCancel, PTL
  <2>5. PICK over \in [{1, 2, 3} -> Int] :
           /\ \A p \in {1, 2, 3} : over[p] = Over(p)'
           /\ over[1] + over[2] + over[3] = 0
    <3>1. ASSUME NEW p \in {1, 2, 3} PROVE Over(p)' \in Int
      <4>1. CASE p \in DOMAIN Quotas
        <5>1. Excess(p)' = (IF p = r THEN TotalWeight ELSE 0) - Deficit(p)
          BY <1>2, <4>1
        <5>2. Deficit(p) \in Int /\ TotalWeight \in Int
          BY <1>3, <4>1
        <5> QED  BY <1>1, <4>1, <5>1, <5>2 DEF Over
      <4>2. CASE p \notin DOMAIN Quotas
        BY <1>1, <4>2 DEF Over
      <4> QED  BY <4>1, <4>2
    <3> DEFINE over == [p \in {1, 2, 3} |-> Over(p)']
    <3>2. over \in [{1, 2, 3} -> Int] /\ \A p \in {1, 2, 3} : over[p] = Over(p)'
      BY <3>1
    <3> HIDE DEF over
    <3> QED  BY <2>4, <3>2
  <2>6. Over(q)' = 0 - a /\ Over(r)' = t - b
    BY <1>1, <2>1 DEF Over
  <2>7. Over(s)' < t
    <3>1. NeverAbove'
      BY PickKeepsShare
    <3>2. CASE s \in DOMAIN Quotas
      BY <1>1, <2>1, <3>1, <3>2 DEF NeverAbove, Over
    <3>3. CASE s \notin DOMAIN Quotas
      BY <1>1, <2>1, <3>3 DEF Over
    <3> QED  BY <3>2, <3>3
  <2>8. PICK y \in Int : y = Over(s)' /\ (0 - a) + (t - b) + y = 0
    <3>1. over[q] + over[r] + over[s] = 0
      BY <2>2, <2>3, <2>5, <1>5
    <3>2. over[q] = 0 - a /\ over[r] = t - b /\ over[s] \in Int /\ over[s] = Over(s)'
      BY <2>2, <2>3, <2>5, <2>6
    <3> QED  BY <3>1, <3>2
  <2>9. -t < 0 - a
    BY <2>1, <2>7, <2>8
  <2> QED  BY <1>1, <2>1, <2>9
<1> QED  BY <1>4, <1>5

\* What the pages of a sampler with few quotas keep, and of any sampler.
Even == NeverAbove /\ (FewQuotas => NeverBelow)

LEMMA NextShare == PipelineInv /\ Even /\ [Next]_vars => Even'
<1> SUFFICES ASSUME PipelineInv, Even, [Next]_vars PROVE Even'
  OBVIOUS
<1>0. (NeverAbove /\ NeverBelow)' => Even'
  BY DEF Even
<1>1. CASE Pick
  <2>1. NeverAbove'
    BY <1>1, PickKeepsShare DEF Even
  <2>2. FewQuotas => NeverBelow'
    BY <1>1, PickKeepsDue DEF Even
  <2> QED  BY <2>1, <2>2 DEF Even, FewQuotas
<1>2. ASSUME built' = built, candidates' = candidates, selected' = selected, Sampling
      PROVE  Even'
  <2>1. Quotas' = Quotas /\ TotalWeight' = TotalWeight /\ \A g : InGroup(g)' = InGroup(g)
    BY <1>2 DEF Quotas, TotalWeight, InGroup
  <2>2. \A q \in DOMAIN Quotas : Excess(q)' = Excess(q)
    BY <1>2, <2>1 DEF Excess, CountOf
  <2>3. Available' = Available
    BY <2>1 DEF Available
  <2>4. Balanced' => Balanced
    BY <1>2, <2>1, <2>3 DEF Balanced
  <2>5. (NeverAbove => NeverAbove') /\ (NeverBelow => NeverBelow')
    BY <2>1, <2>2, <2>4 DEF NeverAbove, NeverBelow
  <2> QED  BY <2>5 DEF Even, FewQuotas
<1>3. CASE Finish
  BY <1>2, <1>3 DEF Finish, Sampling
<1>4. CASE Rank
  <2>1. (built \in Pipelines /\ selected = <<>>)'
    BY <1>4, RankKeeps DEF PipelineInv, Typed, Waiting, Rank
  <2>2. (NeverAbove /\ NeverBelow)'
    BY <2>1, EmptyShare, PTL
  <2> QED  BY <1>0, <2>2
<1>5. ASSUME ~Sampling' PROVE Even'
  BY <1>0, <1>5 DEF NeverAbove, NeverBelow, Balanced
<1>6. CASE Gather
  BY <1>5, <1>6 DEF Gather, Sampling
<1>7. ASSUME NEW i \in DOMAIN Specs, Arrive(i) PROVE Even'
  BY <1>5, <1>7 DEF Arrive, Sampling
<1>8. CASE UNCHANGED vars
  <2>1. /\ built' = built /\ candidates' = candidates /\ selected' = selected
        /\ Sampling' = Sampling
    BY <1>8 DEF vars, Sampling
  <2> QED  BY <1>2, <1>5, <2>1
<1> QED  BY <1>1, <1>3, <1>4, <1>6, <1>7, <1>8 DEF Next

LEMMA EvenReached == Spec => []Even
<1>1. Init => Even
  BY EmptyShare DEF Init, Even
<1> QED  BY <1>1, PipelineReached, NextShare, PTL DEF Spec

LEMMA QuotedInv == PipelineInv => QuotedFirst
<1> SUFFICES ASSUME PipelineInv PROVE QuotedFirst
  OBVIOUS
<1>1. Filling
  BY DEF PipelineInv
<1> QED  BY <1>1 DEF QuotedFirst, Filling, Quoted

----------------------------------------------------------------------------
(* Whatever the sources answer, every stage works on candidates, and the   *)
(* page stays within the limit the builder set.                            *)
THEOREM PipelineTyped == Spec => []TypeOK
<1>1. PipelineInv => TypeOK
  BY DEF PipelineInv, Typed
<1> QED  BY <1>1, PipelineReached, PTL

(* Dedup's promise, for any number of sources and copies of a post: the    *)
(* sampler is offered every post once, as the copy of the best priority,   *)
(* and stays so while swap_remove reorders what is left.                   *)
THEOREM CopiesPreferred == Spec => []PreferredCopy
<1> QED  BY CopiesInv, PipelineReached, PTL

(* The sampler's promise within a group, for any quotas: the better scored *)
(* are shown first, nothing is lost or invented between the ranking and    *)
(* the page, and a short page means that the pool is exhausted.            *)
THEOREM BestPicked == Spec => []BestFirst
<1> QED  BY BestInv, PipelineReached, PTL

(* A post of a group without a quota is picked only when no group with a   *)
(* quota has a post left.                                                  *)
THEOREM QuotedBeforeRest == Spec => []QuotedFirst
<1> QED  BY QuotedInv, PipelineReached, PTL

(* Over-representation is impossible: while every group with a quota still *)
(* has posts, a page of n posts holds less than one post more of a group   *)
(* than the group's weight of n, whatever the weights and the scores.      *)
THEOREM ShareNotExceeded == Spec => []NeverAbove
<1>1. Even => NeverAbove
  BY DEF Even
<1> QED  BY <1>1, EvenReached, PTL

(* Of a sampler with at most three quotas, which is what the feeds build,  *)
(* the page is neither a whole post above nor a whole post below any share,*)
(* for any weights.  With five, of weights 1, 1, 1, 6, 6 in this order, the*)
(* tenth pick leaves the last a whole post below.                          *)
THEOREM SharesKept == ASSUME FewQuotas PROVE Spec => []QuotaKept
<1>1. PipelineInv /\ Even => QuotaKept
  BY QuotedInv DEF Even, QuotaKept, NeverBelow
<1> QED  BY <1>1, EvenReached, PipelineReached, PTL

----------------------------------------------------------------------------
\* The lists of the trends.
Items == DOMAIN Speaks
Offered == UNION UNION {Offers[p] : p \in Providers}

\* The lesser of two lengths.
LEMMA Lesser ==
    ASSUME NEW m \in Nat, NEW n \in Nat
    PROVE  /\ Min({m, n}) \in {m, n} /\ Min({m, n}) \in Nat
           /\ Min({m, n}) <= m /\ Min({m, n}) <= n
<1>1. \E i \in {m, n} : \A j \in {m, n} : i <= j
  OBVIOUS
<1>2. Min({m, n}) \in {m, n} /\ \A j \in {m, n} : Min({m, n}) <= j
  BY <1>1 DEF Min
<1> QED  BY <1>2

LEMMA FirstParts ==
    ASSUME NEW T, NEW list \in Seq(T), NEW n \in Nat
    PROVE  /\ FirstOf(list, n) \in Seq(T) /\ Len(FirstOf(list, n)) <= n
           /\ \A k \in DOMAIN FirstOf(list, n) : \E i \in DOMAIN list : FirstOf(list, n)[k] = list[i]
<1>1. PICK m : m = Min({n, Len(list)})
  OBVIOUS
<1>2. m \in Nat /\ m <= n /\ m <= Len(list) /\ FirstOf(list, n) = SubSeq(list, 1, m)
  <2>1. Len(list) \in Nat
    OBVIOUS
  <2> QED  BY <1>1, <2>1, Lesser DEF FirstOf
<1>3. PICK u : u = SubSeq(list, 1, m)
  OBVIOUS
<1>4. u \in Seq(T) /\ Len(u) = m /\ \A k \in 1..m : u[k] = list[k]
  BY <1>2, <1>3
<1> QED  BY <1>2, <1>3, <1>4

LEMMA InRank ==
    ASSUME NEW items \in SUBSET Items
    PROVE  Ranking(items) \in Seq(items)
<1>1. PICK n \in Nat : Items = 1..n
  BY TrendAssumption DEF Items
<1>2. IsFiniteSet(items) /\ Ascending[items] \in [1..Cardinality(items) -> items]
  BY <1>1, AscendingOrder
<1>3. Cardinality(items) \in Nat
  BY <1>2, CardinalityNat
<1> QED  BY <1>2, <1>3 DEF Ranking

\* What is on offer is of the items, and so is every list made of it.
LEMMA CollectedTyped ==
    ASSUME \A p \in Providers : offer[p] \in Offers[p], NEW set \in SUBSET Providers, NEW l
    PROVE  Collected(set, l) \in Lists
<1>1. Offered \subseteq Items
  BY TrendAssumption DEF Offered, Items
<1>2. ASSUME NEW p \in Providers PROVE Fetched(p, l) \subseteq Offered
  <2>1. PICK items : items = Matching(p, l)
    OBVIOUS
  <2>2. items \subseteq Offered
    BY <2>1 DEF Matching, Offered
  <2>3. PICK ranked : ranked = Ranking(items)
    OBVIOUS
  <2>4. ranked \in Seq(Offered)
    <3>1. ranked \in Seq(items)
      BY <1>1, <2>2, <2>3, InRank
    <3> QED  BY <2>2, <3>1
  <2>5. PICK n \in Nat : n = Min({PoolSize, MaxResults[p]})
    BY TrendAssumption, Lesser
  <2>6. PICK answer : answer = FirstOf(ranked, n)
    OBVIOUS
  <2>7. answer \in Seq(Offered)
    BY <2>4, <2>6, FirstParts
  <2>8. Fetched(p, l) = ToSet(answer)
    BY <2>1, <2>3, <2>5, <2>6 DEF Fetched, Answered
  <2> QED  BY <2>7, <2>8 DEF ToSet
<1>3. PICK items : items = UNION {Fetched(p, l) : p \in set}
  OBVIOUS
<1>4. items \subseteq Offered
  BY <1>2, <1>3
<1>5. PICK ranked : ranked = Ranking(items)
  OBVIOUS
<1>6. ranked \in Seq(Offered)
  <2>1. ranked \in Seq(items)
    BY <1>1, <1>4, <1>5, InRank
  <2> QED  BY <1>4, <2>1
<1>7. PICK list : list = FirstOf(ranked, PoolSize)
  OBVIOUS
<1>8. PoolSize \in Nat
  BY TrendAssumption
<1>9. list \in Seq(Offered) /\ Len(list) <= PoolSize
  BY <1>6, <1>7, <1>8, FirstParts
<1>10. list \in [1..Len(list) -> Offered] /\ Len(list) \in 0..PoolSize
  BY <1>8, <1>9
<1>11. Collected(set, l) = list
  BY <1>3, <1>5, <1>7 DEF Collected
<1> QED  BY <1>10, <1>11 DEF Lists, Offered

LEMMA ListsAre ==
    ASSUME NEW list \in Lists
    PROVE  list \in Seq(Offered) /\ Len(list) \in 0..PoolSize
<1>1. PICK n \in 0..PoolSize : list \in [1..n -> Offered]
  BY DEF Lists, Offered
<1> QED  BY <1>1, TrendAssumption
----------------------------------------------------------------------------
TrendRequests ==
    [pc : {"idle", "get", "collect", "set", "page"}, lang : Languages \cup {Nothing},
     offset : Nat, list : Lists, bound : SUBSET Providers, next : -1..(PoolSize - 1),
     shown : Seq(Offered), cuts : SUBSET Lists]

\* A request under way, and a link, are of a list that is asked for.
Asking(r) == r.pc # "idle" \/ r.next # End => r.lang \in Languages

\* As long as one list was cut, what was shown of it ends where the request, or
\* the link that can be followed, goes on.
Scrolled(r) ==
    /\ r.cuts = {} => /\ r.shown = <<>>
                      /\ r.pc = "idle" => r.next = End
                      /\ r.pc # "idle" => r.offset = 0
    /\ \A list \in r.cuts : r.cuts = {list} =>
          /\ r.pc = "idle" /\ r.next = End => r.shown = list
          /\ r.pc = "idle" /\ r.next # End =>
                r.next \in 0..Len(list) /\ r.shown = SubSeq(list, 1, r.next)
          /\ r.pc # "idle" => r.offset \in 0..Len(list) /\ r.shown = SubSeq(list, 1, r.offset)

Stock ==
    /\ offer \in [Providers -> SUBSET Items] /\ \A p \in Providers : offer[p] \in Offers[p]
    /\ entry \in [Languages -> Lists \cup {Nothing}]
    /\ changes \in 0..MaxChanges /\ used \in 0..MaxDisruptions

JobsTyped ==
    /\ IsFiniteSet(jobs) /\ Cardinality(jobs) <= MaxJobs
    /\ \A j \in jobs : j.pc \in {"collect", "set"} /\ j.list \in Lists /\ j.lang \in Languages

Scrolling ==
    /\ req \in [Clients -> TrendRequests]
    /\ \A c \in Clients : Asking(req[c]) /\ Scrolled(req[c])

TrendInv == Stock /\ JobsTyped /\ Scrolling

\* A client's request becomes r.
LEMMA RequestStep ==
    ASSUME Scrolling, NEW c \in Clients, NEW r \in TrendRequests, Asking(r), Scrolled(r),
           req' = [req EXCEPT ![c] = r]
    PROVE  Scrolling'
<1>1. req' \in [Clients -> TrendRequests]
  BY DEF Scrolling
<1>2. ASSUME NEW d \in Clients PROVE Asking(req'[d]) /\ Scrolled(req'[d])
  <2>1. req'[d] = IF d = c THEN r ELSE req[d]
    BY DEF Scrolling
  <2> QED  BY <2>1 DEF Scrolling
<1> QED  BY <1>1, <1>2 DEF Scrolling, Asking, Scrolled

\* A request that goes on has neither moved nor shown anything.
LEMMA GoesOn ==
    ASSUME NEW r \in TrendRequests, NEW s \in TrendRequests, Asking(r), Scrolled(r),
           r.pc # "idle", s.pc # "idle", s.lang = r.lang, s.offset = r.offset,
           s.shown = r.shown, s.cuts = r.cuts
    PROVE  Asking(s) /\ Scrolled(s)
BY DEF Asking, Scrolled

LEMMA EmptyList == <<>> \in Lists /\ <<>> \in Seq(Offered)
<1>1. <<>> \in [1..0 -> Offered] /\ 0 \in 0..PoolSize
  BY TrendAssumption
<1> QED  BY <1>1 DEF Lists, Offered

LEMMA RestingTyped ==
    Resting \in TrendRequests /\ Asking(Resting) /\ Scrolled(Resting)
<1>1. End \in -1..(PoolSize - 1)
  BY TrendAssumption DEF End
<1>2. Resting \in TrendRequests
  BY <1>1, EmptyList DEF Resting, TrendRequests
<1> QED  BY <1>2 DEF Resting, Asking, Scrolled

LEMMA Troubled ==
    ASSUME used \in 0..MaxDisruptions, NEW d, UNCHANGED used \/ Disrupt(d)
    PROVE  used' \in 0..MaxDisruptions
<1>1. MaxDisruptions \in Nat
  BY TrendAssumption
<1> QED  BY <1>1 DEF Disrupt

LEMMA InitTrendInv == TrendInit => TrendInv
<1>1. SUFFICES ASSUME TrendInit PROVE TrendInv
  OBVIOUS
<1>2. Stock
  <2>1. /\ DOMAIN offer = Providers /\ offer = [p \in Providers |-> offer[p]]
        /\ \A p \in Providers : offer[p] \in Offers[p]
    BY <1>1 DEF TrendInit
  <2>2. \A p \in Providers : offer[p] \in SUBSET Items
    BY <2>1, TrendAssumption DEF Items
  <2>3. offer \in [Providers -> SUBSET Items]
    BY <2>1, <2>2
  <2>4. changes \in 0..MaxChanges /\ used \in 0..MaxDisruptions
    BY <1>1, TrendAssumption DEF TrendInit
  <2>5. entry \in [Languages -> Lists \cup {Nothing}]
    BY <1>1 DEF TrendInit
  <2> QED  BY <2>1, <2>3, <2>4, <2>5 DEF Stock
<1>3. JobsTyped
  <2>1. jobs = {} /\ IsFiniteSet({}) /\ Cardinality({}) = 0
    BY <1>1, FS_EmptySet DEF TrendInit
  <2> QED  BY <2>1, TrendAssumption DEF JobsTyped
<1>4. Scrolling
  <2>1. req = [c \in Clients |-> Resting]
    BY <1>1 DEF TrendInit
  <2> QED  BY <2>1, RestingTyped DEF Scrolling
<1> QED  BY <1>2, <1>3, <1>4 DEF TrendInv

LEMMA BeginKeeps ==
    ASSUME TrendInv, NEW c \in Clients, NEW l \in Languages, NEW offset \in Nat,
           offset = 0 \/ (req[c].next = offset /\ req[c].next # End /\ l = req[c].lang),
           Begin(c, l, offset)
    PROVE  TrendInv'
<1>1. Scrolling /\ req[c] \in TrendRequests /\ req[c].pc = "idle"
      /\ Asking(req[c]) /\ Scrolled(req[c])
  BY DEF TrendInv, Scrolling, Begin, At
<1>2. PICK set \in {{}, Providers} :
         /\ Found(set)
         /\ req' = [req EXCEPT ![c] =
               [Resting EXCEPT !.pc = "get", !.lang = l, !.offset = offset, !.bound = set,
                               !.shown = IF offset = 0 THEN <<>> ELSE req[c].shown,
                               !.cuts = IF offset = 0 THEN {} ELSE req[c].cuts]]
  BY DEF Begin
<1>3. PICK shown, cuts :
         /\ shown = IF offset = 0 THEN <<>> ELSE req[c].shown
         /\ cuts = IF offset = 0 THEN {} ELSE req[c].cuts
  OBVIOUS
<1>4. shown \in Seq(Offered) /\ cuts \in SUBSET Lists
  BY <1>1, <1>3, EmptyList DEF TrendRequests
<1>5. PICK r : /\ req' = [req EXCEPT ![c] = r]
               /\ r = [Resting EXCEPT !.pc = "get", !.lang = l, !.offset = offset, !.bound = set,
                                      !.shown = shown, !.cuts = cuts]
  BY <1>2, <1>3
<1>6. r \in TrendRequests
  BY <1>2, <1>4, <1>5, RestingTyped DEF TrendRequests
<1>7. r.pc = "get" /\ r.lang = l /\ r.offset = offset /\ r.shown = shown /\ r.cuts = cuts
  BY <1>5 DEF Resting
<1>8. Scrolled(r)
  <2>1. CASE offset = 0
    BY <1>3, <1>7, <2>1 DEF Scrolled
  <2>2. CASE offset # 0
    BY <1>1, <1>3, <1>7, <2>2 DEF Scrolled
  <2> QED  BY <2>1, <2>2
<1>9. Asking(r)
  BY <1>7 DEF Asking
<1>10. Scrolling'
  BY <1>1, <1>5, <1>6, <1>8, <1>9, RequestStep
<1>11. Stock'
  <2>1. used' \in 0..MaxDisruptions
    BY <1>2, Troubled DEF TrendInv, Stock, Found
  <2> QED  BY <2>1 DEF TrendInv, Stock, Begin
<1>12. JobsTyped'
  BY DEF TrendInv, JobsTyped, Begin
<1> QED  BY <1>10, <1>11, <1>12 DEF TrendInv

LEMMA Added ==
    ASSUME NEW S, IsFiniteSet(S), NEW n \in Nat, Cardinality(S) < n, NEW x
    PROVE  IsFiniteSet(S \cup {x}) /\ Cardinality(S \cup {x}) <= n
<1>1. IsFiniteSet(S \cup {x}) /\ Cardinality(S) \in Nat
      /\ Cardinality(S \cup {x}) \in {Cardinality(S), Cardinality(S) + 1}
  BY FS_AddElement, FS_CardinalityType
<1> QED  BY <1>1

LEMMA Taken ==
    ASSUME NEW S, IsFiniteSet(S), NEW n \in Nat, Cardinality(S) <= n, NEW x \in S
    PROVE  IsFiniteSet(S \ {x}) /\ Cardinality(S \ {x}) < n
<1>1. IsFiniteSet(S \ {x}) /\ Cardinality(S) \in Nat
      /\ Cardinality(S \ {x}) = Cardinality(S) - 1
  BY FS_RemoveElement, FS_CardinalityType
<1> QED  BY <1>1

LEMMA GetKeeps == ASSUME TrendInv, NEW c \in Clients, Get(c) PROVE TrendInv'
<1>1. /\ Stock /\ JobsTyped /\ Scrolling /\ req[c] \in TrendRequests /\ req[c].pc = "get"
      /\ Asking(req[c]) /\ Scrolled(req[c])
  BY DEF TrendInv, Scrolling, Get, At
<1>2. PICK l \in Languages : l = req[c].lang
  BY <1>1 DEF Asking
<1>3. PICK e \in Lists \cup {Nothing} : e = entry[l]
  BY <1>1, <1>2 DEF Stock
<1>4. PICK at \in {"page", "collect"}, list \in Lists :
         req' = [req EXCEPT ![c] = [@ EXCEPT !.pc = at, !.list = list]]
  <2>1. CASE e # Nothing /\ req' = [req EXCEPT ![c].pc = "page", ![c].list = e]
    <3>1. req' = [req EXCEPT ![c] = [@ EXCEPT !.pc = "page", !.list = e]]
      BY <1>1, <2>1 DEF Scrolling
    <3> QED  BY <1>3, <2>1, <3>1
  <2>2. CASE req' = [req EXCEPT ![c].pc = "collect"]
    <3>1. PICK list \in Lists : list = req[c].list
      BY <1>1 DEF TrendRequests
    <3>2. req' = [req EXCEPT ![c] = [@ EXCEPT !.pc = "collect", !.list = list]]
      BY <1>1, <2>2, <3>1 DEF Scrolling, TrendRequests
    <3> QED  BY <3>2
  <2> QED  BY <1>2, <1>3, <2>1, <2>2 DEF Get, Key
<1>5. PICK r : r = [req[c] EXCEPT !.pc = at, !.list = list]
  OBVIOUS
<1>6. r \in TrendRequests /\ r.pc # "idle" /\ r.lang = req[c].lang /\ r.offset = req[c].offset
      /\ r.shown = req[c].shown /\ r.cuts = req[c].cuts
  BY <1>1, <1>4, <1>5 DEF TrendRequests
<1>7. req' = [req EXCEPT ![c] = r]
  BY <1>4, <1>5
<1>8. Asking(r) /\ Scrolled(r)
  BY <1>1, <1>6, GoesOn
<1>9. Scrolling'
  BY <1>1, <1>6, <1>7, <1>8, RequestStep
<1>10. used' \in 0..MaxDisruptions
  BY <1>1, Troubled DEF Stock, Get
<1>11. Stock'
  BY <1>1, <1>10 DEF Stock, Get
<1>12. JobsTyped'
  <2>1. CASE UNCHANGED jobs
    BY <1>1, <2>1 DEF JobsTyped
  <2>2. CASE Cardinality(jobs) < MaxJobs /\ jobs' = jobs \cup {Spawn(l, e)}
    <3>1. PICK j : j = Spawn(l, e)
      OBVIOUS
    <3>2. j.pc = "collect" /\ j.list \in Lists /\ j.lang \in Languages
      BY <3>1, EmptyList DEF Spawn
    <3>3. IsFiniteSet(jobs') /\ Cardinality(jobs') <= MaxJobs
      BY <1>1, <2>2, Added, TrendAssumption DEF JobsTyped
    <3> QED  BY <1>1, <2>2, <3>1, <3>2, <3>3 DEF JobsTyped
  <2> QED  BY <1>2, <1>3, <2>1, <2>2 DEF Get, Key
<1> QED  BY <1>9, <1>11, <1>12 DEF TrendInv

LEMMA CollectKeeps == ASSUME TrendInv, NEW c \in Clients, Collect(c) PROVE TrendInv'
<1>1. /\ Stock /\ JobsTyped /\ Scrolling /\ req[c] \in TrendRequests /\ req[c].pc = "collect"
      /\ Asking(req[c]) /\ Scrolled(req[c])
  BY DEF TrendInv, Scrolling, Collect, At
<1>2. PICK set \in SUBSET Providers :
         /\ Answering(set, req[c].bound)
         /\ req' = [req EXCEPT ![c].pc = "set", ![c].list = Collected(set, req[c].lang)]
  BY DEF Collect
<1>3. PICK list \in Lists : list = Collected(set, req[c].lang)
  BY <1>1, CollectedTyped DEF Stock
<1>4. PICK r : r = [req[c] EXCEPT !.pc = "set", !.list = list]
  OBVIOUS
<1>5. r \in TrendRequests /\ r.pc # "idle" /\ r.lang = req[c].lang /\ r.offset = req[c].offset
      /\ r.shown = req[c].shown /\ r.cuts = req[c].cuts
  BY <1>1, <1>4 DEF TrendRequests
<1>6. req' = [req EXCEPT ![c] = r]
  BY <1>1, <1>2, <1>3, <1>4 DEF Scrolling
<1>7. Asking(r) /\ Scrolled(r)
  BY <1>1, <1>5, GoesOn
<1>8. Scrolling'
  BY <1>1, <1>5, <1>6, <1>7, RequestStep
<1>9. used' \in 0..MaxDisruptions
  BY <1>1, <1>2, Troubled DEF Stock, Answering
<1>10. Stock' /\ JobsTyped'
  BY <1>1, <1>9 DEF Stock, JobsTyped, Collect
<1> QED  BY <1>8, <1>10 DEF TrendInv

LEMMA StoreKeeps ==
    ASSUME Stock, NEW l \in Languages, NEW list \in Lists, Store(l, list),
           UNCHANGED <<offer, changes>>
    PROVE  Stock'
<1>1. used' \in 0..MaxDisruptions
  BY Troubled DEF Stock, Store
<1>2. entry' \in [Languages -> Lists \cup {Nothing}]
  BY DEF Stock, Store, Key
<1> QED  BY <1>1, <1>2 DEF Stock

LEMMA StoreOwnKeeps == ASSUME TrendInv, NEW c \in Clients, StoreOwn(c) PROVE TrendInv'
<1>1. /\ Stock /\ JobsTyped /\ Scrolling /\ req[c] \in TrendRequests /\ req[c].pc = "set"
      /\ Asking(req[c]) /\ Scrolled(req[c])
  BY DEF TrendInv, Scrolling, StoreOwn, At
<1>2. req[c].lang \in Languages /\ req[c].list \in Lists
  BY <1>1 DEF Asking, TrendRequests
<1>3. Stock' /\ JobsTyped'
  BY <1>1, <1>2, StoreKeeps DEF StoreOwn, JobsTyped
<1>4. PICK r : r = [req[c] EXCEPT !.pc = "page"]
  OBVIOUS
<1>5. r \in TrendRequests /\ r.pc # "idle" /\ r.lang = req[c].lang /\ r.offset = req[c].offset
      /\ r.shown = req[c].shown /\ r.cuts = req[c].cuts
  BY <1>1, <1>4 DEF TrendRequests
<1>6. req' = [req EXCEPT ![c] = r]
  BY <1>1, <1>4 DEF StoreOwn, Scrolling
<1>7. Asking(r) /\ Scrolled(r)
  BY <1>1, <1>5, GoesOn
<1>8. Scrolling'
  BY <1>1, <1>5, <1>6, <1>7, RequestStep
<1> QED  BY <1>3, <1>8 DEF TrendInv

\* A page begins where what was shown ends.
LEMMA Seam ==
    ASSUME NEW T, NEW list \in Seq(T), NEW m \in 0..Len(list), NEW n \in m..Len(list)
    PROVE  SubSeq(list, 1, m) \o SubSeq(list, m + 1, n) = SubSeq(list, 1, n)
<1>1. 1 \in 1..Len(list) + 1 /\ m \in (1 - 1)..Len(list) /\ n \in m..Len(list)
  OBVIOUS
<1> QED  BY <1>1, ConcatAdjacentSubSeq

LEMMA PageKeeps == ASSUME TrendInv, NEW c \in Clients, Page(c) PROVE TrendInv'
<1>1. /\ Stock /\ JobsTyped /\ Scrolling /\ req[c] \in TrendRequests /\ req[c].pc = "page"
      /\ Asking(req[c]) /\ Scrolled(req[c])
  BY DEF TrendInv, Scrolling, Page, At
<1>2. PICK list \in Lists : list = req[c].list
  BY <1>1 DEF TrendRequests
<1>3. list \in Seq(Offered) /\ Len(list) \in 0..PoolSize /\ Len(list) \in Nat
      /\ PoolSize \in Nat /\ PageLimit \in Nat /\ PageLimit > 0
  BY ListsAre, TrendAssumption
<1>4. PICK total \in Nat : total = Len(list) /\ total <= PoolSize
  BY <1>3
<1>5. PICK offset \in Nat : offset = req[c].offset
  BY <1>1 DEF TrendRequests
<1>6. PICK from \in Nat : from = Min({offset, total}) /\ from <= total
                          /\ (offset <= total => from = offset)
  <2>1. Min({offset, total}) \in {offset, total} /\ Min({offset, total}) \in Nat
        /\ Min({offset, total}) <= offset /\ Min({offset, total}) <= total
    BY Lesser
  <2> QED  BY <2>1
<1>7. PICK to \in Nat : to = Min({from + PageLimit, total}) /\ to <= total /\ from <= to
  <2>1. PICK n \in Nat : n = from + PageLimit
    BY <1>3
  <2>2. Min({n, total}) \in {n, total} /\ Min({n, total}) \in Nat
        /\ Min({n, total}) <= n /\ Min({n, total}) <= total
    BY Lesser
  <2> QED  BY <1>3, <1>6, <2>1, <2>2
<1>8. PICK part, next, shown, cuts :
         /\ part = SubSeq(list, from + 1, to)
         /\ next = IF to < total THEN to ELSE End
         /\ shown = req[c].shown \o part
         /\ cuts = req[c].cuts \cup {list}
  OBVIOUS
<1>9. PICK r : r = [req[c] EXCEPT !.pc = "idle", !.list = <<>>, !.bound = {}, !.next = next,
                                  !.shown = shown, !.cuts = cuts]
  OBVIOUS
<1>10. req' = [req EXCEPT ![c] = r]
  <2>1. EndOf(from, total) = to
    BY <1>7 DEF EndOf
  <2>2. /\ from = Min({req[c].offset, Len(req[c].list)})
        /\ to = Min({from + PageLimit, Len(req[c].list)})
        /\ to = EndOf(from, Len(req[c].list)) /\ total = Len(req[c].list)
    BY <1>2, <1>4, <1>5, <1>6, <1>7, <2>1
  <2>3. req' = [req EXCEPT ![c] =
             [req[c] EXCEPT !.pc = "idle", !.list = <<>>, !.bound = {},
                            !.next = IF to < total THEN to ELSE End,
                            !.shown = @ \o SubSeq(list, from + 1, to),
                            !.cuts = @ \cup {list}]]
    BY <1>2, <2>2 DEF Page
  <2>4. req' = [req EXCEPT ![c] =
             [req[c] EXCEPT !.pc = "idle", !.list = <<>>, !.bound = {},
                            !.next = IF to < total THEN to ELSE End,
                            !.shown = req[c].shown \o SubSeq(list, from + 1, to),
                            !.cuts = req[c].cuts \cup {list}]]
    BY <1>1, <2>3 DEF TrendRequests
  <2> QED  BY <1>8, <1>9, <2>4
<1>11. part \in Seq(Offered)
  <2>1. \A k \in (from + 1)..to : list[k] \in Offered
    BY <1>3, <1>4, <1>7
  <2> QED  BY <1>8, <2>1, SubSeqProperties
<1>12. next \in -1..(PoolSize - 1) /\ (next # End => next = to) /\ (next = End => to = total)
  BY <1>3, <1>4, <1>7, <1>8 DEF End
<1>13. shown \in Seq(Offered) /\ cuts \in SUBSET Lists /\ {} \in SUBSET Providers
  BY <1>1, <1>2, <1>8, <1>11 DEF TrendRequests
<1>14. r \in TrendRequests
  BY <1>1, <1>9, <1>12, <1>13, EmptyList DEF TrendRequests
<1>15. r.pc = "idle" /\ r.next = next /\ r.shown = shown /\ r.cuts = cuts
       /\ r.lang = req[c].lang
  BY <1>1, <1>9 DEF TrendRequests
<1>16. Asking(r)
  BY <1>1, <1>15 DEF Asking
<1>17. Scrolled(r)
  <2>1. cuts # {}
    BY <1>8
  <2>2. ASSUME NEW l \in cuts, cuts = {l}
        PROVE  l = list /\ shown = SubSeq(list, 1, to)
    <3>1. l = list
      BY <1>8, <2>2
    <3>2. offset <= total /\ req[c].shown = SubSeq(list, 1, offset)
      <4>1. CASE req[c].cuts = {}
        <5>1. req[c].shown = <<>> /\ offset = 0
          BY <1>1, <1>5, <4>1 DEF Scrolled
        <5>2. SubSeq(list, 1, 0) = <<>>
          BY SubSeqEmpty
        <5> QED  BY <5>1, <5>2
      <4>2. CASE req[c].cuts # {}
        <5>1. req[c].cuts = {list}
          BY <1>8, <2>2, <3>1, <4>2
        <5> QED  BY <1>1, <1>4, <1>5, <5>1 DEF Scrolled
      <4> QED  BY <4>1, <4>2
    <3>3. from = offset
      BY <1>6, <3>2
    <3>4. SubSeq(list, 1, from) \o SubSeq(list, from + 1, to) = SubSeq(list, 1, to)
      <4>1. from \in 0..Len(list) /\ to \in from..Len(list)
        BY <1>4, <1>6, <1>7
      <4> QED  BY <1>3, <4>1, Seam
    <3> QED  BY <1>8, <3>1, <3>2, <3>3, <3>4
  <2>3. to = total => SubSeq(list, 1, to) = list
    BY <1>3, <1>4, SubSeqFull
  <2>4. to \in 0..Len(list)
    BY <1>4, <1>7
  <2>5. r.cuts = {} => /\ r.shown = <<>>
                       /\ r.pc = "idle" => r.next = End
                       /\ r.pc # "idle" => r.offset = 0
    BY <1>15, <2>1
  <2>6. ASSUME NEW l \in r.cuts, r.cuts = {l}
        PROVE  /\ r.pc = "idle" /\ r.next = End => r.shown = l
               /\ r.pc = "idle" /\ r.next # End =>
                     r.next \in 0..Len(l) /\ r.shown = SubSeq(l, 1, r.next)
               /\ r.pc # "idle" => r.offset \in 0..Len(l) /\ r.shown = SubSeq(l, 1, r.offset)
    BY <1>12, <1>15, <2>2, <2>3, <2>4, <2>6
  <2> QED  BY <2>5, <2>6 DEF Scrolled
<1>18. Scrolling'
  BY <1>1, <1>10, <1>14, <1>16, <1>17, RequestStep
<1>19. Stock' /\ JobsTyped'
  BY <1>1 DEF Stock, JobsTyped, Page
<1> QED  BY <1>18, <1>19 DEF TrendInv

LEMMA JobReplaced ==
    ASSUME JobsTyped, NEW j \in jobs, NEW k, k.pc \in {"collect", "set"}, k.list \in Lists,
           k.lang \in Languages, jobs' = (jobs \ {j}) \cup {k}
    PROVE  JobsTyped'
<1>1. MaxJobs \in Nat
  BY TrendAssumption
<1>2. IsFiniteSet(jobs \ {j}) /\ Cardinality(jobs \ {j}) < MaxJobs
  BY <1>1, Taken DEF JobsTyped
<1>3. IsFiniteSet(jobs') /\ Cardinality(jobs') <= MaxJobs
  BY <1>1, <1>2, Added
<1> QED  BY <1>3 DEF JobsTyped

LEMMA RebuildKeeps == ASSUME TrendInv, NEW j \in jobs, Rebuild(j) PROVE TrendInv'
<1>1. Stock /\ JobsTyped /\ Scrolling
  BY DEF TrendInv
<1>2. PICK bound \in {{}, Providers}, set \in SUBSET Providers :
         /\ \/ Found(bound) /\ set = bound
            \/ bound = Providers /\ set # bound /\ Answering(set, bound)
         /\ jobs' = (jobs \ {j}) \cup
               {[lang |-> j.lang, pc |-> "set", list |-> Collected(set, j.lang)]}
  BY DEF Rebuild
<1>3. PICK list \in Lists : list = Collected(set, j.lang)
  BY <1>1, CollectedTyped DEF Stock
<1>4. PICK k : k = [lang |-> j.lang, pc |-> "set", list |-> list]
  OBVIOUS
<1>5. k.pc = "set" /\ k.list \in Lists /\ k.lang \in Languages
  BY <1>1, <1>4 DEF JobsTyped
<1>6. JobsTyped'
  BY <1>1, <1>2, <1>3, <1>4, <1>5, JobReplaced
<1>7. used' \in 0..MaxDisruptions
  BY <1>1, <1>2, Troubled DEF Stock, Found, Answering
<1>8. Stock' /\ Scrolling'
  BY <1>1, <1>7 DEF Stock, Scrolling, Asking, Scrolled, Rebuild
<1> QED  BY <1>6, <1>8 DEF TrendInv

LEMMA StoreRebuiltKeeps == ASSUME TrendInv, NEW j \in jobs, StoreRebuilt(j) PROVE TrendInv'
<1>1. Stock /\ JobsTyped /\ Scrolling
  BY DEF TrendInv
<1>2. j.lang \in Languages /\ j.list \in Lists
  BY <1>1 DEF JobsTyped
<1>3. Stock'
  BY <1>1, <1>2, StoreKeeps DEF StoreRebuilt
<1>4. JobsTyped'
  <2>1. MaxJobs \in Nat
    BY TrendAssumption
  <2>2. jobs' = jobs \ {j}
    BY DEF StoreRebuilt
  <2>3. IsFiniteSet(jobs') /\ Cardinality(jobs') < MaxJobs
    BY <1>1, <2>1, <2>2, Taken DEF JobsTyped
  <2>4. Cardinality(jobs') \in Nat
    BY <2>3, FS_CardinalityType
  <2> QED  BY <1>1, <2>1, <2>2, <2>3, <2>4 DEF JobsTyped
<1>5. Scrolling'
  BY <1>1 DEF Scrolling, Asking, Scrolled, StoreRebuilt
<1> QED  BY <1>3, <1>4, <1>5 DEF TrendInv

LEMMA OutsideKeeps ==
    ASSUME TrendInv, \/ \E k \in Languages : Expire(k)
                     \/ \E p \in Providers : OfferChanges(p)
                     \/ UNCHANGED trendVars
    PROVE  TrendInv'
<1>1. Stock /\ JobsTyped /\ Scrolling
  BY DEF TrendInv
<1>2. UNCHANGED <<req, jobs>>
  BY DEF Expire, OfferChanges, trendVars
<1>3. Scrolling' /\ JobsTyped'
  BY <1>1, <1>2 DEF Scrolling, Asking, Scrolled, JobsTyped
<1>4. Stock'
  <2>1. ASSUME NEW k \in Languages, Expire(k) PROVE Stock'
    BY <1>1, <2>1 DEF Stock, Expire
  <2>2. ASSUME NEW p \in Providers, OfferChanges(p) PROVE Stock'
    <3>1. PICK items \in Offers[p] : offer' = [offer EXCEPT ![p] = items]
      BY <2>2 DEF OfferChanges
    <3>2. items \in SUBSET Items
      BY <3>1, TrendAssumption DEF Items
    <3>3. offer' \in [Providers -> SUBSET Items] /\ \A q \in Providers : offer'[q] \in Offers[q]
      BY <1>1, <3>1, <3>2 DEF Stock
    <3>4. changes' \in 0..MaxChanges
      BY <1>1, <2>2, TrendAssumption DEF Stock, OfferChanges
    <3> QED  BY <1>1, <2>2, <3>3, <3>4 DEF Stock, OfferChanges
  <2>3. CASE UNCHANGED trendVars
    BY <1>1, <2>3 DEF Stock, trendVars
  <2> QED  BY <2>1, <2>2, <2>3
<1> QED  BY <1>3, <1>4 DEF TrendInv

LEMMA NextTrendInv == TrendInv /\ [TrendNext]_trendVars => TrendInv'
<1> SUFFICES ASSUME TrendInv, [TrendNext]_trendVars PROVE TrendInv'
  OBVIOUS
<1>1. ASSUME NEW c \in Clients, NEW l \in Languages, Open(c, l) PROVE TrendInv'
  BY <1>1, BeginKeeps DEF Open
<1>2. ASSUME NEW c \in Clients, Follow(c) PROVE TrendInv'
  <2>1. req[c] \in TrendRequests /\ Asking(req[c]) /\ req[c].next # End
    BY <1>2 DEF TrendInv, Scrolling, Follow
  <2>2. req[c].next \in Nat /\ req[c].lang \in Languages
    BY <2>1, TrendAssumption DEF Asking, TrendRequests, End
  <2>3. PICK offset \in Nat, l \in Languages : offset = req[c].next /\ l = req[c].lang
    BY <2>2
  <2> QED  BY <1>2, <2>1, <2>3, BeginKeeps DEF Follow
<1>3. ASSUME NEW c \in Clients, Proceed(c) PROVE TrendInv'
  BY <1>3, GetKeeps, CollectKeeps, StoreOwnKeeps, PageKeeps DEF Proceed
<1>4. ASSUME NEW j \in jobs, Rebuild(j) \/ StoreRebuilt(j) PROVE TrendInv'
  BY <1>4, RebuildKeeps, StoreRebuiltKeeps
<1> QED  BY <1>1, <1>2, <1>3, <1>4, OutsideKeeps DEF TrendNext

LEMMA TrendInvHolds == TrendSpec => []TrendInv
BY InitTrendInv, NextTrendInv, PTL DEF TrendSpec

(* Whatever the providers offer and however the rebuilds of the trends     *)
(* overtake each other, the cache holds lists of what was on offer that    *)
(* are no longer than the pool, and a link leads into such a list.         *)
THEOREM TrendsTyped == TrendSpec => []TrendTypeOK
<1>1. TrendInv => TrendTypeOK
  BY DEF TrendInv, Stock, JobsTyped, Scrolling, TrendRequests, TrendTypeOK
<1> QED  BY <1>1, TrendInvHolds, PTL

(* engine::paginate over a list that tasks replace meanwhile: pages that   *)
(* were cut from one list join without a gap or a repeat, for every length *)
(* of the list and of the page, and the last of them ends with the list.   *)
THEOREM ScrollsExact == TrendSpec => []ScrollExact
<1>1. TrendInv => ScrollExact
  <2>1. SUFFICES ASSUME TrendInv, NEW c \in Clients, NEW list \in req[c].cuts,
                        req[c].cuts = {list}, req[c].pc = "idle"
                 PROVE  /\ req[c].shown = FirstOf(list, Len(req[c].shown))
                        /\ req[c].next = End => req[c].shown = list
    BY DEF ScrollExact, At
  <2>2. Scrolled(req[c]) /\ req[c] \in TrendRequests
    BY <2>1 DEF TrendInv, Scrolling
  <2>3. list \in Seq(Offered) /\ Len(list) \in Nat
    BY <2>1, <2>2, ListsAre DEF TrendRequests
  <2>4. PICK n \in 0..Len(list) : req[c].shown = SubSeq(list, 1, n)
    <3>1. CASE req[c].next = End
      <4>1. req[c].shown = list
        BY <2>1, <2>2, <3>1 DEF Scrolled
      <4>2. SubSeq(list, 1, Len(list)) = list
        BY <2>3, SubSeqFull
      <4>3. Len(list) \in 0..Len(list)
        BY <2>3
      <4> QED  BY <4>1, <4>2, <4>3
    <3>2. CASE req[c].next # End
      BY <2>1, <2>2, <3>2 DEF Scrolled
    <3> QED  BY <3>1, <3>2
  <2>5. n \in Nat /\ n <= Len(list) /\ Len(req[c].shown) = n
    BY <2>3, <2>4
  <2>6. Min({n, Len(list)}) = n
    <3>1. Min({n, Len(list)}) \in {n, Len(list)} /\ Min({n, Len(list)}) <= n
          /\ Min({n, Len(list)}) \in Nat
      BY <2>3, <2>5, Lesser
    <3> QED  BY <2>3, <2>5, <3>1
  <2>7. req[c].shown = FirstOf(list, Len(req[c].shown))
    BY <2>4, <2>5, <2>6 DEF FirstOf
  <2>8. req[c].next = End => req[c].shown = list
    BY <2>1, <2>2 DEF Scrolled
  <2> QED  BY <2>7, <2>8
<1> QED  BY <1>1, TrendInvHolds, PTL
=============================================================================
