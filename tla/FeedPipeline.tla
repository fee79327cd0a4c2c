---------------------------- MODULE FeedPipeline ----------------------------
(***************************************************************************)
(* One run of Pipeline::execute of crates/feed, from which every feed is   *)
(* served: the sources answer in any order, a short pool is topped up from *)
(* the fallback sources, candidates are deduplicated (except by the link   *)
(* timeline), filtered by policy and penalised for repeated authors, and   *)
(* the quota sampler picks the page one candidate at a time out of the     *)
(* rest.                                                                   *)
(*                                                                         *)
(* TopK is the sampler without quotas: QuotaSampler falls back to the same *)
(* highest-score choice.  Deficits are exact here; the code divides f64's, *)
(* so of two quotas in an exact tie it may also take the later one.        *)
(***************************************************************************)
EXTENDS SequencesExt, Sublists

CONSTANTS
    Uris, Authors, Groups, \* of the posts
    Pipelines,       \* what the builders build: sources, fallback, whether Dedup is
                     \* among the filters, quotas, limit
    PriorityOf,      \* Dedup's priority of a candidate's group
    Banned,          \* authors the viewer's policy blocks
    Penalty,         \* Diversity's factor, in hundredths
    NoGroup          \* a source without a group override

Candidate == [uri : Uris, author : Authors, group : Groups, score : Nat]

\* A source is its group override and the answers it may give.
ASSUME PipelineAssumption ==
    /\ Penalty \in 0..100
    /\ NoGroup \notin Groups /\ PriorityOf \in [Groups -> Int]
    /\ \A p \in Pipelines :
          /\ p.limit \in Nat /\ p.dedup \in BOOLEAN
          /\ {p.sources, p.fallback} \subseteq
                Seq([group : Groups \cup {NoGroup}, answers : SUBSET Seq(Candidate)])
          /\ p.quotas \in Seq([group : Groups, weight : Nat])
          /\ \A i, j \in DOMAIN p.quotas :
                p.quotas[i].group = p.quotas[j].group => i = j

VARIABLES
    built,      \* the pipeline that runs
    pc,         \* "collect", "fallback", "rank", "sample", "done"
    arrived,    \* sources of this phase that have answered
    replies,    \* their candidates, at the source's position
    candidates, \* the vector the stages work on
    collected,  \* history: the candidates before deduplication
    pool,       \* history: the candidates handed to the sampler
    selected    \* the page so far

Quotas == built.quotas
Limit  == built.limit

vars == <<built, pc, arrived, replies, candidates, collected, pool, selected>>

----------------------------------------------------------------------------
Specs == IF pc = "collect" THEN built.sources ELSE built.fallback
NoReplies(specs) == [i \in DOMAIN specs |-> <<>>]

Tagged(reply, group) ==
    IF group = NoGroup THEN reply
    ELSE [n \in DOMAIN reply |-> [reply[n] EXCEPT !.group = group]]

\* The elements of the batches, one batch after the other.
Joined(batches) ==
    LET at == UNION {{i} \X (DOMAIN batches[i]) : i \in DOMAIN batches}
        order == Arranged(at, {p \in at \X at :
                     \/ p[1][1] < p[2][1]
                     \/ p[1][1] = p[2][1] /\ p[1][2] < p[2][2]})
    IN [k \in DOMAIN order |-> batches[order[k][1]][order[k][2]]]

\* Mutant: the sort is left out.
Unsorted(c) == c

\* A stable sort_by_key on the priority.
ByPriority(c) ==
    LET prio(i) == PriorityOf[c[i].group]
        order == Arranged(DOMAIN c, {p \in (DOMAIN c) \X (DOMAIN c) :
                     \/ prio(p[1]) < prio(p[2])
                     \/ prio(p[1]) = prio(p[2]) /\ p[1] < p[2]})
    IN [k \in DOMAIN order |-> c[order[k]]]

Dedup(c) ==
    LET s == ByPriority(c)
    IN Sublist(s, {i \in DOMAIN s : \A j \in 1..(i - 1) : s[j].uri # s[i].uri})

Permitted(c) == Sublist(c, {i \in DOMAIN c : c[i].author \notin Banned})

\* Mutant: the penalty is subtracted.
Reduced(c) ==
    [i \in DOMAIN c |->
        IF \E j \in 1..(i - 1) : c[j].author = c[i].author
        THEN [c[i] EXCEPT !.score = @ - 100 * Penalty] ELSE c[i]]

\* Every post of an author but the first in the list is penalised, once.
\* Scores are held in hundredths so that the product is exact.
Diversified(c) ==
    [i \in DOMAIN c |->
        IF \E j \in 1..(i - 1) : c[j].author = c[i].author
        THEN [c[i] EXCEPT !.score = (@ * Penalty) \div 100]
        ELSE c[i]]

\* The sum of the weights, counted.
TotalWeight == Cardinality(UNION {{q} \X (1..Quotas[q].weight) : q \in DOMAIN Quotas})

CountOf(group) == Cardinality({i \in DOMAIN selected : selected[i].group = group})
InGroup(group) == {i \in DOMAIN candidates : candidates[i].group = group}

\* Mutant: what was already selected is not counted.
FixedShare(q) == Quotas[q].weight

\* weight / total - count / n, times n * total.
Deficit(q) == Quotas[q].weight * (Len(selected) + 1)
              - CountOf(Quotas[q].group) * TotalWeight

\* Mutant: the vector is taken to be sorted still.
Foremost(S) == CHOOSE i \in S : \A j \in S : i <= j

\* max_by keeps the last of equal maxima.
Best(S) == CHOOSE i \in S : \A j \in S :
    \/ candidates[j].score < candidates[i].score
    \/ candidates[j].score = candidates[i].score /\ j <= i

\* The first quota of greatest deficit among those with candidates left.
Available == {q \in DOMAIN Quotas : InGroup(Quotas[q].group) # {}}
NeediestQuota == CHOOSE q \in Available : \A p \in Available :
    Deficit(p) < Deficit(q) \/ (Deficit(p) = Deficit(q) /\ q <= p)

PickIndex ==
    IF TotalWeight = 0 \/ Available = {}
    THEN Best(DOMAIN candidates)
    ELSE Best(InGroup(Quotas[NeediestQuota].group))

SwapRemove(c, i) == Front([c EXCEPT ![i] = Last(c)])

----------------------------------------------------------------------------
Init ==
    /\ built \in Pipelines
    /\ pc = "collect" /\ arrived = {} /\ replies = NoReplies(built.sources)
    /\ candidates = <<>> /\ collected = <<>> /\ pool = <<>> /\ selected = <<>>

\* A source answers.  join_all polls them together: any order.
Arrive(i) ==
    /\ pc \in {"collect", "fallback"} /\ i \notin arrived
    /\ \E reply \in Specs[i].answers :
          replies' = [replies EXCEPT ![i] = Tagged(reply, Specs[i].group)]
    /\ arrived' = arrived \cup {i}
    /\ UNCHANGED <<built, pc, candidates, collected, pool, selected>>

\* All have answered: join_all yields their batches in the sources' order.
Gather ==
    /\ pc \in {"collect", "fallback"} /\ arrived = DOMAIN Specs
    /\ candidates' = candidates \o Joined(replies)
    /\ collected' = candidates'
    /\ IF pc = "collect" /\ built.fallback # <<>> /\ Len(candidates') < Limit \div 2
       THEN /\ pc' = "fallback" /\ arrived' = {}
            /\ replies' = NoReplies(built.fallback)
       ELSE pc' = "rank" /\ UNCHANGED <<arrived, replies>>
    /\ UNCHANGED <<built, pool, selected>>

\* The filters and the scorer, which never wait.
Rank ==
    /\ pc = "rank"
    /\ candidates' = Diversified(Permitted(
          IF built.dedup THEN Dedup(candidates) ELSE candidates))
    /\ pool' = candidates'
    /\ pc' = "sample"
    /\ UNCHANGED <<built, arrived, replies, collected, selected>>

Pick ==
    /\ pc = "sample" /\ Len(selected) < Limit /\ candidates # <<>>
    /\ selected' = Append(selected, candidates[PickIndex])
    /\ candidates' = SwapRemove(candidates, PickIndex)
    /\ UNCHANGED <<built, pc, arrived, replies, collected, pool>>

Finish ==
    /\ pc = "sample" /\ (Len(selected) = Limit \/ candidates = <<>>)
    /\ pc' = "done"
    /\ UNCHANGED <<built, arrived, replies, candidates, collected, pool, selected>>

Next == (\E i \in DOMAIN Specs : Arrive(i)) \/ Gather \/ Rank \/ Pick \/ Finish

Spec == Init /\ [][Next]_vars

----------------------------------------------------------------------------
Sampling == pc \in {"sample", "done"}

TypeOK ==
    /\ pc \in {"collect", "fallback", "rank", "sample", "done"}
    /\ pc \in {"collect", "fallback"} =>
          arrived \subseteq DOMAIN Specs /\ replies \in [DOMAIN Specs -> Seq(Candidate)]
    /\ {candidates, collected, pool, selected} \subseteq Seq(Candidate)
    /\ Len(selected) <= Limit

\* Of a collected post the preferred copy, of those with the best priority
\* the first, is in the pool, unless its author is banned.
Kept(i) ==
    LET copies == {j \in DOMAIN collected : collected[j].uri = collected[i].uri}
        prio(j) == PriorityOf[collected[j].group]
        first == CHOOSE j \in copies : \A k \in copies :
                    prio(j) < prio(k) \/ (prio(j) = prio(k) /\ j <= k)
    IN \/ collected[first].author \in Banned
       \/ \E c \in ToSet(pool) : /\ c.uri = collected[first].uri
                                 /\ c.group = collected[first].group
                                 /\ c.author = collected[first].author

(* Each post is offered once, and as its preferred copy, whichever source  *)
(* answered first and however the sampler shuffles the rest, by every      *)
(* pipeline that deduplicates.                                             *)
PreferredCopy ==
    Sampling /\ built.dedup =>
        /\ LET offered == selected \o candidates
           IN IsInjective([i \in DOMAIN offered |-> offered[i].uri])
        /\ \A i \in DOMAIN collected : Kept(i)

Excess(q) == CountOf(Quotas[q].group) * TotalWeight - Quotas[q].weight * Len(selected)
Balanced == Sampling /\ TotalWeight > 0 /\ Available = DOMAIN Quotas

(* While every quota group still has candidates, a page of n posts is less *)
(* than one post above the share of n of each group, and less than one     *)
(* below.                                                                  *)
NeverAbove == Balanced => \A q \in DOMAIN Quotas : Excess(q) < TotalWeight
NeverBelow == Balanced => \A q \in DOMAIN Quotas : -TotalWeight < Excess(q)

\* A group without a quota (fallback posts) only fills what the others leave.
QuotedFirst ==
    LET quoted(c) == \E q \in DOMAIN Quotas : Quotas[q].group = c.group
    IN \A i, j \in DOMAIN selected :
          i < j /\ TotalWeight > 0 /\ quoted(selected[j]) => quoted(selected[i])

(* The page is never a whole post above the share of a group nor a whole   *)
(* post below it, and nothing with a quota is picked after a post without. *)
QuotaKept == NeverAbove /\ NeverBelow /\ QuotedFirst

(* Quotas decide how many of a group are shown, never which: of a group    *)
(* the better scored are picked, and earlier, although swap_remove         *)
(* shuffles the rest after every pick; without quotas the page is the top  *)
(* of the ranking.  Nothing is dropped or invented on the way, and the     *)
(* page is only short of the limit when the pool is exhausted, also when   *)
(* the groups with quotas have run out and others have not.                *)
BestFirst ==
    /\ \A i \in DOMAIN selected :
          LET rivals(c) == TotalWeight = 0 \/ c.group = selected[i].group
          IN /\ \A j \in (i + 1)..Len(selected) :
                   rivals(selected[j]) => selected[i].score >= selected[j].score
             /\ \A c \in ToSet(candidates) : rivals(c) => selected[i].score >= c.score
    /\ Sampling => ToSet(selected) \cup ToSet(candidates) = ToSet(pool)
    /\ pc = "done" => Len(selected) = Min({Limit, Len(pool)})
=============================================================================
