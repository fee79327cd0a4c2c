--------------------------- MODULE MCFeedPipeline ---------------------------
(* Four pipelines over overlapping sources: the home feed's shape, with    *)
(* quotas 6:3:1 and a fallback source, the same without a user vector, and *)
(* two plain ones with the default sampler, the trends' and the link       *)
(* timeline's, which keeps duplicates.  u1 and u4 come from two sources.   *)
EXTENDS FeedPipeline

C(uri, author, score) ==
    [uri |-> uri, author |-> author, group |-> "src", score |-> 100 * score]

network == << C("u1", "ann", 2), C("u2", "bob", 3), C("u3", "ann", 3),
              C("u10", "cid", 1), C("u11", "dee", 2) >>
trending == << C("u4", "ann", 3), C("u5", "eve", 2), C("u1", "ann", 3) >>
recommended == << C("u6", "mallory", 3), C("u4", "fay", 3), C("u7", "gus", 1),
                  C("u8", "gus", 2) >>
extra == << C("u9", "hal", 3), C("u2", "bob", 3) >>

Source(group, answers) == [group |-> group, answers |-> answers]
Network     == Source("network", {<<>>, SubSeq(network, 1, 2), network})
Trending    == Source("trending", {<<>>, SubSeq(trending, 1, 1), trending})
Recommended == Source("recommended", {<<>>, SubSeq(recommended, 1, 2), recommended})

Quota(group, weight) == [group |-> group, weight |-> weight]
Plain(dedup) ==
    [sources |-> << Source(NoGroup, Network.answers \cup {trending}),
                    Source("network", {<<>>, trending, recommended}) >>,
     fallback |-> <<>>, dedup |-> dedup, quotas |-> <<>>, limit |-> 5]

MCPipelines ==
  { [sources |-> <<Network, Trending, Recommended>>, dedup |-> TRUE,
     fallback |-> << Source("_fallback", {extra}) >>,
     quotas |-> << Quota("network", 6), Quota("recommended", 3),
                   Quota("trending", 1) >>, limit |-> 7],
    [sources |-> <<Network, Trending>>, fallback |-> <<>>, dedup |-> TRUE,
     quotas |-> << Quota("network", 7), Quota("trending", 3) >>, limit |-> 4],
    Plain(TRUE), Plain(FALSE) }

MCUris == {"u1", "u2", "u3", "u4", "u5", "u6", "u7", "u8", "u9", "u10", "u11"}
MCAuthors == {"ann", "bob", "cid", "dee", "eve", "fay", "gus", "hal", "mallory"}
MCGroups == {"network", "trending", "recommended", "_fallback", "src"}
MCPriority == [g \in MCGroups |->
                  IF g \in {"network", "recommended"} THEN 1 ELSE 2]
MCBanned == {"mallory"}
=============================================================================
