--------------------------- MODULE MCStatusPages ---------------------------
(* A small instance of StatusPages: provider A offers p, q (a reply to p)  *)
(* and r (a reply to q), provider B offers p, and q without an id; the     *)
(* instance has n.                                                         *)
EXTENDS StatusPages, TLC

SomeCopies == "a1" :> "p" @@ "a2" :> "q" @@ "a3" :> "r" @@ "b1" :> "p" @@
    "x1" :> "q" @@ "n1" :> "n"
SomeSeeds == {{"a1", "a2"}}
SomeRankings ==
    "tag" :> {<<"a1", "n1", "b1">>, <<"b1", "a2">>} @@
    "link" :> {<<"a1", "a2", "x1">>, <<"a2", "a1", "a2">>}
SomeAbove == "p" :> <<>> @@ "q" :> <<"p">> @@ "r" :> <<"q", "p">> @@ "n" :> <<>>
SomeCached == "a1" :> <<>> @@ "a2" :> <<"a1">> @@ "a3" :> <<"a2", "a1">> @@ "b1" :> <<>> @@ "x1" :> <<>>
SomePages == [c \in {"a1", "a2", "a3", "b1", "x1"} |->
    IF c = "a1" THEN <<<<"a2">>, <<"a3">>>> ELSE IF c = "a2" THEN <<<<"a3">>, <<>>>> ELSE <<<<>>>>]
=============================================================================
