---------------------------- MODULE MCTrendFeed ----------------------------
(* Small instances of TrendFeed: provider p can filter by language, q can  *)
(* not.  Item 1 is in both languages, 2 and 4 in German, 3 in English.     *)
EXTENDS TrendFeed, TLC

TwoOffers == "p" :> {{1, 3}, {3}} @@ "q" :> {{2, 4}}
SomeSpeak == <<{"de", "en"}, {"de"}, {"en"}, {"de"}>>
FewResults == "p" :> 2 @@ "q" :> 3
=============================================================================
