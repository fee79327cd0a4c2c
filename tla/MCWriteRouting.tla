--------------------------- MODULE MCWriteRouting ---------------------------
(* Small instances of WriteRouting: three snowflakes of one post, the row  *)
(* of the third without a URI, and one of another post.                    *)
EXTENDS WriteRouting, TLC

TwoPosts == 11 :> "a" @@ 12 :> "a" @@ 13 :> "b" @@ 14 :> "a"
SomeIds == {<<>>, <<12>>, <<14>>, <<Native>>, <<11, 13>>, <<13, 14>>}
=============================================================================
