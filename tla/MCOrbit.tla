------------------------------ MODULE MCOrbit ------------------------------
(* Small instances of Orbit: three likes and a repost over two texts, and  *)
(* an ordinary post that shares the statuses table with the repost.        *)
EXTENDS Orbit

like1 == [table |-> "favourites", kind |-> "Like", id |-> 1,
          account |-> "alice", text |-> "p", at |-> 1]
like2 == [table |-> "favourites", kind |-> "Like", id |-> 2,
          account |-> "bob", text |-> "q", at |-> 2]
like3 == [table |-> "favourites", kind |-> "Like", id |-> 3,
          account |-> "alice", text |-> "q", at |-> 3]
post4 == [table |-> "statuses", kind |-> NotPolled, id |-> 4,
          account |-> "bob", text |-> "p", at |-> 1]
repost5 == [table |-> "statuses", kind |-> "Repost", id |-> 5,
            account |-> "alice", text |-> "p", at |-> 2]

MCRows == {like1, like2, like3, post4, repost5}
MCAccounts == {"alice", "bob"}
MCTexts == {"p", "q"}
MCWindows == {0, 2}
=============================================================================
