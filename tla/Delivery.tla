------------------------------ MODULE Delivery ------------------------------
(***************************************************************************)
(* What a client may rely on when it writes through the server: a request  *)
(* is performed at most once, and the answer is truthful.  "done" means it *)
(* was performed and "refused" that it was not, so that it may be sent     *)
(* again; only "unsure" leaves that open.                                  *)
(***************************************************************************)
EXTENDS Naturals

CONSTANT Requests

VARIABLES
    performed, \* per request: how often Mastodon has performed it
    told       \* per request: the verdict the client was given

vars == <<performed, told>>

Init ==
    /\ performed = [r \in Requests |-> 0]
    /\ told = [r \in Requests |-> "nothing"]

Perform(r) ==
    /\ performed[r] = 0 /\ told[r] = "nothing"
    /\ performed' = [performed EXCEPT ![r] = 1]
    /\ UNCHANGED told

Tell(r, verdict) ==
    /\ told[r] = "nothing"
    /\ verdict = "done" => performed[r] = 1
    /\ verdict = "refused" => performed[r] = 0
    /\ told' = [told EXCEPT ![r] = verdict]
    /\ UNCHANGED performed

Next == \E r \in Requests :
    \/ Perform(r)
    \/ \E verdict \in {"done", "refused", "unsure"} : Tell(r, verdict)

Spec == Init /\ [][Next]_vars
=============================================================================
