------------------------- MODULE WriteRoutingProofs -------------------------
(***************************************************************************)
(* Theorems about WriteRouting, for any number of requests, snowflakes and *)
(* ids, and any number of failures: what is performed and told, what the   *)
(* ids sent and answered mean, and the types.                              *)
(***************************************************************************)
EXTENDS WriteRouting, SequenceTheorems, WellFoundedInduction, TLAPS

Fields == {"pc", "op", "body", "ids", "out", "error", "status", "final", "answer"}

Shape ==
    /\ DOMAIN req = Requests /\ \A r \in Requests : DOMAIN req[r] = Fields
    /\ applied \in [Requests -> Nat]

\* A request is performed once, on its way from the handler's or the
\* middleware's message to the answer, or not at all.
Truthful(q, n) ==
    /\ q.pc \in Pcs /\ q.status \in Nat
    /\ q.pc \in {"new", "resolve", "forward", "proxy"} => n = 0
    /\ q.pc = "render" => n = 1
    /\ q.pc \in {"fall", "passing", "done"} =>
          /\ q.status = 200 => n = 1
          /\ q.status # 200 /\ q.status < 500 => n = 0
    /\ n \in {0, 1}

IInv == Shape /\ \A r \in Requests : Truthful(req[r], applied[r])

LEMMA InitIInv == Init => IInv
  BY DEF Init, IInv, Shape, Truthful, Blank, Fields, Pcs

\* What a step of one request does to the others and to what was performed.
Step(r) ==
    /\ DOMAIN req' = Requests /\ DOMAIN req'[r] = Fields
    /\ \A q \in Requests \ {r} : req'[q] = req[q]
    /\ \/ applied' = applied
       \/ /\ applied[r] = 0 /\ applied' = [applied EXCEPT ![r] = @ + 1]
          /\ req[r].pc # "done" /\ req'[r].pc # "done"
    /\ req[r].pc = "done" => req'[r] = req[r]
    /\ Truthful(req'[r], applied'[r])

\* What is left as it is when a step writes to the request r.
Kept(r) ==
    /\ DOMAIN req' = Requests /\ DOMAIN req'[r] = Fields
    /\ \A q \in Requests \ {r} : req'[q] = req[q]
    /\ req'[r].op = req[r].op /\ req'[r].ids = req[r].ids /\ req'[r].body = req[r].body

LEMMA Replied ==
  ASSUME Shape, NEW r \in Requests, NEW s, NEW e, NEW a, Reply(r, s, e, a)
  PROVE  /\ Kept(r) /\ req'[r].out = req[r].out
         /\ req'[r].pc = "fall" /\ req'[r].status = s /\ req'[r].error = e
         /\ req'[r].answer = a /\ req'[r].final = Marked(req[r].op)
  BY DEF Shape, Reply, Kept, Fields

LEMMA Went ==
  ASSUME Shape, NEW r \in Requests, NEW pc, Goto(r, pc)
  PROVE  /\ Kept(r) /\ req'[r] = [req[r] EXCEPT !.pc = pc] /\ req'[r].pc = pc
         /\ req'[r].status = req[r].status /\ req'[r].out = req[r].out
         /\ req'[r].final = req[r].final /\ req'[r].answer = req[r].answer
  BY DEF Shape, Goto, Kept, Fields

LEMMA Failed ==
  ASSUME Shape, NEW r \in Requests,
         NEW e \in SearchErrors \cup {"NotFound", "Unresolvable", "BadBody", "Db"}, Fail(r, e)
  PROVE  /\ Kept(r) /\ req'[r].out = req[r].out
         /\ req'[r].pc = "fall" /\ req'[r].status = StatusOf(e)
         /\ StatusOf(e) \in 400..599 /\ req'[r].final = Marked(req[r].op)
<1>1. StatusOf(e) \in 400..599
  BY DEF StatusOf, SearchErrors
<1> QED  BY <1>1, Replied DEF Fail

LEMMA ForwardStep ==
  ASSUME IInv, NEW r \in Requests, Forward(r)
  PROVE  Step(r)
<1>1. Shape /\ applied[r] = 0 /\ req[r].pc = "forward" /\ applied \in [Requests -> Nat]
       /\ req[r].status \in Nat
  BY DEF IInv, Shape, Truthful, Forward, At
<1> DEFINE then(s) == CASE s = 0 -> Fail(r, "Unreachable")
                     [] s = 200 -> Goto(r, "render")
                     [] OTHER -> Reply(r, s, "none", <<>>)
<1>2. CASE \E s \in Statuses : Mastodon(r, "handler", req[r].out, s) /\ then(s)
  <2>1. CASE applied' = [applied EXCEPT ![r] = @ + 1] /\ then(200)
    <3>1. Goto(r, "render")
      BY <2>1
    <3>2. applied'[r] = 1
      BY <2>1, <1>1
    <3>3. Kept(r) /\ req'[r].pc = "render" /\ req'[r].status = req[r].status
      BY <3>1, <1>1, Went
    <3> QED  BY <2>1, <3>2, <3>3, <1>1 DEF Step, Truthful, Kept, Pcs
  <2>2. CASE \E s \in {404, 405, 422, 503} : applied' = applied /\ then(s)
    BY <2>2, <1>1, Replied DEF Step, Truthful, Kept, Pcs
  <2>3. CASE (applied' = [applied EXCEPT ![r] = @ + 1] \/ applied' = applied) /\ then(0)
    BY <2>3, <1>1, Failed DEF Step, Truthful, Kept, Pcs, SearchErrors, StatusOf
  <2> QED  BY <1>2, <2>1, <2>2, <2>3 DEF Mastodon, Statuses
<1>3. CASE Fail(r, "Unreachable") /\ UNCHANGED applied
  BY <1>3, <1>1, Failed DEF Step, Truthful, Kept, Pcs, SearchErrors, StatusOf
<1> QED  BY <1>2, <1>3 DEF Forward

\* A step that performs nothing, by where it leads.
LEMMA Silently ==
  ASSUME IInv, NEW r \in Requests, Kept(r), applied' = applied, req[r].pc # "done",
         Truthful(req'[r], applied[r])
  PROVE  Step(r)
  BY DEF Step, Kept

LEMMA Refused ==
  ASSUME IInv, NEW r \in Requests, applied' = applied, req[r].pc \in {"resolve", "render"},
         NEW e \in SearchErrors \cup {"NotFound", "Unresolvable", "BadBody", "Db"}, Fail(r, e),
         StatusOf(e) < 500 => applied[r] = 0
  PROVE  Step(r)
<1>1. Shape /\ Truthful(req[r], applied[r])
  BY DEF IInv
<1>2. Kept(r) /\ req'[r].pc = "fall" /\ req'[r].status = StatusOf(e) /\ StatusOf(e) \in 400..599
  BY <1>1, Failed
<1>3. Truthful(req'[r], applied[r])
  BY <1>1, <1>2 DEF Truthful, Pcs
<1> QED  BY <1>2, <1>3, Silently

LEMMA ReceiveStep ==
  ASSUME IInv, NEW r \in Requests, NEW op, NEW body, NEW ids, Receive(r, op, body, ids)
  PROVE  Step(r)
<1>1. Shape /\ applied[r] = 0 /\ req[r].pc = "new" /\ applied' = applied
  BY DEF IInv, Shape, Truthful, Receive, At
<1> DEFINE begun(pc, status) ==
      req' = [req EXCEPT ![r] =
          [Blank EXCEPT !.pc = pc, !.op = op, !.body = body, !.ids = ids, !.status = status,
                        !.out = IF pc = "forward" THEN ids ELSE <<>>]]
<1>2. \/ begun("done", 413)
      \/ \E s \in {404, 401, 500, 502} : begun("fall", s)
      \/ \E pc \in {"resolve", "forward"} : begun(pc, 0)
  BY DEF Receive, Turned
<1>3. PICK pc \in {"done", "fall", "resolve", "forward"}, s \in {413, 404, 401, 500, 502, 0} :
          begun(pc, s) /\ (pc \in {"done", "fall"} => s # 0)
  BY <1>2
<1>4. DOMAIN req' = Requests /\ \A q \in Requests \ {r} : req'[q] = req[q]
  BY <1>1, <1>3 DEF Shape
<1>5. DOMAIN req'[r] = Fields /\ req'[r].pc = pc /\ req'[r].status = s
  BY <1>1, <1>3 DEF Shape, Blank, Fields
<1> QED  BY <1>1, <1>3, <1>4, <1>5 DEF Step, Truthful, Pcs

LEMMA ResolveStep ==
  ASSUME IInv, NEW r \in Requests, Resolve(r) \/ NothingToResolve(r)
  PROVE  Step(r)
<1>1. Shape /\ applied[r] = 0 /\ req[r].pc = "resolve" /\ applied' = applied
      /\ req[r].status \in Nat
  BY DEF IInv, Shape, Truthful, Resolve, NothingToResolve, At
<1>2. \/ \E id : Resolved(r, id)
      \/ \E e \in SearchErrors \cup {"NotFound", "Unresolvable", "Db"} : Fail(r, e)
      \/ Goto(r, "forward")
  BY DEF Resolve, NothingToResolve, Missed, SearchErrors
<1>3. CASE \E id : Resolved(r, id)
  <2>1. Kept(r) /\ req'[r].pc \in {"resolve", "forward"} /\ req'[r].status = req[r].status
    BY <1>1, <1>3 DEF Resolved, Kept, Shape, Fields
  <2> QED  BY <1>1, <2>1 DEF Step, Kept, Truthful, Pcs
<1>4. CASE \E e \in SearchErrors \cup {"NotFound", "Unresolvable", "Db"} : Fail(r, e)
  BY <1>1, <1>4, Refused
<1>5. CASE Goto(r, "forward")
  <2>1. Kept(r) /\ req'[r].pc = "forward" /\ req'[r].status = req[r].status
    BY <1>1, <1>5, Went
  <2> QED  BY <1>1, <2>1 DEF Step, Kept, Truthful, Pcs
<1> QED  BY <1>2, <1>3, <1>4, <1>5

LEMMA RenderStep ==
  ASSUME IInv, NEW r \in Requests, Render(r)
  PROVE  Step(r)
<1>1. Shape /\ applied[r] = 1 /\ req[r].pc = "render" /\ applied' = applied
  BY DEF IInv, Shape, Truthful, Render, At
<1>2. CASE Fail(r, "BadBody") \/ Fail(r, "Db")
  <2>1. StatusOf("BadBody") = 502 /\ StatusOf("Db") = 500
    BY DEF StatusOf
  <2> QED  BY <1>1, <1>2, <2>1, Refused
<1>3. CASE \E a : Reply(r, 200, "none", a)
  <2>1. Kept(r) /\ req'[r].pc = "fall" /\ req'[r].status = 200
    BY <1>1, <1>3, Replied
  <2> QED  BY <1>1, <2>1 DEF Step, Kept, Truthful, Pcs
<1> QED  BY <1>2, <1>3 DEF Render

LEMMA FallStep ==
  ASSUME IInv, NEW r \in Requests, Fall(r)
  PROVE  Step(r)
<1>1. Shape /\ req[r].pc = "fall" /\ applied' = applied /\ Truthful(req[r], applied[r])
  BY DEF IInv, Fall, At
<1>2. CASE Goto(r, "proxy") /\ req[r].status \in Unhandled
  <2>1. Kept(r) /\ req'[r].pc = "proxy" /\ req'[r].status = req[r].status
    BY <1>1, <1>2, Went
  <2>2. Truthful(req'[r], applied[r])
    BY <1>1, <1>2, <2>1 DEF Truthful, Pcs, Unhandled
  <2> QED  BY <1>1, <2>1, <2>2, Silently
<1>3. CASE Goto(r, "done")
  <2>1. Kept(r) /\ req'[r].pc = "done" /\ req'[r].status = req[r].status
    BY <1>1, <1>3, Went
  <2>2. Truthful(req'[r], applied[r])
    BY <1>1, <2>1 DEF Truthful, Pcs
  <2> QED  BY <1>1, <2>1, <2>2, Silently
<1> QED  BY <1>2, <1>3 DEF Fall

LEMMA ProxyStep ==
  ASSUME IInv, NEW r \in Requests, Proxy(r)
  PROVE  Step(r)
<1>1. Shape /\ applied[r] = 0 /\ req[r].pc = "proxy" /\ applied \in [Requests -> Nat]
  BY DEF IInv, Shape, Truthful, Proxy, At
<1> DEFINE then(s) == req' = [req EXCEPT ![r].pc = "passing", ![r].status = IF s = 0 THEN 502 ELSE s,
                                         ![r].answer = IF s = 200 THEN req[r].ids ELSE <<>>]
<1>2. \E s \in Statuses :
          /\ then(s)
          /\ \/ applied' = [applied EXCEPT ![r] = @ + 1] /\ s \in {0, 200}
             \/ applied' = applied /\ s # 200
  <2>1. PICK s \in Statuses : Mastodon(r, "fallback", req[r].ids, s) /\ then(s)
    BY DEF Proxy
  <2>2. \/ applied' = [applied EXCEPT ![r] = @ + 1] /\ s \in {0, 200}
        \/ applied' = applied /\ s # 200
    BY <2>1 DEF Mastodon
  <2> QED  BY <2>1, <2>2
<1>3. PICK s \in Statuses :
          /\ then(s)
          /\ \/ applied' = [applied EXCEPT ![r] = @ + 1] /\ s \in {0, 200}
             \/ applied' = applied /\ s # 200
  BY <1>2
<1>4. Kept(r) /\ req'[r].pc = "passing" /\ req'[r].status = IF s = 0 THEN 502 ELSE s
  BY <1>1, <1>3 DEF Kept, Shape, Fields
<1> QED  BY <1>1, <1>3, <1>4 DEF Step, Kept, Truthful, Pcs, Statuses

LEMMA PassStep ==
  ASSUME IInv, NEW r \in Requests, Pass(r)
  PROVE  Step(r)
<1>1. Shape /\ req[r].pc = "passing" /\ applied' = applied /\ Truthful(req[r], applied[r])
  BY DEF IInv, Pass, At
<1>2. CASE Goto(r, "done")
  <2>1. Kept(r) /\ req'[r].pc = "done" /\ req'[r].status = req[r].status
    BY <1>1, <1>2, Went
  <2>2. Truthful(req'[r], applied[r])
    BY <1>1, <2>1 DEF Truthful, Pcs
  <2> QED  BY <1>1, <2>1, <2>2, Silently
<1>3. CASE req' = [req EXCEPT ![r].pc = "done", ![r].status = 502, ![r].answer = <<>>]
  <2>1. Kept(r) /\ req'[r].pc = "done" /\ req'[r].status = 502
    BY <1>1, <1>3 DEF Kept, Shape, Fields
  <2> QED  BY <1>1, <2>1 DEF Step, Kept, Truthful, Pcs
<1> QED  BY <1>2, <1>3 DEF Pass

LEMMA CancelStep ==
  ASSUME IInv, NEW r \in Requests, Cancel(r)
  PROVE  Step(r)
<1>1. Shape /\ req[r].pc # "done" /\ applied' = applied /\ Truthful(req[r], applied[r])
  BY DEF IInv, Cancel
<1>2. Kept(r) /\ req'[r].pc = "gone" /\ req'[r].status = req[r].status
  BY <1>1, Went DEF Cancel
<1>3. Truthful(req'[r], applied[r])
  BY <1>1, <1>2 DEF Truthful, Pcs
<1> QED  BY <1>1, <1>2, <1>3, Silently

LEMMA StepKeepsIInv ==
  ASSUME IInv, NEW r \in Requests, Step(r)
  PROVE  IInv'
<1>1. Shape'
  BY DEF IInv, Shape, Step
<1>2. ASSUME NEW q \in Requests PROVE Truthful(req'[q], applied'[q])
  <2>1. CASE q = r
    BY <2>1 DEF Step
  <2>2. CASE q # r
    <3>1. req'[q] = req[q] /\ applied'[q] = applied[q]
      BY <2>2 DEF IInv, Shape, Step
    <3> QED  BY <3>1 DEF IInv
  <2> QED  BY <2>1, <2>2
<1> QED  BY <1>1, <1>2 DEF IInv

LEMMA Steps ==
  ASSUME IInv, [Next]_vars
  PROVE  UNCHANGED <<req, applied>> \/ \E r \in Requests : Step(r)
<1>1. CASE \E r \in Requests : (\E op \in Ops, body \in Bodies, ids \in NamedIds :
                                   Receive(r, op, body, ids)) \/ Handle(r) \/ Cancel(r)
  BY <1>1, ReceiveStep, ResolveStep, ForwardStep, RenderStep, FallStep, ProxyStep, PassStep,
     CancelStep DEF Handle
<1>2. CASE \E s \in Snowflakes : RowChanges(s)
  BY <1>2 DEF RowChanges
<1>3. CASE \E o \in Origins : CopyChanges(o)
  BY <1>3 DEF CopyChanges
<1>4. CASE UNCHANGED vars
  BY <1>4 DEF vars
<1> QED  BY <1>1, <1>2, <1>3, <1>4 DEF Next

LEMMA NextIInv == IInv /\ [Next]_vars => IInv'
<1> SUFFICES ASSUME IInv, [Next]_vars PROVE IInv'
  OBVIOUS
<1>1. CASE UNCHANGED <<req, applied>>
  BY <1>1 DEF IInv, Shape, Truthful
<1>2. CASE \E r \in Requests : Step(r)
  BY <1>2, StepKeepsIInv
<1> QED  BY <1>1, <1>2, Steps

----------------------------------------------------------------------------
Told == [r \in Requests |-> IF At(r, "done") THEN Verdict(req[r].status) ELSE "nothing"]

LEMMA VerdictGiven ==
  ASSUME NEW q, NEW n, Truthful(q, n), q.pc = "done"
  PROVE  /\ Verdict(q.status) \in {"done", "refused", "unsure"}
         /\ Verdict(q.status) = "done" => n = 1
         /\ Verdict(q.status) = "refused" => n = 0
  BY DEF Truthful, Verdict

\* A step of a request performs it, answers it or does neither.
LEMMA StepDelivers ==
  ASSUME IInv, NEW r \in Requests, Step(r)
  PROVE  [OnceAndTruthful!Next]_(OnceAndTruthful!vars)
<1>1. Truthful(req'[r], applied'[r]) /\ Shape
  BY DEF IInv, Step
<1>2. \A q \in Requests \ {r} : Told'[q] = Told[q]
  BY DEF Told, Step, At
<1>3. Told = [q \in Requests |-> Told[q]] /\ Told' = [q \in Requests |-> Told'[q]]
  BY DEF Told
<1>4. CASE req[r].pc = "done" \/ req'[r].pc # "done"
  <2>1. Told'[r] = Told[r]
    BY <1>4 DEF Told, Step, At
  <2>2. Told' = Told
    BY <2>1, <1>2, <1>3
  <2>3. CASE applied' = applied
    BY <2>2, <2>3 DEF OnceAndTruthful!vars, Told
  <2>4. CASE applied' # applied
    <3>1. applied[r] = 0 /\ applied' = [applied EXCEPT ![r] = 1] /\ Told[r] = "nothing"
      BY <2>4, <1>1 DEF Step, Shape, Told, At
    <3>2. OnceAndTruthful!Perform(r)
      BY <3>1, <2>2 DEF OnceAndTruthful!Perform, Told
    <3> QED  BY <3>2 DEF OnceAndTruthful!Next
  <2> QED  BY <2>3, <2>4
<1>5. CASE req[r].pc # "done" /\ req'[r].pc = "done"
  <2> DEFINE verdict == Verdict(req'[r].status)
  <2>1. applied' = applied /\ Told[r] = "nothing" /\ Told'[r] = verdict
    BY <1>5 DEF Step, Told, At
  <2>2. Told' = [Told EXCEPT ![r] = verdict]
    BY <2>1, <1>2, <1>3
  <2>3. /\ verdict \in {"done", "refused", "unsure"}
        /\ verdict = "done" => applied[r] = 1
        /\ verdict = "refused" => applied[r] = 0
    BY <2>1, <1>1, <1>5, VerdictGiven
  <2>4. OnceAndTruthful!Tell(r, verdict)
    BY <2>1, <2>2, <2>3 DEF OnceAndTruthful!Tell, Told
  <2> QED  BY <2>3, <2>4 DEF OnceAndTruthful!Next
<1> QED  BY <1>4, <1>5

LEMMA InitDelivers == Init => OnceAndTruthful!Init
  BY DEF Init, OnceAndTruthful!Init, At, Blank

(* Every behaviour of the routing is one of Delivery: whatever requests    *)
(* overlap, fail and are cancelled, and whatever rows and copies become, a *)
(* write that the middleware sends to Mastodon again is performed at most  *)
(* once and its client is told the truth.                                  *)
THEOREM WritesDelivered == Spec => DeliverySpec
<1>1. IInv /\ [Next]_vars => [OnceAndTruthful!Next]_(OnceAndTruthful!vars)
  <2> SUFFICES ASSUME IInv, [Next]_vars PROVE [OnceAndTruthful!Next]_(OnceAndTruthful!vars)
    OBVIOUS
  <2>1. CASE UNCHANGED <<req, applied>>
    BY <2>1 DEF OnceAndTruthful!vars, At
  <2>2. CASE \E r \in Requests : Step(r)
    BY <2>2, StepDelivers
  <2> QED  BY <2>1, <2>2, Steps
<1> QED
  BY <1>1, InitIInv, NextIInv, InitDelivers, PTL DEF Spec, DeliverySpec, OnceAndTruthful!Spec

----------------------------------------------------------------------------
Named == Snowflakes \cup {Native}
Given == Named \cup 1..Len(owner)       \* the ids that mean something so far
Messages == [via : {"handler", "fallback"}, ids : Seq(Named \cup Ids)]

\* An id, once given to a copy of a post, is of that post; rows hold such ids.
Rows ==
    /\ owner \in Seq(Origins) /\ Len(owner) <= MaxId
    /\ copy \in [Origins -> 0..Len(owner)]
    /\ \A o \in Origins : copy[o] # 0 => owner[copy[o]] = o
    /\ column \in [Snowflakes -> Ids \cup {Unmapped, NoRow}]
    /\ \A s \in Snowflakes : column[s] \in Ids =>
          column[s] <= Len(owner) /\ owner[column[s]] = OriginOf[s]

\* What a step may do to them: give out more ids, and never create a row.
Evolves ==
    /\ Len(owner) <= Len(owner')
    /\ \A i \in 1..Len(owner) : owner'[i] = owner[i]
    /\ \A s \in Snowflakes : column[s] = NoRow => column'[s] = NoRow

\* The id may be sent in the place of the one that was named.
Faithful(id, named) ==
    /\ id \in Given /\ Denotes(id) = Denotes(named)
    /\ id \in Snowflakes \ Uriless => column[id] = NoRow

\* The ids of the request are translated before they are sent.
Worded(r) == req[r].op \in Engagements \/ req[r].body = "json"

Outgoing(r) ==
    /\ req[r].ids \in Seq(Named) /\ req[r].out \in Seq(Named \cup Ids)
    /\ Len(req[r].out) <= Len(req[r].ids)
    /\ req[r].pc \in {"forward", "render"} => Len(req[r].out) = Len(req[r].ids)
    /\ \A i \in DOMAIN req[r].out : req[r].out[i] \in Given
    /\ Worded(r) => \A i \in DOMAIN req[r].out : Faithful(req[r].out[i], req[r].ids[i])
    /\ At(r, "resolve") => Worded(r) /\ (req[r].ids = <<>> \/ Len(req[r].out) < Len(req[r].ids))

Messaged(r) ==
    /\ sent[r] \in Seq(Messages)
    /\ \A k \in DOMAIN sent[r] :
          /\ sent[r][k].via = "handler" => sent[r][k].ids = req[r].out
          /\ req[r].op \in Engagements => sent[r][k].via = "handler"
    /\ req[r].pc \in {"new", "resolve", "forward"} => sent[r] = <<>>
    /\ req[r].op \in Engagements => ~At(r, "proxy")
    /\ req[r].op \in Engagements /\ At(r, "fall") => req[r].final \/ req[r].status \notin Unhandled

\* The answer is about what Mastodon answered, when it was the handler's.
Truthfully(r) ==
    req[r].answer # <<>> /\ Len(sent[r]) = 1 /\ sent[r][1].via = "handler" =>
        \A i \in DOMAIN req[r].answer :
            /\ i \in DOMAIN Answered(r) /\ req[r].answer[i] \in Given \cup {Wrapper}
            /\ Denotes(req[r].answer[i]) = Denotes(Answered(r)[i])

Unanswered(r) == req[r].pc \in {"resolve", "forward", "render"} => req[r].answer = <<>>

Routed(r) == Outgoing(r) /\ Messaged(r) /\ Truthfully(r) /\ Unanswered(r)

Names == DOMAIN sent = Requests /\ Rows /\ \A r \in Requests : Routed(r)

USE RoutingAssumption DEF Named, Ids

----------------------------------------------------------------------------
\* The meaning of an id stays.
LEMMA DenotesKept ==
  ASSUME Rows, Evolves, NEW id \in Given \cup {Wrapper}
  PROVE  Denotes(id)' = Denotes(id)
<1>1. CASE id \in Snowflakes
  BY <1>1 DEF Denotes
<1>2. CASE id \in {Native, Wrapper}
  BY <1>2 DEF Denotes
<1>3. CASE id \in 1..Len(owner)
  BY <1>3 DEF Denotes, Rows, Evolves
<1> QED  BY <1>1, <1>2, <1>3 DEF Given

LEMMA GivenGrows ==
  ASSUME Rows, Rows', Evolves
  PROVE  Given \subseteq Given'
  BY DEF Rows, Evolves, Given

LEMMA FaithfulKept ==
  ASSUME Rows, Rows', Evolves, NEW id, NEW named \in Named, Faithful(id, named)
  PROVE  Faithful(id, named)'
<1>1. id \in Given /\ named \in Given
  BY DEF Faithful, Given
<1>2. Denotes(id)' = Denotes(id) /\ Denotes(named)' = Denotes(named)
  BY <1>1, DenotesKept
<1> QED  BY <1>1, <1>2, GivenGrows DEF Faithful, Evolves

LEMMA LowestOf ==
  ASSUME NEW S, S \subseteq Nat, S # {}
  PROVE  \E x \in S : \A y \in S : x <= y
<1>1. PICK x \in S : \A y \in S : ~ (<<y, x>> \in OpToRel(<, Nat))
  BY NatLessThanWellFounded, WFMin
<1>2. ASSUME NEW y \in S PROVE x <= y
  <2>1. x \in Nat /\ y \in Nat
    OBVIOUS
  <2>2. <<y, x>> \in Nat \X Nat /\ <<y, x>>[1] = y /\ <<y, x>>[2] = x
    BY <2>1
  <2>3. ~ (<<y, x>> \in {ss \in Nat \X Nat : ss[1] < ss[2]})
    BY <1>1 DEF OpToRel
  <2>4. ~ (<<y, x>>[1] < <<y, x>>[2])
    BY <2>2, <2>3, Zenon
  <2>5. ~ (y < x)
    BY <2>2, <2>4, Zenon
  <2> QED  BY <2>1, <2>5
<1> QED  BY <1>2

\* The lowest snowflake mapped to an id means what the id means.
LEMMA BackDenotes ==
  ASSUME Rows, NEW id \in Given \cup {Wrapper}
  PROVE  Back(id) \in Given \cup {Wrapper} /\ Denotes(Back(id)) = Denotes(id)
<1> DEFINE rows == {s \in Snowflakes : column[s] = id}
<1>1. CASE rows = {}
  BY <1>1 DEF Back
<1>2. CASE rows # {}
  <2> DEFINE lowest(s) == \A t \in rows : s <= t
  <2>1. PICK s \in rows : lowest(s)
    <3>1. rows \subseteq Nat
      OBVIOUS
    <3> QED  BY <3>1, <1>2, LowestOf
  <2>2. Back(id) = CHOOSE t \in rows : lowest(t)
    BY <1>2 DEF Back
  <2>3. Back(id) \in rows
    BY <2>1, <2>2
  <2>4. id \in Ids /\ id \in 1..Len(owner)
    BY <2>1 DEF Rows, Given
  <2>5. Denotes(id) = owner[id]
    BY <2>4 DEF Denotes
  <2>6. Back(id) \in Snowflakes /\ owner[id] = OriginOf[Back(id)]
    BY <2>3, <2>4 DEF Rows
  <2> QED  BY <2>5, <2>6 DEF Denotes, Given
<1> QED  BY <1>1, <1>2

----------------------------------------------------------------------------
LEMMA RowsUnchanged ==
  ASSUME Rows, UNCHANGED <<column, posts>>
  PROVE  Rows' /\ Evolves
  BY DEF Rows, Evolves, posts

LEMMA RowChangesKeeps ==
  ASSUME Rows, NEW s \in Snowflakes, RowChanges(s)
  PROVE  Rows' /\ Evolves
<1>1. owner' = owner /\ copy' = copy
  BY DEF RowChanges, posts
<1>2. PICK v \in Ids \cup {Unmapped, NoRow} :
          /\ column' = [column EXCEPT ![s] = v]
          /\ v \in Ids => v <= Len(owner) /\ owner[v] = OriginOf[s]
          /\ column[s] # NoRow
  <2>1. CASE column[s] = Unmapped /\ copy[OriginOf[s]] # 0
             /\ column' = [column EXCEPT ![s] = copy[OriginOf[s]]]
    <3>1. OriginOf[s] \in Origins
      BY DEF Origins
    <3>2. copy[OriginOf[s]] \in Ids /\ copy[OriginOf[s]] <= Len(owner)
      BY <2>1, <3>1 DEF Rows
    <3> QED  BY <2>1, <3>1, <3>2 DEF Rows
  <2>2. CASE column[s] \in Ids /\ column' = [column EXCEPT ![s] = Unmapped]
    BY <2>2
  <2>3. CASE column[s] # NoRow /\ column' = [column EXCEPT ![s] = NoRow]
    BY <2>3
  <2> QED  BY <2>1, <2>2, <2>3 DEF RowChanges
<1> QED  BY <1>1, <1>2 DEF Rows, Evolves

\* Mastodon gives the post o its next id.
LEMMA CopyGiven ==
  ASSUME Rows, NEW o \in Origins, copy[o] = 0, Len(owner) < MaxId,
         owner' = Append(owner, o), copy' = [copy EXCEPT ![o] = Len(owner')]
  PROVE  /\ owner' \in Seq(Origins) /\ Len(owner') = Len(owner) + 1 /\ Len(owner') <= MaxId
         /\ \A i \in 1..Len(owner) : owner'[i] = owner[i]
         /\ owner'[Len(owner')] = o
         /\ copy' \in [Origins -> 0..Len(owner')]
         /\ \A p \in Origins : copy'[p] # 0 => owner'[copy'[p]] = p
<1>1. /\ owner' \in Seq(Origins) /\ Len(owner') = Len(owner) + 1 /\ Len(owner') <= MaxId
      /\ \A i \in 1..Len(owner) : owner'[i] = owner[i]
      /\ owner'[Len(owner')] = o
  BY DEF Rows
<1>2. copy' \in [Origins -> 0..Len(owner')]
  BY <1>1 DEF Rows
<1>3. ASSUME NEW p \in Origins, copy'[p] # 0 PROVE owner'[copy'[p]] = p
  <2>1. CASE p = o
    BY <1>1, <2>1 DEF Rows
  <2>2. CASE p # o
    <3>1. copy'[p] = copy[p] /\ copy[p] \in 1..Len(owner) /\ owner[copy[p]] = p
      BY <1>3, <2>2 DEF Rows
    <3> QED  BY <3>1, <1>1
  <2> QED  BY <2>1, <2>2
<1> QED  BY <1>1, <1>2, <1>3

LEMMA CopyChangesKeeps ==
  ASSUME Rows, NEW o \in Origins, CopyChanges(o)
  PROVE  Rows' /\ Evolves
<1>1. column' = column
  BY DEF CopyChanges
<1>2. CASE copy' = [copy EXCEPT ![o] = 0] /\ owner' = owner
  BY <1>1, <1>2 DEF Rows, Evolves
<1>3. CASE copy[o] = 0 /\ Len(owner) < MaxId /\ owner' = Append(owner, o)
           /\ copy' = [copy EXCEPT ![o] = Len(owner')]
  <2>1. \A s \in Snowflakes : column[s] \in Ids =>
            column[s] <= Len(owner') /\ owner'[column[s]] = OriginOf[s]
    BY <1>3, CopyGiven DEF Rows
  <2>2. Rows'
    BY <1>1, <1>3, <2>1, CopyGiven DEF Rows
  <2> QED  BY <1>1, <1>3, <2>2, CopyGiven DEF Rows, Evolves
<1> QED  BY <1>2, <1>3 DEF CopyChanges

\* The next id of a request is translated into one that may be sent for it.
LEMMA ResolveKeeps ==
  ASSUME Rows, NEW r \in Requests, req[r].ids \in Seq(Named),
         Len(req[r].out) \in 0..(Len(req[r].ids) - 1), Resolve(r), NEW n, n = NextId(r)
  PROVE  /\ Rows' /\ Evolves
         /\ \/ \E id \in Named \cup Ids : Resolved(r, id) /\ Faithful(id, n)'
            \/ \E e \in SearchErrors \cup {"NotFound", "Unresolvable", "Db"} : Fail(r, e)
<1> DEFINE in(values) == n \in Snowflakes /\ column[n] \in values
<1>1. n \in Named
  BY DEF NextId
\* The id has no row, or a row without a URI.
<1>2. CASE (~in(Ids \cup {Unmapped}) \/ n \in Uriless) /\ Resolved(r, n)
           /\ UNCHANGED <<column, posts>>
  <2>1. Rows' /\ Evolves
    BY <1>2, RowsUnchanged
  <2>2. Faithful(n, n)
    BY <1>1, <1>2 DEF Faithful, Given, Rows
  <2>3. Faithful(n, n)'
    BY <2>1, <2>2, <1>1, FaithfulKept
  <2> QED  BY <1>1, <1>2, <2>1, <2>3
<1>3. CASE in(Ids) /\ Resolved(r, column[n]) /\ UNCHANGED <<column, posts>>
  <2>1. Rows' /\ Evolves
    BY <1>3, RowsUnchanged
  <2>2. PICK v \in Ids : v = column[n] /\ v <= Len(owner) /\ owner[v] = OriginOf[n]
    BY <1>3 DEF Rows
  <2>3. v \in Given /\ v \notin Snowflakes
    BY <2>2 DEF Given
  <2>4. Denotes(v) = OriginOf[n] /\ Denotes(n) = OriginOf[n]
    BY <1>3, <2>2, <2>3 DEF Denotes
  <2>5. Faithful(v, n)'
    BY <2>1, <2>3, <2>4, <1>1, FaithfulKept DEF Faithful
  <2> QED  BY <1>3, <2>1, <2>2, <2>5
<1>4. CASE \E e \in SearchErrors \cup {"NotFound", "Unresolvable", "Db"} :
               Fail(r, e) /\ UNCHANGED <<column, posts>>
  <2>1. Rows' /\ Evolves
    BY <1>4, RowsUnchanged
  <2> QED  BY <1>4, <2>1
\* The row is given an id of the post's copy.
<1>5. ASSUME in({Unmapped}), NEW v \in Ids, v <= Len(owner'), owner'[v] = OriginOf[n],
             column' = [column EXCEPT ![n] = v], owner' \in Seq(Origins),
             Len(owner) <= Len(owner'), Len(owner') <= MaxId, copy' \in [Origins -> 0..Len(owner')],
             \A i \in 1..Len(owner) : owner'[i] = owner[i],
             \A o \in Origins : copy'[o] # 0 => owner'[copy'[o]] = o
      PROVE  Rows' /\ Evolves /\ Faithful(v, n)'
  <2>1. column' \in [Snowflakes -> Ids \cup {Unmapped, NoRow}]
    BY <1>5 DEF Rows
  <2>2. ASSUME NEW s \in Snowflakes, column'[s] \in Ids
        PROVE  column'[s] <= Len(owner') /\ owner'[column'[s]] = OriginOf[s]
    <3>1. CASE s = n
      <4>1. column'[s] = v
        BY <1>5, <3>1 DEF Rows
      <4> QED  BY <1>5, <3>1, <4>1
    <3>2. CASE s # n
      <4>1. column'[s] = column[s]
        BY <1>5, <3>2 DEF Rows
      <4>2. column[s] \in 1..Len(owner) /\ owner[column[s]] = OriginOf[s]
        BY <2>2, <4>1 DEF Rows
      <4>3. owner'[column[s]] = owner[column[s]]
        BY <1>5, <4>2
      <4>4. Len(owner) \in Nat /\ Len(owner') \in Nat
        <5>1. owner \in Seq(Origins) /\ owner' \in Seq(Origins)
          BY <1>5 DEF Rows
        <5> QED  BY <5>1
      <4>5. column[s] <= Len(owner')
        BY <1>5, <4>2, <4>4
      <4> QED  BY <4>1, <4>2, <4>3, <4>5
    <3> QED  BY <3>1, <3>2
  <2>3. \A s \in Snowflakes : column[s] = NoRow => column'[s] = NoRow
    BY <1>5 DEF Rows
  <2>4. Denotes(v)' = owner'[v] /\ Denotes(n)' = OriginOf[n]
    BY <1>5 DEF Denotes
  <2>5. Given' = Named \cup 1..Len(owner')
    BY DEF Given
  <2>6. v \in Given' /\ v \notin Snowflakes
    BY <1>5, <2>5
  <2> QED  BY <1>5, <2>1, <2>2, <2>3, <2>4, <2>6 DEF Rows, Evolves, Faithful
<1>6. CASE in({Unmapped}) /\ copy[OriginOf[n]] # 0 /\ UNCHANGED posts
           /\ column' = [column EXCEPT ![n] = copy[OriginOf[n]]] /\ Resolved(r, column'[n])
  <2>1. OriginOf[n] \in Origins /\ owner' = owner /\ copy' = copy
    BY <1>6 DEF Origins, posts
  <2>2. PICK v \in Ids : v = copy[OriginOf[n]] /\ v <= Len(owner) /\ owner[v] = OriginOf[n]
    <3>1. copy[OriginOf[n]] \in 1..Len(owner) /\ owner[copy[OriginOf[n]]] = OriginOf[n]
      BY <1>6, <2>1 DEF Rows
    <3>2. copy[OriginOf[n]] \in Ids
      BY <3>1 DEF Rows
    <3> QED  BY <3>1, <3>2
  <2>3. column' = [column EXCEPT ![n] = v] /\ column'[n] = v
    BY <1>6, <2>2 DEF Rows
  <2>4. Rows' /\ Evolves /\ Faithful(v, n)'
    <3>1. /\ v <= Len(owner') /\ owner'[v] = OriginOf[n] /\ Len(owner) <= Len(owner')
          /\ Len(owner') <= MaxId /\ owner' \in Seq(Origins)
          /\ copy' \in [Origins -> 0..Len(owner')]
          /\ \A i \in 1..Len(owner) : owner'[i] = owner[i]
          /\ \A o \in Origins : copy'[o] # 0 => owner'[copy'[o]] = o
      BY <2>1, <2>2 DEF Rows
    <3> QED  BY <1>5, <1>6, <2>3, <3>1
  <2> QED  BY <1>6, <2>3, <2>4
<1>7. CASE in({Unmapped}) /\ copy[OriginOf[n]] = 0 /\ Len(owner) < MaxId
           /\ owner' = Append(owner, OriginOf[n])
           /\ copy' = [copy EXCEPT ![OriginOf[n]] = Len(owner')]
           /\ column' = [column EXCEPT ![n] = Len(owner')] /\ Resolved(r, Len(owner'))
  <2>1. OriginOf[n] \in Origins
    BY <1>7 DEF Origins
  <2>2. /\ owner' \in Seq(Origins) /\ Len(owner') = Len(owner) + 1 /\ Len(owner') <= MaxId
        /\ \A i \in 1..Len(owner) : owner'[i] = owner[i]
        /\ owner'[Len(owner')] = OriginOf[n]
        /\ copy' \in [Origins -> 0..Len(owner')]
        /\ \A p \in Origins : copy'[p] # 0 => owner'[copy'[p]] = p
    BY <1>7, <2>1, CopyGiven
  <2>3. PICK v \in Ids : v = Len(owner')
    BY <2>2 DEF Rows
  <2>4. Len(owner) <= Len(owner')
    BY <2>2 DEF Rows
  <2>5. Rows' /\ Evolves /\ Faithful(v, n)'
    <3>1. v <= Len(owner') /\ owner'[v] = OriginOf[n]
      BY <2>2, <2>3
    <3>2. in({Unmapped}) /\ column' = [column EXCEPT ![n] = v]
      BY <1>7, <2>3
    <3> QED  BY <1>5, <2>2, <2>4, <3>1, <3>2
  <2> QED  BY <1>7, <2>3, <2>5
<1> QED
  <2> DEFINE done == Rows' /\ Evolves
                     /\ (\/ \E id \in Named \cup Ids : Resolved(r, id) /\ Faithful(id, n)'
                         \/ \E e \in SearchErrors \cup {"NotFound", "Unresolvable", "Db"} : Fail(r, e))
  <2>1. Missed(r, "NotFound") => Resolved(r, n)
    BY DEF Missed, LeftAlone
  <2>2. Missed(r, "Unresolvable") => Fail(r, "Unresolvable")
    BY DEF Missed, LeftAlone
  <2>3. CASE (~in(Ids \cup {Unmapped}) \/ n \in Uriless) /\ Missed(r, "NotFound")
             /\ UNCHANGED <<column, posts>>
    BY <1>2, <2>1, <2>3
  <2>4. CASE UNCHANGED <<column, posts>> /\ Missed(r, "Unresolvable")
    BY <1>4, <2>2, <2>4
  <2>5. CASE UNCHANGED <<column, posts>>
             /\ \E e \in SearchErrors \cup {"Unreachable", "Db"} : Fail(r, e)
    BY <1>4, <2>5 DEF SearchErrors
  <2>6. \/ /\ ~in(Ids \cup {Unmapped}) \/ n \in Uriless
           /\ Missed(r, "NotFound") /\ UNCHANGED <<column, posts>>
        \/ UNCHANGED <<column, posts>> /\ Missed(r, "Unresolvable")
        \/ /\ UNCHANGED <<column, posts>>
           /\ \E e \in SearchErrors \cup {"Unreachable", "Db"} : Fail(r, e)
        \/ in(Ids) /\ Resolved(r, column[n]) /\ UNCHANGED <<column, posts>>
        \/ /\ in({Unmapped}) /\ copy[OriginOf[n]] # 0 /\ UNCHANGED posts
           /\ column' = [column EXCEPT ![n] = copy[OriginOf[n]]] /\ Resolved(r, column'[n])
        \/ /\ in({Unmapped}) /\ copy[OriginOf[n]] = 0 /\ Len(owner) < MaxId
           /\ owner' = Append(owner, OriginOf[n])
           /\ copy' = [copy EXCEPT ![OriginOf[n]] = Len(owner')]
           /\ column' = [column EXCEPT ![n] = Len(owner')] /\ Resolved(r, Len(owner'))
    BY DEF Resolve
  <2> QED  BY <1>3, <1>6, <1>7, <2>3, <2>4, <2>5, <2>6

----------------------------------------------------------------------------
\* What the steps of a request leave to show: the request itself.
Same(r) ==
    /\ req'[r].op = req[r].op /\ req'[r].ids = req[r].ids /\ req'[r].body = req[r].body
    /\ req'[r].out = req[r].out

LEMMA OutgoingKept ==
  ASSUME Rows, Rows', Evolves, NEW r \in Requests, Outgoing(r), Same(r),
         req'[r].pc = "resolve" => req[r].pc = "resolve",
         req'[r].pc \in {"forward", "render"} => Len(req[r].out) = Len(req[r].ids)
  PROVE  Outgoing(r)'
<1>1. PICK out, ids : out = req[r].out /\ ids = req[r].ids
  OBVIOUS
<1>2. req'[r].out = out /\ req'[r].ids = ids /\ (Worded(r)' <=> Worded(r))
  BY <1>1 DEF Worded, Same
<1>3. /\ ids \in Seq(Named) /\ out \in Seq(Named \cup Ids) /\ Len(out) <= Len(ids)
      /\ \A i \in DOMAIN out : out[i] \in Given
      /\ Worded(r) => \A i \in DOMAIN out : Faithful(out[i], ids[i])
  BY <1>1 DEF Outgoing
<1>4. ASSUME NEW i \in DOMAIN out PROVE out[i] \in Given'
  BY <1>3, GivenGrows
<1>5. ASSUME NEW i \in DOMAIN out, Worded(r) PROVE Faithful(out[i], ids[i])'
  <2>1. ids[i] \in Named /\ Faithful(out[i], ids[i])
    BY <1>3, <1>5
  <2> QED  BY <2>1, FaithfulKept
<1>6. req'[r].pc \in {"forward", "render"} => Len(out) = Len(ids)
  BY <1>1
<1>7. At(r, "resolve")' => Worded(r) /\ (ids = <<>> \/ Len(out) < Len(ids))
  BY <1>1 DEF Outgoing, At
<1> QED  BY <1>2, <1>3, <1>4, <1>5, <1>6, <1>7 DEF Outgoing

LEMMA AnsweredGiven ==
  ASSUME NEW r \in Requests, Outgoing(r)
  PROVE  Answered(r) \in Seq(Given \cup {Wrapper})
<1>1. req[r].out \in Seq(Given \cup {Wrapper})
  <2>1. req[r].out \in Seq(Named \cup Ids) /\ \A i \in DOMAIN req[r].out : req[r].out[i] \in Given
    BY DEF Outgoing
  <2> QED  BY <2>1
<1>2. <<Wrapper>> \in Seq(Given \cup {Wrapper})
  OBVIOUS
<1>3. <<Wrapper>> \o req[r].out \in Seq(Given \cup {Wrapper})
  BY <1>1, <1>2, ConcatProperties
<1> QED  BY <1>1, <1>3 DEF Answered

LEMMA TruthfullyKept ==
  ASSUME Rows, Rows', Evolves, NEW r \in Requests, Outgoing(r), Truthfully(r), Same(r),
         req'[r].answer = req[r].answer, sent'[r] = sent[r]
  PROVE  Truthfully(r)'
<1>1. PICK answer, all : answer = req[r].answer /\ all = Answered(r)
  OBVIOUS
<1>2. req'[r].answer = answer /\ Answered(r)' = all /\ all \in Seq(Given \cup {Wrapper})
  BY <1>1, AnsweredGiven DEF Answered, Same
<1>3. SUFFICES ASSUME answer # <<>>, Len(sent[r]) = 1, sent[r][1].via = "handler",
                      NEW i \in DOMAIN answer
               PROVE  /\ i \in DOMAIN all /\ answer[i] \in (Given \cup {Wrapper})'
                      /\ Denotes(answer[i])' = Denotes(all[i])'
  BY <1>2 DEF Truthfully
<1>4. i \in DOMAIN all /\ answer[i] \in Given \cup {Wrapper} /\ Denotes(answer[i]) = Denotes(all[i])
  BY <1>1, <1>3 DEF Truthfully
<1>5. all[i] \in Given \cup {Wrapper}
  BY <1>2, <1>4
<1>6. Denotes(answer[i])' = Denotes(answer[i]) /\ Denotes(all[i])' = Denotes(all[i])
  BY <1>4, <1>5, DenotesKept
<1> QED  BY <1>4, <1>6, GivenGrows

\* A step leaves a request that it does not write to as it is.
LEMMA OthersKept ==
  ASSUME Rows, Rows', Evolves, NEW q \in Requests, Routed(q), req'[q] = req[q], sent'[q] = sent[q]
  PROVE  Routed(q)'
<1>1. Same(q)
  BY DEF Same
<1>2. Outgoing(q)' /\ Truthfully(q)'
  <2>1. req'[q].pc \in {"forward", "render"} => Len(req[q].out) = Len(req[q].ids)
    BY DEF Routed, Outgoing
  <2> QED  BY <1>1, <2>1, OutgoingKept, TruthfullyKept DEF Routed
<1>3. Messaged(q)' /\ Unanswered(q)'
  BY DEF Routed, Messaged, Unanswered, At
<1> QED  BY <1>2, <1>3 DEF Routed

\* What a step of a request does to it and to the others.
Moved(r) ==
    /\ DOMAIN sent' = Requests
    /\ \A q \in Requests \ {r} : req'[q] = req[q] /\ sent'[q] = sent[q]
    /\ Routed(r)'

\* A step of a request after which Mastodon was sent what it was sent before.
LEMMA Quietly ==
  ASSUME Names, Rows', Evolves, NEW r \in Requests, Kept(r), req'[r].out = req[r].out, sent' = sent,
         req'[r].answer \in {req[r].answer, <<>>}, req'[r].pc \notin {"new", "resolve", "render"},
         req'[r].pc = "forward" => req[r].pc = "resolve" /\ Len(req[r].out) = Len(req[r].ids),
         req'[r].pc = "proxy" => req[r].op \notin Engagements,
         req'[r].pc = "fall" => req'[r].final = Marked(req[r].op)
  PROVE  Moved(r)
<1>1. Same(r) /\ Rows /\ Routed(r)
  BY DEF Same, Kept, Names
<1>2. Outgoing(r)'
  BY <1>1, OutgoingKept DEF Routed
<1>3. Messaged(r)'
  BY <1>1 DEF Routed, Messaged, Marked, Same, At
<1>4. Truthfully(r)'
  <2>1. CASE req'[r].answer = req[r].answer
    BY <1>1, <2>1, TruthfullyKept DEF Routed
  <2>2. CASE req'[r].answer = <<>>
    BY <2>2 DEF Truthfully
  <2> QED  BY <2>1, <2>2
<1>5. Unanswered(r)'
  BY <1>1 DEF Routed, Unanswered
<1> QED  BY <1>2, <1>3, <1>4, <1>5 DEF Moved, Names, Kept, Routed

\* The handler answers with an error.
LEMMA Failing ==
  ASSUME Names, Shape, Rows', Evolves, NEW r \in Requests, sent' = sent,
         NEW e \in SearchErrors \cup {"NotFound", "Unresolvable", "BadBody", "Db"}, Fail(r, e)
  PROVE  Moved(r)
<1>1. /\ Kept(r) /\ req'[r].out = req[r].out /\ req'[r].pc = "fall" /\ req'[r].answer = <<>>
      /\ req'[r].final = Marked(req[r].op)
  BY Replied DEF Fail
<1> QED  BY <1>1, Quietly

LEMMA SilentMoves ==
  ASSUME Names, Shape, NEW r \in Requests,
         NothingToResolve(r) \/ Fall(r) \/ Pass(r) \/ Cancel(r)
  PROVE  Rows' /\ Evolves /\ Moved(r)
<1>1. Rows' /\ Evolves /\ sent' = sent /\ Routed(r)
  BY RowsUnchanged DEF Names, NothingToResolve, Fall, Pass, Cancel
<1>2. CASE NothingToResolve(r)
  <2>1. Kept(r) /\ req'[r].out = req[r].out /\ req'[r].pc = "forward"
        /\ req'[r].answer = req[r].answer
    BY <1>2, Went DEF NothingToResolve
  <2>2. req[r].pc = "resolve" /\ req[r].ids = <<>>
    BY <1>2 DEF NothingToResolve, At
  <2>3. Len(req[r].out) = Len(req[r].ids)
    BY <1>1, <2>2 DEF Routed, Outgoing
  <2> QED  BY <1>1, <2>1, <2>2, <2>3, Quietly
<1>3. CASE Fall(r)
  <2>1. PICK pc \in {"proxy", "done"} :
            /\ Goto(r, pc) /\ req[r].pc = "fall"
            /\ pc = "proxy" => ~req[r].final /\ req[r].status \in Unhandled
    BY <1>3 DEF Fall, At
  <2>2. Kept(r) /\ req'[r].out = req[r].out /\ req'[r].pc = pc /\ req'[r].answer = req[r].answer
    BY <2>1, Went
  <2>3. pc = "proxy" => req[r].op \notin Engagements
    BY <1>1, <2>1 DEF Routed, Messaged, At
  <2> QED  BY <1>1, <2>2, <2>3, Quietly
<1>4. CASE Pass(r)
  <2>1. Kept(r) /\ req'[r].out = req[r].out /\ req'[r].pc = "done"
        /\ req'[r].answer \in {req[r].answer, <<>>}
    <3>1. CASE Goto(r, "done")
      BY <3>1, Went
    <3>2. CASE req' = [req EXCEPT ![r].pc = "done", ![r].status = 502, ![r].answer = <<>>]
      BY <3>2 DEF Kept, Shape, Fields
    <3> QED  BY <1>4, <3>1, <3>2 DEF Pass
  <2> QED  BY <1>1, <2>1, Quietly
<1>5. CASE Cancel(r)
  <2>1. Kept(r) /\ req'[r].out = req[r].out /\ req'[r].pc = "gone"
        /\ req'[r].answer = req[r].answer
    BY <1>5, Went DEF Cancel
  <2> QED  BY <1>1, <2>1, Quietly
<1> QED  BY <1>1, <1>2, <1>3, <1>4, <1>5

\* Mastodon is sent a message for the request, and no answer is known yet.
LEMMA Sending ==
  ASSUME Names, Rows', Evolves, NEW r \in Requests, Kept(r), req'[r].out = req[r].out,
         NEW m \in Messages, sent' = [sent EXCEPT ![r] = Append(@, m)],
         m.via = "handler" => /\ m.ids = req[r].out /\ req'[r].answer = <<>>
                              /\ Len(req[r].out) = Len(req[r].ids),
         m.via = "fallback" => req[r].op \notin Engagements /\ req'[r].pc = "passing",
         req'[r].pc \in {"fall", "render", "passing"},
         req'[r].pc = "fall" => req'[r].final = Marked(req[r].op)
  PROVE  Moved(r)
<1>1. Same(r) /\ Rows /\ Routed(r) /\ DOMAIN sent = Requests
  BY DEF Same, Kept, Names
<1>2. PICK old : old = sent[r] /\ old \in Seq(Messages)
  BY <1>1 DEF Routed, Messaged
<1>3. /\ sent'[r] = Append(old, m) /\ DOMAIN sent' = Requests
      /\ \A q \in Requests \ {r} : sent'[q] = sent[q]
  BY <1>1, <1>2
<1>4. /\ sent'[r] \in Seq(Messages) /\ Len(sent'[r]) = Len(old) + 1
      /\ sent'[r][Len(old) + 1] = m /\ DOMAIN sent'[r] = 1..(Len(old) + 1)
      /\ \A k \in 1..Len(old) : sent'[r][k] = old[k]
  BY <1>2, <1>3, AppendProperties
<1>5. Outgoing(r)'
  <2>1. req'[r].pc = "render" => Len(req[r].out) = Len(req[r].ids)
    BY DEF Messages
  <2> QED  BY <1>1, <2>1, OutgoingKept DEF Routed
<1>6. Messaged(r)'
  <2>1. ASSUME NEW k \in DOMAIN sent'[r]
        PROVE  /\ sent'[r][k].via = "handler" => sent'[r][k].ids = req'[r].out
               /\ req'[r].op \in Engagements => sent'[r][k].via = "handler"
    <3>1. CASE k = Len(old) + 1
      BY <3>1, <1>1, <1>4 DEF Messages, Same
    <3>2. CASE k # Len(old) + 1
      <4>1. k \in 1..Len(old)
        BY <1>2, <1>4, <3>2
      <4>2. k \in DOMAIN sent[r] /\ sent'[r][k] = sent[r][k]
        BY <1>2, <1>4, <4>1
      <4> QED  BY <1>1, <4>2 DEF Routed, Messaged, Same
    <3> QED  BY <3>1, <3>2
  <2> QED  BY <1>1, <1>4, <2>1 DEF Messaged, Same, At, Marked
<1>7. Truthfully(r)'
  <2>1. CASE m.via = "handler"
    BY <2>1 DEF Truthfully
  <2>2. CASE m.via = "fallback"
    <3>1. Len(sent'[r]) = 1 => sent'[r][1] = m
      BY <1>2, <1>4
    <3> QED  BY <2>2, <3>1 DEF Truthfully
  <2> QED  BY <2>1, <2>2 DEF Messages
<1>8. Unanswered(r)'
  BY DEF Unanswered, Messages
<1> QED  BY <1>3, <1>5, <1>6, <1>7, <1>8 DEF Moved, Kept, Routed

LEMMA ForwardMoves ==
  ASSUME Names, Shape, NEW r \in Requests, Forward(r)
  PROVE  Rows' /\ Evolves /\ Moved(r)
<1>1. Rows' /\ Evolves
  BY RowsUnchanged DEF Names, Forward
<1>2. /\ req[r].pc = "forward" /\ req[r].out \in Seq(Named \cup Ids)
      /\ Len(req[r].out) = Len(req[r].ids) /\ req[r].answer = <<>>
  BY DEF Names, Routed, Outgoing, Unanswered, Forward, At
<1> DEFINE m == [via |-> "handler", ids |-> req[r].out]
           then(s) == CASE s = 0 -> Fail(r, "Unreachable")
                     [] s = 200 -> Goto(r, "render")
                     [] OTHER -> Reply(r, s, "none", <<>>)
<1>3. CASE Fail(r, "Unreachable") /\ sent' = sent
  BY <1>1, <1>3, Failing DEF SearchErrors
<1>4. CASE \E s \in Statuses : Mastodon(r, "handler", req[r].out, s) /\ then(s)
  <2>1. PICK s \in Statuses : Mastodon(r, "handler", req[r].out, s) /\ then(s)
    BY <1>4
  <2>2. sent' = [sent EXCEPT ![r] = Append(@, m)]
    BY <2>1 DEF Mastodon
  <2>3. m \in Messages /\ m.via = "handler" /\ m.ids = req[r].out
    BY <1>2 DEF Messages
  <2>4. /\ Kept(r) /\ req'[r].out = req[r].out /\ req'[r].answer = <<>>
        /\ req'[r].pc \in {"fall", "render"}
        /\ req'[r].pc = "fall" => req'[r].final = Marked(req[r].op)
    <3>1. CASE s = 0
      BY <2>1, <3>1, Replied DEF Fail
    <3>2. CASE s = 200
      <4>1. Goto(r, "render")
        BY <2>1, <3>2
      <4>2. Kept(r) /\ req'[r].out = req[r].out /\ req'[r].pc = "render"
            /\ req'[r].answer = req[r].answer
        BY <4>1, Went
      <4> QED  BY <1>2, <4>2
    <3>3. CASE s # 0 /\ s # 200
      BY <2>1, <3>3, Replied
    <3> QED  BY <3>1, <3>2, <3>3
  <2> HIDE DEF m
  <2> QED  BY <1>1, <1>2, <2>2, <2>3, <2>4, Sending
<1> QED  BY <1>1, <1>3, <1>4 DEF Forward

LEMMA ProxyMoves ==
  ASSUME Names, Shape, NEW r \in Requests, Proxy(r)
  PROVE  Rows' /\ Evolves /\ Moved(r)
<1>1. Rows' /\ Evolves
  BY RowsUnchanged DEF Names, Proxy
<1>2. req[r].ids \in Seq(Named \cup Ids) /\ req[r].op \notin Engagements
  BY DEF Names, Routed, Outgoing, Messaged, Proxy, At
<1> DEFINE m == [via |-> "fallback", ids |-> req[r].ids]
           then(s) == req' = [req EXCEPT ![r].pc = "passing", ![r].status = IF s = 0 THEN 502 ELSE s,
                                         ![r].answer = IF s = 200 THEN req[r].ids ELSE <<>>]
<1>3. PICK s \in Statuses : Mastodon(r, "fallback", req[r].ids, s) /\ then(s)
  BY DEF Proxy
<1>4. sent' = [sent EXCEPT ![r] = Append(@, m)]
  BY <1>3 DEF Mastodon
<1>5. m \in Messages /\ m.via = "fallback"
  BY <1>2 DEF Messages
<1>6. Kept(r) /\ req'[r].out = req[r].out /\ req'[r].pc = "passing"
  BY <1>3 DEF Kept, Shape, Fields
<1> HIDE DEF m
<1> QED  BY <1>1, <1>2, <1>4, <1>5, <1>6, Sending

\* The answer of the handler to a success of Mastodon.
LEMMA Pinned ==
  ASSUME Rows, NEW r \in Requests, Outgoing(r), req[r].pc = "render",
         NEW all, all = Answered(r), NEW ids, ids = [k \in DOMAIN all |-> Back(all[k])],
         NEW i \in DOMAIN Pin(r, ids)
  PROVE  /\ i \in DOMAIN all /\ Pin(r, ids)[i] \in Given \cup {Wrapper}
         /\ Denotes(Pin(r, ids)[i]) = Denotes(all[i])
<1>1. i \in DOMAIN all /\ DOMAIN ids = DOMAIN all
  BY DEF Pin
<1>2. ids[i] \in Given \cup {Wrapper} /\ Denotes(ids[i]) = Denotes(all[i])
  <2>1. all[i] \in Given \cup {Wrapper}
    BY <1>1, AnsweredGiven
  <2> QED  BY <1>1, <2>1, BackDenotes
<1>3. CASE Pin(r, ids)[i] = ids[i]
  BY <1>1, <1>2, <1>3
<1>4. CASE Pin(r, ids)[i] # ids[i]
  <2>1. /\ req[r].op \in Engagements /\ req[r].out # req[r].ids /\ ids[1] = req[r].out[1]
        /\ i = 1 /\ Pin(r, ids)[i] = req[r].ids[1]
    BY <1>1, <1>4 DEF Pin
  <2>2. /\ req[r].out \in Seq(Named \cup Ids) /\ req[r].ids \in Seq(Named)
        /\ Len(req[r].out) = Len(req[r].ids)
        /\ \A k \in DOMAIN req[r].out : Faithful(req[r].out[k], req[r].ids[k])
    BY <2>1 DEF Outgoing, Worded
  <2>3. Len(req[r].out) # 0
    BY <2>1, <2>2
  <2>4. 1 \in DOMAIN req[r].out /\ req[r].ids[1] \in Named
    BY <2>2, <2>3
  <2>5. Denotes(req[r].ids[1]) = Denotes(ids[1])
    BY <2>1, <2>2, <2>4 DEF Faithful
  <2> QED  BY <1>1, <1>2, <2>1, <2>4, <2>5 DEF Given
<1> QED  BY <1>3, <1>4

LEMMA RenderMoves ==
  ASSUME Names, Shape, NEW r \in Requests, Render(r)
  PROVE  Rows' /\ Evolves /\ Moved(r)
<1>1. Rows' /\ Evolves /\ Rows /\ sent' = sent /\ req[r].pc = "render" /\ Routed(r)
  BY RowsUnchanged DEF Names, Render, At
<1>2. CASE \E e \in {"BadBody", "Db"} : Fail(r, e)
  BY <1>1, <1>2, Failing
<1>3. ASSUME NEW all, all = Answered(r), NEW ids, ids = [k \in DOMAIN all |-> Back(all[k])],
             Reply(r, 200, "none", Pin(r, ids))
      PROVE  Moved(r)
  <2>1. /\ Kept(r) /\ req'[r].out = req[r].out /\ req'[r].pc = "fall"
        /\ req'[r].answer = Pin(r, ids) /\ req'[r].status = 200
        /\ req'[r].final = Marked(req[r].op)
    BY <1>3, Replied
  <2>2. Same(r)
    BY <2>1 DEF Same, Kept
  <2>3. Outgoing(r)'
    BY <1>1, <2>1, <2>2, OutgoingKept DEF Routed
  <2>4. Messaged(r)'
    <3>1. Messaged(r) /\ req[r].pc = "render" /\ sent'[r] = sent[r]
      BY <1>1 DEF Routed
    <3>2. req'[r].op = req[r].op /\ req'[r].out = req[r].out /\ req'[r].pc = "fall"
      BY <2>1, <2>2 DEF Same
    <3>3. req[r].op \in Engagements => req'[r].final
      BY <2>1 DEF Marked
    <3> QED  BY <3>1, <3>2, <3>3 DEF Messaged, At
  <2>5. Truthfully(r)'
    <3>1. PICK answer : answer = Pin(r, ids)
      OBVIOUS
    <3>2. req'[r].answer = answer /\ Answered(r)' = all
      BY <1>3, <2>1, <2>2, <3>1 DEF Answered, Same
    <3>3. ASSUME NEW i \in DOMAIN answer
          PROVE  /\ i \in DOMAIN all /\ answer[i] \in (Given \cup {Wrapper})'
                 /\ Denotes(answer[i])' = Denotes(all[i])'
      <4>1. /\ i \in DOMAIN all /\ answer[i] \in Given \cup {Wrapper}
            /\ Denotes(answer[i]) = Denotes(all[i])
        BY <1>1, <1>3, <3>1, <3>3, Pinned DEF Routed
      <4>2. all[i] \in Given \cup {Wrapper}
        BY <1>1, <1>3, <4>1, AnsweredGiven DEF Routed
      <4>3. Denotes(answer[i])' = Denotes(answer[i]) /\ Denotes(all[i])' = Denotes(all[i])
        BY <1>1, <4>1, <4>2, DenotesKept
      <4> QED  BY <1>1, <4>1, <4>3, GivenGrows
    <3> QED  BY <3>2, <3>3 DEF Truthfully
  <2>6. Unanswered(r)'
    BY <2>1 DEF Unanswered
  <2> QED  BY <1>1, <2>1, <2>3, <2>4, <2>5, <2>6 DEF Moved, Names, Kept, Routed
<1>4. CASE Reply(r, 200, "none", Pin(r, [k \in DOMAIN Answered(r) |-> Back(Answered(r)[k])]))
  <2>1. PICK all : all = Answered(r)
    OBVIOUS
  <2>2. PICK ids : ids = [k \in DOMAIN all |-> Back(all[k])]
    OBVIOUS
  <2>3. Reply(r, 200, "none", Pin(r, ids))
    BY <1>4, <2>1, <2>2
  <2>4. Moved(r)
    BY <1>3, <2>1, <2>2, <2>3
  <2> QED  BY <1>1, <2>4
<1> QED  BY <1>1, <1>2, <1>4 DEF Render

LEMMA ResolveMoves ==
  ASSUME Names, Shape, NEW r \in Requests, Resolve(r)
  PROVE  Rows' /\ Evolves /\ Moved(r)
<1>1. PICK out, ids : out = req[r].out /\ ids = req[r].ids
  OBVIOUS
<1>2. /\ req[r].pc = "resolve" /\ sent' = sent /\ Rows /\ Routed(r) /\ sent[r] = <<>>
      /\ req[r].answer = <<>> /\ Worded(r) /\ DOMAIN sent = Requests
  BY DEF Names, Routed, Outgoing, Messaged, Unanswered, Resolve, At
<1>3. /\ out \in Seq(Named \cup Ids) /\ ids \in Seq(Named) /\ Len(out) < Len(ids)
      /\ \A i \in DOMAIN out : out[i] \in Given /\ Faithful(out[i], ids[i])
  BY <1>1, <1>2 DEF Routed, Outgoing, Resolve, At
<1>4. PICK n : n = NextId(r) /\ n = ids[Len(out) + 1]
  BY <1>1 DEF NextId
<1>5. /\ Rows' /\ Evolves
      /\ \/ \E id \in Named \cup Ids : Resolved(r, id) /\ Faithful(id, n)'
         \/ \E e \in SearchErrors \cup {"NotFound", "Unresolvable", "Db"} : Fail(r, e)
  <2>1. Len(out) \in 0..(Len(ids) - 1)
    BY <1>3
  <2> QED  BY <1>1, <1>2, <1>3, <1>4, <2>1, ResolveKeeps
<1>6. CASE \E e \in SearchErrors \cup {"NotFound", "Unresolvable", "Db"} : Fail(r, e)
  BY <1>2, <1>5, <1>6, Failing
<1>7. ASSUME NEW id \in Named \cup Ids, Resolved(r, id), Faithful(id, n)'
      PROVE  Moved(r)
  <2>1. /\ Kept(r) /\ req'[r].out = Append(out, id) /\ req'[r].answer = <<>>
        /\ req'[r].pc \in {"resolve", "forward"}
        /\ req'[r].pc = "forward" <=> Len(out) + 1 = Len(ids)
    BY <1>1, <1>2, <1>7 DEF Resolved, Kept, Shape, Fields
  <2>2. req'[r].ids = ids /\ (Worded(r)' <=> Worded(r))
    BY <1>1, <2>1 DEF Kept, Worded
  <2>3. PICK new : new = Append(out, id)
    OBVIOUS
  <2>4. /\ new \in Seq(Named \cup Ids) /\ Len(new) = Len(out) + 1 /\ new[Len(out) + 1] = id
        /\ \A i \in 1..Len(out) : new[i] = out[i]
    BY <1>3, <1>7, <2>3, AppendProperties
  <2>5. ASSUME NEW i \in DOMAIN new
        PROVE  new[i] \in Given' /\ Faithful(new[i], ids[i])'
    <3>1. CASE i = Len(out) + 1
      BY <3>1, <1>4, <1>7, <2>4 DEF Faithful
    <3>2. CASE i # Len(out) + 1
      <4>1. i \in 1..Len(out) /\ i \in DOMAIN out
        BY <1>3, <2>4, <3>2
      <4>2. new[i] = out[i] /\ Faithful(out[i], ids[i]) /\ ids[i] \in Named
        BY <1>3, <2>4, <4>1
      <4>3. Faithful(out[i], ids[i])'
        BY <1>2, <1>5, <4>2, FaithfulKept
      <4> QED  BY <4>2, <4>3 DEF Faithful
    <3> QED  BY <3>1, <3>2
  <2>6. Outgoing(r)'
    <3>1. req'[r].pc = "forward" => Len(new) = Len(ids)
      BY <2>1, <2>4
    <3>2. req'[r].pc = "resolve" => Len(new) < Len(ids)
      BY <1>3, <2>1, <2>4
    <3>3. Len(new) <= Len(ids)
      BY <1>3, <2>4
    <3> QED  BY <1>2, <1>3, <2>1, <2>2, <2>3, <2>4, <2>5, <3>1, <3>2, <3>3 DEF Outgoing, At
  <2>7. Messaged(r)'
    BY <1>2, <2>1 DEF Messaged, At
  <2>8. Truthfully(r)' /\ Unanswered(r)'
    BY <2>1 DEF Truthfully, Unanswered
  <2> QED  BY <1>2, <2>1, <2>6, <2>7, <2>8 DEF Moved, Kept, Routed
<1> QED  BY <1>5, <1>6, <1>7

LEMMA ReceiveMoves ==
  ASSUME Names, Shape, NEW r \in Requests, NEW op \in Ops, NEW body \in Bodies, NEW ids \in NamedIds,
         Receive(r, op, body, ids)
  PROVE  Rows' /\ Evolves /\ Moved(r)
<1>1. /\ Rows' /\ Evolves /\ sent' = sent /\ sent[r] = <<>> /\ DOMAIN sent = Requests
  BY RowsUnchanged DEF Names, Routed, Messaged, Receive, At
<1> DEFINE begun(pc, status) ==
      req' = [req EXCEPT ![r] =
          [Blank EXCEPT !.pc = pc, !.op = op, !.body = body, !.ids = ids, !.status = status,
                        !.out = IF pc = "forward" THEN ids ELSE <<>>]]
<1>2. PICK pc \in {"done", "fall", "resolve", "forward"}, s \in {413, 404, 401, 500, 502, 0} :
          /\ begun(pc, s)
          /\ pc = "resolve" => op \in Engagements \/ body = "json"
          /\ pc = "forward" => op \notin Engagements /\ body # "json"
          /\ pc = "fall" /\ op \in Engagements => s \in {401, 500}
  BY DEF Receive, Turned, Engagements
<1>3. /\ req'[r].pc = pc /\ req'[r].status = s /\ req'[r].op = op /\ req'[r].body = body
      /\ req'[r].ids = ids /\ req'[r].out = IF pc = "forward" THEN ids ELSE <<>>
      /\ req'[r].answer = <<>>
  BY <1>2 DEF Shape, Blank
<1>4. \A q \in Requests \ {r} : req'[q] = req[q]
  BY <1>2 DEF Shape
<1>5. PICK out : out = req'[r].out
  OBVIOUS
<1>6. ids \in Seq(Named) /\ out \in Seq(Named) /\ out \in {ids, <<>>} /\ Len(out) <= Len(ids)
  BY <1>3, <1>5
<1>7. Outgoing(r)'
  <2>1. out \in Seq(Named \cup Ids)
    BY <1>6
  <2>2. \A i \in DOMAIN out : out[i] \in Given'
    BY <1>6 DEF Given
  <2>3. Worded(r)' => out = <<>>
    BY <1>2, <1>3, <1>5 DEF Worded
  <2>4. pc = "resolve" => Worded(r)' /\ (ids = <<>> \/ Len(out) < Len(ids))
    BY <1>2, <1>3, <1>5, <1>6 DEF Worded
  <2>5. pc # "render" /\ (pc = "forward" => Len(out) = Len(ids))
    BY <1>3, <1>5
  <2> QED  BY <1>3, <1>5, <1>6, <2>1, <2>2, <2>3, <2>4, <2>5 DEF Outgoing, At
<1>8. Messaged(r)'
  BY <1>1, <1>2, <1>3 DEF Messaged, At, Unhandled
<1>9. Truthfully(r)' /\ Unanswered(r)'
  BY <1>3 DEF Truthfully, Unanswered
<1> QED  BY <1>1, <1>4, <1>7, <1>8, <1>9 DEF Moved, Routed

----------------------------------------------------------------------------
LEMMA InitNames == Init => Names
<1> SUFFICES ASSUME Init PROVE Names
  OBVIOUS
<1>1. Rows
  BY DEF Init, Rows
<1>2. ASSUME NEW r \in Requests PROVE Routed(r)
  <2>1. req[r] = Blank /\ sent[r] = <<>>
    BY DEF Init
  <2> QED
    BY <2>1 DEF Routed, Outgoing, Messaged, Truthfully, Unanswered, Blank, At, Worded, Engagements
<1>3. DOMAIN sent = Requests
  BY DEF Init
<1> QED  BY <1>1, <1>2, <1>3 DEF Names

LEMMA MovedKeepsNames ==
  ASSUME Names, Rows', Evolves, NEW r \in Requests, Moved(r)
  PROVE  Names'
<1>1. ASSUME NEW q \in Requests \ {r} PROVE Routed(q)'
  BY OthersKept DEF Names, Moved
<1> QED  BY <1>1 DEF Names, Moved

LEMMA OthersKeepNames ==
  ASSUME Names, Rows', Evolves, UNCHANGED <<req, sent>>
  PROVE  Names'
<1>1. ASSUME NEW q \in Requests PROVE Routed(q)'
  BY OthersKept DEF Names
<1> QED  BY <1>1 DEF Names

LEMMA NextNames == IInv /\ Names /\ [Next]_vars => Names'
<1> SUFFICES ASSUME IInv, Names, [Next]_vars PROVE Names'
  OBVIOUS
<1>1. Shape /\ Rows
  BY DEF IInv, Names
<1>2. ASSUME NEW r \in Requests, NEW op \in Ops, NEW body \in Bodies, NEW ids \in NamedIds,
             Receive(r, op, body, ids)
      PROVE  Names'
  BY <1>1, <1>2, ReceiveMoves, MovedKeepsNames
<1>3. ASSUME NEW r \in Requests, Handle(r) \/ Cancel(r) PROVE Names'
  <2>1. Rows' /\ Evolves /\ Moved(r)
    BY <1>1, <1>3, ResolveMoves, ForwardMoves, RenderMoves, ProxyMoves, SilentMoves DEF Handle
  <2> QED  BY <2>1, MovedKeepsNames
<1>4. ASSUME NEW s \in Snowflakes, RowChanges(s) PROVE Names'
  BY <1>1, <1>4, RowChangesKeeps, OthersKeepNames DEF RowChanges
<1>5. ASSUME NEW o \in Origins, CopyChanges(o) PROVE Names'
  BY <1>1, <1>5, CopyChangesKeeps, OthersKeepNames DEF CopyChanges
<1>6. CASE UNCHANGED vars
  BY <1>1, <1>6, RowsUnchanged, OthersKeepNames DEF vars, posts
<1> QED  BY <1>2, <1>3, <1>4, <1>5, <1>6 DEF Next

LEMMA NamesGiven == Names => NamesKept
<1> SUFFICES ASSUME Names, NEW r \in Requests
             PROVE  /\ \A k \in DOMAIN sent[r] :
                          /\ req[r].op \in Engagements => sent[r][k].via = "handler"
                          /\ sent[r][k].via = "handler" /\ Worded(r) =>
                                \A i \in DOMAIN sent[r][k].ids :
                                   LET id == sent[r][k].ids[i]
                                   IN /\ Denotes(id) = Denotes(req[r].ids[i])
                                      /\ id \in Snowflakes \ Uriless => column[id] = NoRow
                    /\ req[r].answer # <<>> /\ Len(sent[r]) = 1 /\ sent[r][1].via = "handler" =>
                          \A i \in DOMAIN req[r].answer :
                             Denotes(req[r].answer[i]) = Denotes(Answered(r)[i])
  BY DEF NamesKept, Worded
<1>1. Routed(r)
  BY DEF Names
<1>2. ASSUME NEW k \in DOMAIN sent[r]
      PROVE  /\ req[r].op \in Engagements => sent[r][k].via = "handler"
             /\ sent[r][k].via = "handler" => sent[r][k].ids = req[r].out
  BY <1>1 DEF Routed, Messaged
<1>3. Worded(r) => \A i \in DOMAIN req[r].out : Faithful(req[r].out[i], req[r].ids[i])
  BY <1>1 DEF Routed, Outgoing
<1> QED  BY <1>1, <1>2, <1>3 DEF Routed, Truthfully, Faithful

(* Whatever requests overlap and fail, and whatever rows, mappings and     *)
(* copies become between the await of a lookup and the message, a handler  *)
(* sends Mastodon the ids of the very posts the client named, and hands    *)
(* back ids of the posts Mastodon answered about.  A snowflake goes out    *)
(* itself only where its row is gone or has no URI to search for.          *)
THEOREM TranslationKeeps == Spec => []NamesKept
<1>1. Init => IInv /\ Names
  BY InitIInv, InitNames
<1>2. IInv /\ Names /\ [Next]_vars => (IInv /\ Names)'
  BY NextIInv, NextNames
<1>3. IInv /\ Names => NamesKept
  BY NamesGiven
<1> QED  BY <1>1, <1>2, <1>3, PTL DEF Spec
----------------------------------------------------------------------------
\* How many messages Mastodon may have been sent for a request.
Quota(pc) == IF pc \in {"new", "resolve", "forward"} THEN 0
             ELSE IF pc \in {"render", "fall", "proxy"} THEN 1 ELSE 2

Counted ==
    /\ base \in BOOLEAN /\ used \in 0..MaxDisruptions
    /\ \A r \in Requests : req[r].op \in Ops /\ Len(sent[r]) <= Quota(req[r].pc)

LEMMA InitCounted == Init => Counted
  BY DEF Init, Counted, Blank, Quota, Ops

\* The disruptions stay within their bound, and base is never written.
Bounded ==
    /\ base' = base
    /\ UNCHANGED used \/ \E d \in Disruptions : Disrupt(d)

\* What a step of a request does to the messages.
Counts(r) ==
    /\ \A q \in Requests \ {r} : req'[q] = req[q] /\ sent'[q] = sent[q]
    /\ req'[r].op \in Ops /\ Len(sent'[r]) <= Quota(req'[r].pc)

LEMMA StaysBounded ==
  ASSUME base \in BOOLEAN, used \in 0..MaxDisruptions, Bounded
  PROVE  base' \in BOOLEAN /\ used' \in 0..MaxDisruptions
  BY DEF Bounded, Disrupt

LEMMA NothingSent ==
  ASSUME Counted, Names, NEW r \in Requests, Kept(r), sent' = sent,
         Quota(req[r].pc) <= Quota(req'[r].pc)
  PROVE  Counts(r)
<1>1. sent[r] \in Seq(Messages)
  BY DEF Names, Routed, Messaged
<1>2. Len(sent[r]) <= Quota(req'[r].pc)
  BY <1>1 DEF Counted, Quota
<1> QED  BY <1>2 DEF Counted, Counts, Kept

LEMMA OneSent ==
  ASSUME Counted, Names, NEW r \in Requests, Kept(r), NEW m \in Messages,
         sent' = [sent EXCEPT ![r] = Append(@, m)], Quota(req[r].pc) < Quota(req'[r].pc)
  PROVE  Counts(r)
<1>1. DOMAIN sent = Requests /\ sent[r] \in Seq(Messages)
  BY DEF Names, Routed, Messaged
<1>2. Len(sent'[r]) = Len(sent[r]) + 1
  BY <1>1, AppendProperties
<1>3. Len(sent'[r]) <= Quota(req'[r].pc)
  BY <1>1, <1>2 DEF Counted, Quota
<1>4. \A q \in Requests \ {r} : sent'[q] = sent[q]
  BY <1>1
<1> QED  BY <1>3, <1>4 DEF Counted, Counts, Kept

LEMMA FailureCounts ==
  ASSUME Counted, Names, Shape, NEW r \in Requests, sent' = sent,
         req[r].pc \in {"resolve", "forward", "render"}, NEW e, Fail(r, e)
  PROVE  Counts(r)
<1>1. Kept(r) /\ req'[r].pc = "fall"
  BY Replied DEF Fail
<1> QED  BY <1>1, NothingSent DEF Quota

LEMMA ReceiveCounts ==
  ASSUME Counted, Names, Shape, NEW r \in Requests, NEW op \in Ops, NEW body \in Bodies,
         NEW ids \in NamedIds, Receive(r, op, body, ids)
  PROVE  Bounded /\ Counts(r)
<1>1. Bounded /\ sent' = sent /\ Len(sent[r]) = 0
  BY DEF Names, Routed, Messaged, Receive, Turned, At, Bounded, Disrupt
<1> DEFINE begun(pc, status) ==
      req' = [req EXCEPT ![r] =
          [Blank EXCEPT !.pc = pc, !.op = op, !.body = body, !.ids = ids, !.status = status,
                        !.out = IF pc = "forward" THEN ids ELSE <<>>]]
<1>2. PICK pc \in {"done", "fall", "resolve", "forward"}, s \in {413, 404, 401, 500, 502, 0} :
          begun(pc, s)
  BY DEF Receive, Turned
<1>3. req'[r].pc = pc /\ req'[r].op = op /\ \A q \in Requests \ {r} : req'[q] = req[q]
  BY <1>2 DEF Shape, Blank
<1>4. Len(sent'[r]) <= Quota(pc)
  BY <1>1 DEF Quota
<1> QED  BY <1>1, <1>3, <1>4 DEF Counts

LEMMA ResolveCounts ==
  ASSUME Counted, Names, Shape, NEW r \in Requests, Resolve(r)
  PROVE  Bounded /\ Counts(r)
<1>1. Bounded /\ sent' = sent /\ req[r].pc = "resolve"
  BY DEF Resolve, At, Bounded, Disrupt
<1>2. (\E id : Resolved(r, id)) \/ (\E e : Fail(r, e))
  BY DEF Resolve, Missed
<1>3. CASE \E id : Resolved(r, id)
  <2>1. Kept(r) /\ req'[r].pc \in {"resolve", "forward"}
    BY <1>1, <1>3 DEF Resolved, Kept, Shape, Fields
  <2> QED  BY <1>1, <2>1, NothingSent DEF Quota
<1> QED  BY <1>1, <1>2, <1>3, FailureCounts

LEMMA ForwardCounts ==
  ASSUME Counted, Names, Shape, NEW r \in Requests, Forward(r)
  PROVE  Bounded /\ Counts(r)
<1> DEFINE m == [via |-> "handler", ids |-> req[r].out]
           then(s) == CASE s = 0 -> Fail(r, "Unreachable")
                     [] s = 200 -> Goto(r, "render")
                     [] OTHER -> Reply(r, s, "none", <<>>)
<1>1. req[r].pc = "forward" /\ m \in Messages
  BY DEF Names, Routed, Outgoing, Forward, At, Messages
<1>2. CASE Fail(r, "Unreachable") /\ UNCHANGED <<base, sent, used>>
  BY <1>1, <1>2, FailureCounts DEF Bounded
<1>3. CASE base' = base /\ \E s \in Statuses : Mastodon(r, "handler", req[r].out, s) /\ then(s)
  <2>1. PICK s \in Statuses : Mastodon(r, "handler", req[r].out, s) /\ then(s)
    BY <1>3
  <2>2. sent' = [sent EXCEPT ![r] = Append(@, m)]
    BY <2>1 DEF Mastodon
  <2>3. Bounded
    BY <1>3, <2>1 DEF Mastodon, Bounded, Disrupt
  <2>4. Kept(r) /\ req'[r].pc \in {"fall", "render"}
    <3>1. CASE s = 0
      BY <2>1, <3>1, Replied DEF Fail
    <3>2. CASE s = 200
      <4>1. Goto(r, "render")
        BY <2>1, <3>2
      <4> QED  BY <4>1, Went
    <3>3. CASE s # 0 /\ s # 200
      BY <2>1, <3>3, Replied
    <3> QED  BY <3>1, <3>2, <3>3
  <2> HIDE DEF m
  <2>5. Quota(req[r].pc) < Quota(req'[r].pc)
    BY <1>1, <2>4 DEF Quota
  <2> QED  BY <1>1, <2>2, <2>3, <2>4, <2>5, OneSent
<1> QED  BY <1>2, <1>3 DEF Forward

LEMMA ProxyCounts ==
  ASSUME Counted, Names, Shape, NEW r \in Requests, Proxy(r)
  PROVE  Bounded /\ Counts(r)
<1> DEFINE m == [via |-> "fallback", ids |-> req[r].ids]
           then(s) == req' = [req EXCEPT ![r].pc = "passing", ![r].status = IF s = 0 THEN 502 ELSE s,
                                         ![r].answer = IF s = 200 THEN req[r].ids ELSE <<>>]
<1>1. req[r].pc = "proxy" /\ m \in Messages
  BY DEF Names, Routed, Outgoing, Proxy, At, Messages
<1>2. PICK s \in Statuses : Mastodon(r, "fallback", req[r].ids, s) /\ then(s)
  BY DEF Proxy
<1>3. sent' = [sent EXCEPT ![r] = Append(@, m)]
  BY <1>2 DEF Mastodon
<1>4. Bounded
  BY <1>2 DEF Proxy, Mastodon, Bounded, Disrupt
<1>5. Kept(r) /\ req'[r].pc = "passing"
  BY <1>2 DEF Kept, Shape, Fields
<1> HIDE DEF m
<1>6. Quota(req[r].pc) < Quota(req'[r].pc)
  BY <1>1, <1>5 DEF Quota
<1> QED  BY <1>1, <1>3, <1>4, <1>5, <1>6, OneSent

LEMMA RenderCounts ==
  ASSUME Counted, Names, Shape, NEW r \in Requests, Render(r)
  PROVE  Bounded /\ Counts(r)
<1>1. Bounded /\ sent' = sent /\ req[r].pc = "render"
  BY DEF Render, At, Bounded, Disrupt
<1>2. \E s, e, a : Reply(r, s, e, a)
  BY DEF Render, Fail
<1>3. Kept(r) /\ req'[r].pc = "fall"
  BY <1>2, Replied
<1> QED  BY <1>1, <1>3, NothingSent DEF Quota

LEMMA SilentCounts ==
  ASSUME IInv, Counted, Names, NEW r \in Requests,
         NothingToResolve(r) \/ Fall(r) \/ Pass(r) \/ Cancel(r)
  PROVE  Bounded /\ Counts(r)
<1>1. Bounded /\ sent' = sent /\ Shape /\ req[r].pc \in Pcs
  BY DEF NothingToResolve, Fall, Pass, Cancel, Bounded, Disrupt, IInv, Truthful
<1>2. \/ Goto(r, "forward") /\ req[r].pc = "resolve"
      \/ Goto(r, "proxy") /\ req[r].pc = "fall"
      \/ Goto(r, "done") \/ Goto(r, "gone")
      \/ req' = [req EXCEPT ![r].pc = "done", ![r].status = 502, ![r].answer = <<>>]
  BY DEF NothingToResolve, Fall, Pass, Cancel, At
<1>3. /\ Kept(r)
      /\ \/ req'[r].pc = "forward" /\ req[r].pc = "resolve"
         \/ req'[r].pc = "proxy" /\ req[r].pc = "fall"
         \/ req'[r].pc \in {"done", "gone"}
  <2>1. CASE req' = [req EXCEPT ![r].pc = "done", ![r].status = 502, ![r].answer = <<>>]
    BY <1>1, <2>1 DEF Kept, Shape, Fields
  <2> QED  BY <1>1, <1>2, <2>1, Went
<1>4. Quota(req[r].pc) <= Quota(req'[r].pc)
  BY <1>3 DEF Quota
<1> QED  BY <1>1, <1>3, <1>4, NothingSent

LEMMA CountsKeeps ==
  ASSUME Counted, NEW r \in Requests, Bounded, Counts(r)
  PROVE  Counted'
<1>1. base' \in BOOLEAN /\ used' \in 0..MaxDisruptions
  BY StaysBounded DEF Counted
<1>2. ASSUME NEW q \in Requests PROVE req'[q].op \in Ops /\ Len(sent'[q]) <= Quota(req'[q].pc)
  <2>1. CASE q = r
    BY <2>1 DEF Counts
  <2>2. CASE q # r
    BY <2>2 DEF Counts, Counted
  <2> QED  BY <2>1, <2>2
<1> QED  BY <1>1, <1>2 DEF Counted, Quota

LEMMA NextCounted == IInv /\ Names /\ Counted /\ [Next]_vars => Counted'
<1> SUFFICES ASSUME IInv, Names, Counted, [Next]_vars PROVE Counted'
  OBVIOUS
<1>1. Shape
  BY DEF IInv
<1>2. ASSUME NEW r \in Requests, NEW op \in Ops, NEW body \in Bodies, NEW ids \in NamedIds,
             Receive(r, op, body, ids)
      PROVE  Counted'
  BY <1>1, <1>2, ReceiveCounts, CountsKeeps
<1>3. ASSUME NEW r \in Requests, Handle(r) \/ Cancel(r) PROVE Counted'
  <2>1. Bounded /\ Counts(r)
    BY <1>1, <1>3, ResolveCounts, ForwardCounts, RenderCounts, ProxyCounts, SilentCounts DEF Handle
  <2> QED  BY <2>1, CountsKeeps
<1>4. CASE UNCHANGED <<base, req, sent, used>>
  BY <1>4 DEF Counted, Quota
<1> QED  BY <1>2, <1>3, <1>4 DEF Next, RowChanges, CopyChanges, vars

LEMMA TypesGiven == IInv /\ Names /\ Counted => TypeOK
<1> SUFFICES ASSUME IInv, Names, Counted PROVE TypeOK
  OBVIOUS
<1>1. ASSUME NEW r \in Requests
      PROVE  /\ req[r].pc \in Pcs /\ req[r].op \in Ops
             /\ Len(req[r].out) <= Len(req[r].ids)
             /\ At(r, "forward") \/ At(r, "render") => Len(req[r].out) = Len(req[r].ids)
             /\ applied[r] \in 0..2 /\ Len(sent[r]) \in 0..2
  <2>1. req[r].pc \in Pcs /\ applied[r] \in 0..2
    BY DEF IInv, Truthful
  <2>2. Outgoing(r) /\ sent[r] \in Seq(Messages) /\ Len(sent[r]) \in Nat
    BY DEF Names, Routed, Messaged
  <2>3. req[r].op \in Ops /\ Len(sent[r]) <= 2
    BY <2>2 DEF Counted, Quota
  <2>4. /\ Len(req[r].out) <= Len(req[r].ids)
        /\ At(r, "forward") \/ At(r, "render") => Len(req[r].out) = Len(req[r].ids)
    BY <2>2 DEF Outgoing, At
  <2>5. Len(sent[r]) \in 0..2
    <3>1. PICK n : n = Len(sent[r])
      OBVIOUS
    <3>2. n \in Nat
      BY <2>2, <3>1, Zenon
    <3>3. n <= 2
      BY <2>3, <3>1, Zenon
    <3>4. n \in 0..2
      BY <3>2, <3>3
    <3> QED  BY <3>1, <3>4, Zenon
  <2> QED  BY <2>1, <2>3, <2>4, <2>5, Zenon
<1>2. Rows /\ base \in BOOLEAN /\ used \in 0..MaxDisruptions
  BY DEF Names, Counted
<1> QED  BY <1>1, <1>2 DEF Rows, TypeOK

(* The routing stays within its types: no more ids go out than the client  *)
(* named and all of them once the request is forwarded, ids are given out  *)
(* up to their bound, a write is sent to Mastodon at most twice, and       *)
(* nothing is sent before its ids are translated.                          *)
THEOREM RoutingTyped == Spec => []TypeOK
<1>1. Init => IInv /\ Names /\ Counted
  BY InitIInv, InitNames, InitCounted
<1>2. IInv /\ Names /\ Counted /\ [Next]_vars => (IInv /\ Names /\ Counted)'
  BY NextIInv, NextNames, NextCounted
<1> QED  BY <1>1, <1>2, TypesGiven, PTL DEF Spec
=============================================================================
