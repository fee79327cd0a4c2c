--------------------------- MODULE ResolverProofs ---------------------------
(* For every number of callers, ids and failures: a caller always finds a  *)
(* future to insert, no search answers with an id that Mastodon never gave *)
(* the post, and no completed search stays in the map.                     *)
EXTENDS Resolver, FiniteSetTheorems, TLAPS

FlightType == [stage : Stages, answer : Ids \cup {0, Failed}]
CallerType == [pc : Pcs, kind : {"detail", "context", "engage"},
               flight : Slots \cup {0}, id : Ids \cup {0}]

\* A search that Mastodon answered has an id, and a finished one a result.
AnswerGiven ==
    \A f \in Slots :
        /\ flights[f].stage = "answered" => flights[f].answer \in Ids
        /\ flights[f].stage \in {"ready", "done"} => flights[f].answer # 0

\* Nobody else restarts a search whose result a caller is about to use.
ResultKept ==
    \A c \in Callers : At(c, "remove") => flights[caller[c].flight].stage = "done"

FlightInv == TypeOK /\ AnswerGiven /\ ResultKept /\ NoPinnedFlight

----------------------------------------------------------------------------
LEMMA SlotsFinite ==
    /\ Cardinality(Callers) \in Nat
    /\ IsFiniteSet(Slots) /\ Cardinality(Slots) = Cardinality(Callers)
<1>1. Cardinality(Callers) \in Nat
  BY FS_CardinalityType, ResolverAssumption
<1> QED  BY <1>1, FS_Interval DEF Slots

(* A caller that has yet to join finds a future that nobody holds: there   *)
(* is one for each caller, and it holds none itself.                       *)
LEMMA SomeFree ==
    ASSUME NEW c \in Callers, caller[c].flight = 0, inMap = 0
    PROVE  Free # {}
<1> SUFFICES ASSUME Free = {} PROVE FALSE
  OBVIOUS
<1> DEFINE Others == Callers \ {c}
           Holder == [f \in Slots |-> CHOOSE x \in Callers : caller[x].flight = f]
<1>1. \A f \in Slots : f # 0
  BY SlotsFinite DEF Slots
<1>2. \A f \in Slots : Holder[f] \in Others /\ caller[Holder[f]].flight = f
  <2> SUFFICES ASSUME NEW f \in Slots
               PROVE  Holder[f] \in Others /\ caller[Holder[f]].flight = f
    OBVIOUS
  <2>1. \E x \in Callers : caller[x].flight = f
    BY <1>1 DEF Free
  <2>2. Holder[f] \in Callers /\ caller[Holder[f]].flight = f
    BY <2>1
  <2> QED  BY <2>2, <1>1
<1> HIDE DEF Holder
<1>3. Holder \in [Slots -> Others]
  BY <1>2 DEF Holder
<1>4. IsFiniteSet(Others) /\ Cardinality(Others) < Cardinality(Slots)
  <2>1. IsFiniteSet(Callers)
    BY ResolverAssumption
  <2>2. IsFiniteSet(Others) /\ Cardinality(Others) = Cardinality(Callers) - 1
    BY <2>1, FS_RemoveElement, Zenon
  <2> QED  BY <2>2, SlotsFinite
<1>5. PICK f, g \in Slots : f # g /\ Holder[f] = Holder[g]
  BY <1>3, <1>4, SlotsFinite, FS_PigeonHole
<1> QED  BY <1>2, <1>5

----------------------------------------------------------------------------
LEMMA InitFlightInv == Init => FlightInv
<1> SUFFICES ASSUME Init PROVE FlightInv
  OBVIOUS
<1> USE ResolverAssumption, SlotsFinite
<1>1. TypeOK
  BY DEF Init, TypeOK, NewFlight, Idle, Ids, Stages, Pcs, At
<1>2. AnswerGiven /\ ResultKept /\ NoPinnedFlight
  BY DEF Init, AnswerGiven, ResultKept, NoPinnedFlight, NewFlight, Idle, At
<1> QED  BY <1>1, <1>2 DEF FlightInv

(* Every step of a caller that touches nothing but its own place in the    *)
(* handler, away from a search, the row and the count of disruptions.      *)
LEMMA OwnStep ==
    ASSUME FlightInv, NEW c \in Callers, NEW next \in CallerType,
           caller' = [caller EXCEPT ![c] = next],
           ~At(c, "remove"),
           next.flight # 0 <=> next.pc \in {"waiting", "remove"},
           next.pc = "forward" => next.id # 0,
           next.pc = "remove" => flights[next.flight].stage = "done",
           row' \in Ids \cup {Unmapped, NoRow},
           used' \in 0..MaxDisruptions,
           UNCHANGED <<hasUri, copy, lastId, flights, inMap>>
    PROVE  FlightInv'
<1> USE DEF FlightInv
<1>1. /\ caller' \in [Callers -> CallerType]
      /\ caller'[c] = next
      /\ \A x \in Callers \ {c} : caller'[x] = caller[x]
  BY DEF TypeOK, CallerType
<1>2. TypeOK'
  BY <1>1, SMT DEF TypeOK, CallerType, At
<1>3. AnswerGiven'
  BY DEF AnswerGiven
<1>4. ResultKept'
  BY <1>1 DEF ResultKept, At
<1>5. NoPinnedFlight'
  BY <1>1 DEF NoPinnedFlight, At
<1> QED  BY <1>2, <1>3, <1>4, <1>5

LEMMA UsedType ==
    ASSUME used \in 0..MaxDisruptions, NEW d
    PROVE  /\ UNCHANGED used => used' \in 0..MaxDisruptions
           /\ Disrupt(d) => used' \in 0..MaxDisruptions
BY ResolverAssumption DEF Disrupt

(* A step of a search: it ends with a result, or goes on; one that is done *)
(* stays so, and it is done only once a caller is about to remove it.      *)
LEMMA FlightStep ==
    ASSUME FlightInv, NEW f \in Slots, NEW stage \in Stages,
           NEW answer \in Ids \cup {0, Failed},
           Becomes(f, stage, answer),
           stage = "answered" => answer \in Ids,
           stage = "ready" => answer # 0,
           flights[f].stage # "done", stage # "done",
           row' \in Ids \cup {Unmapped, NoRow},
           copy' \in 0..lastId', lastId' \in 0..MaxId,
           used' \in 0..MaxDisruptions,
           UNCHANGED <<hasUri, inMap, caller>>
    PROVE  FlightInv'
<1> USE DEF FlightInv
<1>1. /\ flights' \in [Slots -> FlightType]
      /\ flights'[f] = [stage |-> stage, answer |-> answer]
      /\ \A g \in Slots \ {f} : flights'[g] = flights[g]
  BY DEF TypeOK, FlightType, Becomes
<1>2. TypeOK'
  BY <1>1, SMT DEF TypeOK, FlightType, At
<1>3. AnswerGiven'
  BY <1>1 DEF AnswerGiven
<1>4. ResultKept'
  BY <1>1 DEF ResultKept, At, TypeOK
<1>5. NoPinnedFlight'
  BY <1>1, SlotsFinite DEF NoPinnedFlight, At, TypeOK, Slots
<1> QED  BY <1>2, <1>3, <1>4, <1>5
----------------------------------------------------------------------------
USE DEF FlightInv

LEMMA OpenStep ==
    ASSUME FlightInv, NEW c \in Callers,
           NEW kind \in {"detail", "context"}, NEW signedIn \in BOOLEAN,
           Open(c, kind, signedIn)
    PROVE  FlightInv'
<1> DEFINE id == IF row = Unmapped THEN 0 ELSE row
           pc == IF row # Unmapped THEN "forward"
                 ELSE IF kind = "detail" /\ signedIn THEN "lookup"
                 ELSE IF kind = "detail" THEN "cached" ELSE "idle"
           next == [caller[c] EXCEPT !.kind = kind, !.id = id, !.pc = pc]
<1>1. caller[c] \in CallerType /\ caller[c].pc = "idle" /\ caller[c].flight = 0
  BY DEF Open, At, TypeOK, CallerType
<1>2. id \in Ids \cup {0} /\ (row # Unmapped => id # 0)
  BY DEF TypeOK, Open, Ids
<1>3. pc \in {"forward", "lookup", "cached", "idle"} /\ (pc = "forward" => id # 0)
  BY <1>2
<1>4. caller' = [caller EXCEPT ![c] = next]
  BY DEF Open
<1> HIDE DEF id, pc
<1>5. next \in CallerType /\ next.flight = 0 /\ next.pc = pc /\ next.id = id
  BY <1>1, <1>2, <1>3 DEF CallerType, Pcs
<1> HIDE DEF next
<1>6. ~At(c, "remove") /\ UNCHANGED <<hasUri, row, copy, lastId, flights, inMap, used>>
  BY DEF Open, At
<1> QED  BY <1>3, <1>4, <1>5, <1>6, OwnStep DEF TypeOK

LEMMA EngageStep == ASSUME FlightInv, NEW c \in Callers, Engage(c) PROVE FlightInv'
<1> DEFINE next == [caller[c] EXCEPT !.kind = "engage", !.pc = "lookup"]
<1>1. next \in CallerType /\ next.flight = 0 /\ next.pc = "lookup"
  BY DEF Engage, At, TypeOK, CallerType, Pcs
<1>2. caller' = [caller EXCEPT ![c] = next] /\ ~At(c, "remove")
  BY DEF Engage, At
<1> HIDE DEF next
<1> QED  BY <1>1, <1>2, OwnStep DEF Engage, TypeOK

(* Going on to a place that needs neither a search nor an id.              *)
LEMMA GoStep ==
    ASSUME FlightInv, NEW c \in Callers,
           NEW where \in {"idle", "lookup", "join", "clear", "cached"},
           Go(c, where) \/ Leave(c), caller[c].pc \notin {"waiting", "remove"},
           row' \in Ids \cup {Unmapped, NoRow}, used' \in 0..MaxDisruptions,
           UNCHANGED <<hasUri, copy, lastId, flights, inMap>>
    PROVE  FlightInv'
<1> DEFINE moved == [caller[c] EXCEPT !.pc = where]
<1>1. moved \in CallerType /\ moved.flight = 0 /\ moved.pc = where
  BY DEF TypeOK, CallerType, Pcs
<1>2. Idle \in CallerType /\ Idle.flight = 0 /\ Idle.pc = "idle"
  BY DEF CallerType, Pcs, Idle
<1>3. CASE Go(c, where)
  <2>1. caller' = [caller EXCEPT ![c] = moved]
    BY <1>3 DEF Go
  <2> HIDE DEF moved
  <2> QED  BY <1>1, <2>1, OwnStep DEF At
<1>4. CASE Leave(c)
  BY <1>2, <1>4, OwnStep DEF At, Leave
<1> QED  BY <1>3, <1>4

LEMMA WithoutIsGo ==
    ASSUME NEW c \in Callers, Without(c)
    PROVE  Go(c, "cached") \/ Leave(c)
BY DEF Without

LEMMA LookupStep == ASSUME FlightInv, NEW c \in Callers, Lookup(c) PROVE FlightInv'
<1> USE DEF Lookup
<1>1. /\ caller[c].pc = "lookup" /\ caller[c] \in CallerType /\ caller[c].flight = 0
      /\ row' \in Ids \cup {Unmapped, NoRow} /\ UNCHANGED <<hasUri, copy, lastId, flights, inMap>>
  BY DEF At, TypeOK, CallerType
<1>2. used' \in 0..MaxDisruptions
  BY UsedType DEF TypeOK
<1>3. CASE row \in Ids /\ caller' = [caller EXCEPT ![c] = [@ EXCEPT !.pc = "forward", !.id = row]]
  <2> DEFINE next == [caller[c] EXCEPT !.pc = "forward", !.id = row]
  <2>0. row \in Ids /\ row # 0
    BY <1>3 DEF Ids
  <2>1. next \in CallerType /\ next.flight = 0 /\ next.pc = "forward" /\ next.id # 0
    BY <1>1, <2>0 DEF CallerType, Pcs
  <2>2. caller' = [caller EXCEPT ![c] = next]
    BY <1>3
  <2> HIDE DEF next
  <2> QED  BY <1>1, <1>2, <2>1, <2>2, OwnStep DEF At
<1>4. CASE Without(c) \/ Go(c, "join")
  BY <1>1, <1>2, <1>4, WithoutIsGo, GoStep
<1> QED  BY <1>3, <1>4

LEMMA JoinStep == ASSUME FlightInv, NEW c \in Callers, Join(c) PROVE FlightInv'
<1> DEFINE f == IF inMap # 0 THEN inMap ELSE CHOOSE s \in Free : TRUE
           next == [caller[c] EXCEPT !.pc = "waiting", !.flight = f]
<1>1. caller[c].pc = "join" /\ caller[c] \in CallerType /\ caller[c].flight = 0
  BY DEF Join, At, TypeOK, CallerType
<1>2. f \in Slots /\ f # 0 /\ (inMap = 0 => f \in Free)
  <2>1. inMap = 0 => Free # {}
    BY <1>1, SomeFree
  <2>2. inMap = 0 => f \in Free
    BY <2>1
  <2>3. \A s \in Slots : s # 0
    BY SlotsFinite DEF Slots
  <2> QED  BY <2>2, <2>3 DEF Free, TypeOK
<1>3. /\ flights' = IF inMap # 0 THEN flights ELSE [flights EXCEPT ![f] = NewFlight]
      /\ inMap' = f /\ UNCHANGED <<hasUri, row, copy, lastId, used>>
      /\ caller' = [caller EXCEPT ![c] = next]
  BY DEF Join
<1> HIDE DEF f
<1>4. next \in CallerType /\ next.flight = f /\ next.pc = "waiting"
  BY <1>1, <1>2 DEF CallerType, Pcs
<1> HIDE DEF next
<1>5. /\ caller' \in [Callers -> CallerType] /\ caller'[c] = next
      /\ \A x \in Callers \ {c} : caller'[x] = caller[x]
  BY <1>3, <1>4 DEF TypeOK, CallerType
<1>6. /\ flights' \in [Slots -> FlightType]
      /\ inMap # 0 => flights' = flights
      /\ inMap = 0 => flights'[f] = NewFlight
      /\ \A s \in Slots \ {f} : flights'[s] = flights[s]
  BY <1>2, <1>3 DEF TypeOK, FlightType, NewFlight, Stages
<1>7. TypeOK'
  BY <1>1, <1>2, <1>3, <1>4, <1>5, <1>6, SMT DEF TypeOK, CallerType, FlightType, At
<1>8. AnswerGiven'
  BY <1>2, <1>3, <1>6 DEF AnswerGiven, NewFlight
<1>9. ResultKept'
  <2> SUFFICES ASSUME NEW x \in Callers, caller'[x].pc = "remove"
               PROVE  flights'[caller'[x].flight].stage = "done"
    BY DEF ResultKept, At
  <2>1. x # c /\ caller'[x] = caller[x]
    BY <1>4, <1>5
  <2>2. caller[x].flight \in Slots /\ flights[caller[x].flight].stage = "done"
    BY <2>1 DEF ResultKept, At, TypeOK
  <2>3. inMap = 0 => caller[x].flight # f
    BY <1>2 DEF Free
  <2> QED  BY <1>2, <1>6, <2>1, <2>2, <2>3
<1>10. NoPinnedFlight'
  <2>1. CASE inMap = 0
    BY <1>2, <1>3, <1>6, <2>1 DEF NoPinnedFlight, NewFlight
  <2>2. CASE inMap # 0
    <3>1. inMap' = inMap /\ flights' = flights
      BY <1>3, <2>2 DEF f
    <3> QED  BY <1>1, <1>5, <2>2, <3>1 DEF NoPinnedFlight, At
  <2> QED  BY <2>1, <2>2
<1> QED  BY <1>7, <1>8, <1>9, <1>10
LEMMA SearchStep == ASSUME FlightInv, NEW f \in Slots, Search(f) PROVE FlightInv'
<1> USE DEF Search
<1>1. /\ flights[f].stage = "new" /\ UNCHANGED <<hasUri, row, copy, lastId, inMap, caller>>
      /\ row' \in Ids \cup {Unmapped, NoRow}
      /\ copy' \in 0..lastId' /\ lastId' \in 0..MaxId
  BY DEF TypeOK
<1>2. used' \in 0..MaxDisruptions
  BY UsedType DEF TypeOK
<1>3. Failed # 0 /\ (row \in Ids => row # 0)
  BY ResolverAssumption DEF Ids
<1>4. CASE row \in Ids /\ Becomes(f, "ready", row)
  BY <1>1, <1>2, <1>3, <1>4, FlightStep DEF Stages
<1>5. CASE Becomes(f, "ready", Failed)
  BY <1>1, <1>2, <1>3, <1>5, FlightStep DEF Stages
<1>6. CASE Becomes(f, "asked", 0)
  BY <1>1, <1>2, <1>6, FlightStep DEF Stages
<1> QED  BY <1>4, <1>5, <1>6

LEMMA AnswerStep == ASSUME FlightInv, NEW f \in Slots, Answer(f) PROVE FlightInv'
<1> USE DEF Answer
<1>1. /\ flights[f].stage = "asked" /\ UNCHANGED <<hasUri, row, inMap, caller>>
      /\ row' \in Ids \cup {Unmapped, NoRow}
  BY DEF TypeOK
<1>2. used' \in 0..MaxDisruptions
  BY UsedType DEF TypeOK
<1>3. copy' \in 0..lastId' /\ lastId' \in 0..MaxId
  BY ResolverAssumption DEF TypeOK
<1>4. copy # 0 => copy \in Ids
  BY ResolverAssumption DEF TypeOK, Ids
<1>5. CASE copy # 0 /\ Becomes(f, "answered", copy)
  BY <1>1, <1>2, <1>3, <1>4, <1>5, FlightStep DEF Stages
<1>6. CASE lastId < MaxId /\ Becomes(f, "answered", lastId + 1)
  <2>1. lastId + 1 \in Ids
    BY <1>6, ResolverAssumption DEF TypeOK, Ids
  <2> QED  BY <1>1, <1>2, <1>3, <1>6, <2>1, FlightStep DEF Stages
<1>7. CASE Becomes(f, "ready", Failed)
  <2>1. Failed # 0
    BY ResolverAssumption
  <2> QED  BY <1>1, <1>2, <1>3, <1>7, <2>1, FlightStep DEF Stages
<1> QED  BY <1>5, <1>6, <1>7

LEMMA StoreStep == ASSUME FlightInv, NEW f \in Slots, Store(f) PROVE FlightInv'
<1> DEFINE answer == flights[f].answer
<1>1. /\ flights[f].stage = "answered" /\ UNCHANGED <<hasUri, copy, lastId, inMap, caller>>
      /\ copy' \in 0..lastId' /\ lastId' \in 0..MaxId
      /\ Becomes(f, "ready", answer) \/ Becomes(f, "ready", Failed)
  BY DEF Store, TypeOK
<1>2. used' \in 0..MaxDisruptions
  BY UsedType DEF Store, TypeOK
<1>3. Failed # 0 /\ answer \in Ids /\ answer # 0
  BY <1>1, ResolverAssumption DEF AnswerGiven, Ids
<1>4. row' \in Ids \cup {Unmapped, NoRow}
  BY <1>3 DEF Store, TypeOK
<1> HIDE DEF answer
<1> QED  BY <1>1, <1>2, <1>3, <1>4, FlightStep DEF Stages

(* The first caller to poll a finished search completes it, and is about   *)
(* to remove it from then on.                                              *)
LEMMA WakeStep == ASSUME FlightInv, NEW c \in Callers, Wake(c) PROVE FlightInv'
<1> DEFINE f == caller[c].flight
           next == [caller[c] EXCEPT !.pc = "remove"]
<1>1. /\ caller[c].pc = "waiting" /\ caller[c] \in CallerType /\ f \in Slots
      /\ flights[f].stage \in {"ready", "done"}
  BY DEF Wake, At, TypeOK, CallerType
<1>2. /\ flights' = [flights EXCEPT ![f] = [stage |-> "done", answer |-> flights[f].answer]]
      /\ caller' = [caller EXCEPT ![c] = next]
      /\ UNCHANGED <<hasUri, row, copy, lastId, inMap, used>>
  BY DEF Wake, Becomes, Go
<1>3. next \in CallerType /\ next.flight = f /\ next.pc = "remove" /\ f # 0
  BY <1>1, SlotsFinite DEF CallerType, Pcs, Slots
<1> HIDE DEF f, next
<1>4. /\ caller' \in [Callers -> CallerType] /\ caller'[c] = next
      /\ \A x \in Callers \ {c} : caller'[x] = caller[x]
  BY <1>2, <1>3 DEF TypeOK, CallerType
<1>5. /\ flights' \in [Slots -> FlightType]
      /\ flights'[f].stage = "done" /\ flights'[f].answer = flights[f].answer
      /\ \A s \in Slots \ {f} : flights'[s] = flights[s]
  BY <1>1, <1>2 DEF TypeOK, FlightType, Stages
<1>6. TypeOK'
  BY <1>1, <1>2, <1>3, <1>4, <1>5, SMT DEF TypeOK, CallerType, FlightType, At
<1>7. AnswerGiven'
  BY <1>1, <1>5 DEF AnswerGiven
<1>8. ResultKept'
  <2> SUFFICES ASSUME NEW x \in Callers, caller'[x].pc = "remove"
               PROVE  flights'[caller'[x].flight].stage = "done"
    BY DEF ResultKept, At
  <2>1. CASE x = c
    BY <1>3, <1>4, <1>5, <2>1
  <2>2. CASE x # c
    <3>1. caller'[x] = caller[x]
      BY <1>4, <2>2
    <3>2. caller[x].flight \in Slots /\ flights[caller[x].flight].stage = "done"
      BY <3>1 DEF ResultKept, At, TypeOK
    <3> QED  BY <1>5, <3>1, <3>2
  <2> QED  BY <2>1, <2>2
<1>9. NoPinnedFlight'
  BY <1>3, <1>4 DEF NoPinnedFlight, At
<1> QED  BY <1>6, <1>7, <1>8, <1>9

LEMMA RemoveStep == ASSUME FlightInv, NEW c \in Callers, Remove(c) PROVE FlightInv'
<1> DEFINE given == flights[caller[c].flight].answer
           next == IF given # Failed
                   THEN [caller[c] EXCEPT !.pc = "forward", !.id = given, !.flight = 0]
                   ELSE [Idle EXCEPT !.pc = IF caller[c].kind = "detail"
                                            THEN "cached" ELSE "idle"]
<1>1. caller[c] \in CallerType /\ caller[c].flight \in Slots
  BY DEF Remove, At, TypeOK, CallerType
<1>2. given \in Ids \cup {Failed} /\ given # 0
  BY <1>1 DEF Remove, At, TypeOK, FlightType, AnswerGiven, ResultKept
<1>3. caller' = [caller EXCEPT ![c] = next] /\ inMap' = 0
      /\ UNCHANGED <<hasUri, row, copy, lastId, flights, used>>
  BY DEF Remove, Resume, Given
<1> HIDE DEF given
<1>4. next \in CallerType /\ next.flight = 0
      /\ next.pc \in {"forward", "cached", "idle"}
      /\ (next.pc = "forward" => next.id # 0)
  BY <1>1, <1>2 DEF CallerType, Pcs, Idle
<1> HIDE DEF next
<1>5. /\ caller' \in [Callers -> CallerType] /\ caller'[c] = next
      /\ \A x \in Callers \ {c} : caller'[x] = caller[x]
  BY <1>3, <1>4 DEF TypeOK, CallerType
<1>6. TypeOK'
  BY <1>3, <1>4, <1>5, SMT DEF TypeOK, CallerType, At
<1>7. AnswerGiven' /\ ResultKept' /\ NoPinnedFlight'
  BY <1>3, <1>4, <1>5 DEF AnswerGiven, ResultKept, NoPinnedFlight, At
<1> QED  BY <1>6, <1>7

LEMMA CallerStep ==
    ASSUME FlightInv, NEW c \in Callers,
           Forward(c) \/ Clear(c) \/ Cached(c) \/ Cancel(c)
    PROVE  FlightInv'
<1>1. caller[c].pc \notin {"idle", "remove"} /\ UNCHANGED <<hasUri, copy, lastId, flights, inMap>>
  BY DEF Forward, Clear, Cached, Cancel, At
<1>2. used' \in 0..MaxDisruptions
  BY UsedType DEF TypeOK, Forward, Clear, Cached, Cancel
<1>3. row' \in Ids \cup {Unmapped, NoRow}
  BY DEF TypeOK, Forward, Clear, Cached, Cancel
<1>4. CASE Cancel(c)
  <2>1. Idle \in CallerType /\ Idle.flight = 0 /\ Idle.pc = "idle"
    BY DEF CallerType, Pcs, Idle
  <2> QED  BY <1>1, <1>2, <1>3, <1>4, <2>1, OwnStep DEF At, Leave, Cancel
<1>5. CASE Forward(c) \/ Clear(c) \/ Cached(c)
  <2>1. caller[c].pc # "waiting"
    BY <1>5 DEF Forward, Clear, Cached, At
  <2>2. Leave(c) \/ Go(c, "clear") \/ Go(c, "cached")
    BY <1>5, WithoutIsGo DEF Forward, Clear, Cached
  <2> QED  BY <1>1, <1>2, <1>3, <2>1, <2>2, GoStep
<1> QED  BY <1>4, <1>5

LEMMA OutsideStep ==
    ASSUME FlightInv, Mapped \/ CopyDropped \/ UNCHANGED vars
    PROVE  FlightInv'
<1>1. TypeOK'
  BY ResolverAssumption DEF TypeOK, Mapped, CopyDropped, vars, At
<1>2. UNCHANGED <<hasUri, flights, inMap, caller>>
  BY DEF Mapped, CopyDropped, vars
<1>3. AnswerGiven' /\ ResultKept' /\ NoPinnedFlight'
  BY <1>2 DEF AnswerGiven, ResultKept, NoPinnedFlight, At
<1> QED  BY <1>1, <1>3

LEMMA NextFlightInv == FlightInv /\ [Next]_vars => FlightInv'
<1> SUFFICES ASSUME FlightInv, [Next]_vars PROVE FlightInv'
  OBVIOUS
<1> USE DEF Next
<1>1. ASSUME NEW c \in Callers,
             View(c) \/ Open(c, "detail", FALSE) \/ Open(c, "context", FALSE)
      PROVE  FlightInv'
  BY <1>1, OpenStep DEF View
<1>2. ASSUME NEW c \in Callers, Engage(c) PROVE FlightInv'
  BY <1>2, EngageStep
<1>3. ASSUME NEW c \in Callers, Proceed(c) \/ Cancel(c) PROVE FlightInv'
  BY <1>3, LookupStep, JoinStep, WakeStep, RemoveStep, CallerStep DEF Proceed
<1>4. ASSUME NEW f \in Slots, Fly(f) PROVE FlightInv'
  BY <1>4, SearchStep, AnswerStep, StoreStep DEF Fly
<1>5. CASE Mapped \/ CopyDropped \/ UNCHANGED vars
  BY <1>5, OutsideStep
<1> QED  BY <1>1, <1>2, <1>3, <1>4, <1>5

LEMMA FlightInvHolds == Spec => []FlightInv
BY InitFlightInv, NextFlightInv, PTL DEF Spec

----------------------------------------------------------------------------
(* Every caller of Resolver::resolve stays in a state the code has, always *)
(* finds a search to share or a future to insert, and goes on to Mastodon  *)
(* only with an id that some search or the row gave it.                    *)
THEOREM ResolverTyped == Spec => []TypeOK
<1>1. FlightInv => TypeOK
  OBVIOUS
<1> QED  BY <1>1, FlightInvHolds, PTL

(* However many callers join, finish, hang up and remove each other's      *)
(* searches, a completed search is in Resolver::flights only while some    *)
(* caller is about to remove it: no later caller is given its old answer.  *)
THEOREM NoFlightPinned == Spec => []NoPinnedFlight
<1>1. FlightInv => NoPinnedFlight
  OBVIOUS
<1> QED  BY <1>1, FlightInvHolds, PTL
=============================================================================
