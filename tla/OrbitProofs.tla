---------------------------- MODULE OrbitProofs ----------------------------
(* Proofs about Orbit: its type invariant, that engagements are folded in  *)
(* order and at most once, and that no cursor ever passes an engagement    *)
(* missing from its vector, for every set of rows and every batch size.    *)
EXTENDS Orbit, FiniteSetTheorems, TLAPS

\* The loops over the four kinds visit Kinds.
LEMMA KindOrderInKinds == \A i \in 1..4 : KindOrder[i] \in Kinds
BY DEF KindOrder, Kinds

\* The abstraction of the sorted batch only ever counts finite sets of rows.
LEMMA SubsetCardinality ==
    ASSUME NEW S \in SUBSET Rows
    PROVE  IsFiniteSet(S) /\ Cardinality(S) \in Nat
BY RowsAssumption, FS_Subset, FS_CardinalityType

\* Folding one more account keeps the stored table well typed.
LEMMA NewFoldsType ==
    ASSUME TypeOK, NEW a \in Accounts
    PROVE  /\ NewFolds(a) \subseteq Rows \X Nat
           /\ Cardinality(FoldingOf(a)) \in Nat
<1>1. FoldingOf(a) \subseteq Rows
  BY DEF TypeOK, FoldingOf, Folding
<1>2. Cardinality(FoldingOf(a)) \in Nat
  BY <1>1, SubsetCardinality
<1>3. ASSUME NEW r \in FoldingOf(a) PROVE r \in Rows /\ FoldAt(r) \in Nat
  <2>1. r \in Rows /\ r.account = a /\ vectors[a].count \in Nat
    BY <1>1 DEF FoldingOf, TypeOK
  <2>2. {s \in FoldingOf(r.account) : s = r \/ Before(s, r)} \subseteq Rows
    BY <1>1, <2>1
  <2>3. Cardinality({s \in FoldingOf(r.account) : s = r \/ Before(s, r)}) \in Nat
    BY <2>2, SubsetCardinality
  <2> QED  BY <2>1, <2>3 DEF FoldAt
<1>5. NewFolds(a) \subseteq Rows \X Nat
  BY <1>3 DEF NewFolds
<1> QED  BY <1>2, <1>5

----------------------------------------------------------------------------
(* Type correctness: every variable keeps its type through every step.     *)

Troubles == used \in 0..MaxDisruptions /\ faults \subseteq Disruptions

LEMMA InitTypeOK == Init => TypeOK
BY ConfigAssumption, FS_EmptySet
   DEF Init, TypeOK, Pcs, NoVector, Kinds

LEMMA NextTypeOK == TypeOK /\ [Next]_vars => TypeOK'
<1> SUFFICES ASSUME TypeOK, [Next]_vars PROVE TypeOK'
  OBVIOUS
<1> USE KindOrderInKinds DEF trouble, Troubles
<1>d. ASSUME NEW d, Disrupt(d) PROVE Troubles'
  BY <1>d, ConfigAssumption DEF Disrupt, TypeOK
<1>1. ASSUME NEW r \in Rows, Commit(r) PROVE TypeOK'
  BY <1>1, <1>d DEF Commit, TypeOK, stored, cycle
<1>2. CASE Start
  BY <1>2, <1>d DEF Start, TypeOK, stored, cycle, Pcs
<1>3. CASE WipeCursors
  BY <1>3 DEF WipeCursors, TypeOK, cycle, Pcs
<1>4. CASE WipeVectors
  <2>1. vectors' \in [Accounts -> [count : Nat, folds : SUBSET (Rows \X Nat)]]
    BY <1>4 DEF WipeVectors, NoVector
  <2> QED  BY <1>4, <2>1 DEF WipeVectors, TypeOK, cycle, Pcs
<1>5. CASE InitCursor
  <2> DEFINE k == KindOrder[next]
  <2>1. k \in Kinds
    BY DEF TypeOK
  <2>2. WindowStart(k) \subseteq Nat
    <3>1. {r.id : r \in Recent(k)} \subseteq Nat \ {0}
      BY RowsAssumption DEF Recent, Row, TypeOK
    <3> QED  BY <3>1 DEF WindowStart, Least
  <2>3. /\ cursors' \in [Kinds -> Nat \cup {NoCursor}]
        /\ base' \in [Kinds -> Nat] /\ Troubles'
    BY <1>5, <2>1, <2>2, <1>d DEF InitCursor, TypeOK
  <2>4. next' \in 1..4 /\ pc' \in Pcs
    BY <1>5 DEF InitCursor, TypeOK, Pcs
  <2> QED  BY <1>5, <2>3, <2>4 DEF InitCursor, TypeOK, cycle
<1>6. CASE LoadCursors
  <2>1. \A k \in Kinds : After(k) \in Nat
    BY DEF After, TypeOK
  <2> QED  BY <1>6, <2>1 DEF LoadCursors, TypeOK, stored, Pcs
<1>7. CASE Poll
  <2>1. \A k \in Kinds : Polled(k) \subseteq Rows
    BY DEF Polled, TypeOK
  <2> QED  BY <1>7, <2>1, <1>d DEF Poll, EmptyCycle, TypeOK, stored, Pcs
<1>8. CASE Embed
  <2>1. TextsOf(batch) \subseteq Texts
    BY RowsAssumption DEF TextsOf, TypeOK, Row
  <2> QED  BY <1>8, <2>1, <1>d DEF Embed, EmptyCycle, TypeOK, stored, Pcs
<1>9. CASE LoadVectors
  <2>1. {r.account : r \in Folding} \subseteq Accounts
    BY RowsAssumption DEF Folding, TypeOK, Row
  <2> QED  BY <1>9, <2>1, <1>d DEF LoadVectors, EmptyCycle, TypeOK, stored, Pcs
<1>10. ASSUME NEW a \in Accounts, Upsert(a) PROVE TypeOK'
  <2>1. vectors' \in [Accounts -> [count : Nat, folds : SUBSET (Rows \X Nat)]]
    BY <1>10, NewFoldsType DEF Upsert, TypeOK
  <2> QED  BY <1>10, <2>1, <1>d DEF Upsert, TypeOK, Pcs
<1>11. CASE SaveCursor
  <2> DEFINE k == KindOrder[next]
             processed == {r.id : r \in {s \in Folding : s.kind = k}}
  <2>1. processed \subseteq Nat
    BY RowsAssumption DEF Folding, TypeOK, Row
  <2>2. Greatest(processed) \subseteq Nat
    BY <2>1 DEF Greatest
  <2>3. cursors' \in [Kinds -> Nat \cup {NoCursor}] /\ Troubles'
    <3> HIDE DEF processed
    <3>1. \/ \E last \in Greatest(processed) :
                cursors' = [cursors EXCEPT ![k] = last] /\ UNCHANGED trouble
          \/ Disrupt("save") /\ UNCHANGED cursors
          \/ UNCHANGED <<cursors, trouble>>
      BY <1>11 DEF SaveCursor, Processed, processed
    <3> QED  BY <3>1, <2>2, <1>d DEF TypeOK
  <2> QED  BY <1>11, <2>3 DEF SaveCursor, EmptyCycle, TypeOK, cycle, Pcs
<1>12. CASE Stop
  BY <1>12, <1>d DEF Stop, TypeOK, stored, cycle, Pcs
<1>13. CASE Crash
  BY <1>13, <1>d DEF Crash, EmptyCycle, TypeOK, stored, Pcs
<1>14. CASE UNCHANGED vars
  BY <1>14 DEF vars, stored, cycle, TypeOK
<1> QED
  BY <1>1, <1>2, <1>3, <1>4, <1>5, <1>6, <1>7, <1>8, <1>9, <1>10, <1>11,
     <1>12, <1>13, <1>14 DEF Next, Work

(* Every variable of the worker and of its tables keeps its type.          *)
THEOREM TypeCorrect == Spec => []TypeOK
BY InitTypeOK, NextTypeOK, PTL DEF Spec

----------------------------------------------------------------------------
(* NoLoss.  Between the poll and the cursor write the claim rests on what  *)
(* the worker holds in memory: the batch leaves no visible row of a source *)
(* out below any row it contains, all of it is embedded, and by the time   *)
(* cursors are written all of it is folded.  A row that commits in order   *)
(* lands above the batch and above every cursor.                           *)

Lossless == faults \cap {"tei", "upsert", "late"} = {}

\* What has gone wrong once stays recorded.
LEMMA FaultsGrow == TypeOK /\ [Next]_vars => faults \subseteq faults'
<1> SUFFICES ASSUME TypeOK, [Next]_vars PROVE faults \subseteq faults'
  OBVIOUS
<1>1. ASSUME NEW d, Disrupt(d) PROVE faults \subseteq faults'
  BY <1>1 DEF Disrupt
<1> QED
  BY <1>1 DEF Next, Work, Commit, Start, WipeCursors, WipeVectors, InitCursor,
              LoadCursors, Poll, Embed, LoadVectors, Upsert, SaveCursor, Stop,
              Crash, vars, trouble

\* A cursor never leads its table, so a row committed in order is ahead of it.
CursorBehindTable ==
    \A k \in Kinds : cursors[k] # NoCursor =>
        \E s \in visible : s.table = TableOf(k) /\ cursors[k] <= s.id

\* Cursors only grow during a cycle.
FromBehind ==
    pc \in {"poll", "embed", "load", "upsert", "save"} =>
        \A k \in Kinds : from[k] <= After(k)

\* The batch holds everything between the loaded cursor and its own rows.
BatchClosed ==
    pc \in {"embed", "load", "upsert", "save"} =>
        \A r \in batch :
            /\ r \in visible /\ r.kind \in Kinds /\ from[r.kind] < r.id
            /\ \A s \in visible :
                  s.kind = r.kind /\ from[r.kind] < s.id /\ s.id <= r.id
                    => s \in batch

AllEmbedded ==
    pc \in {"load", "upsert", "save"} => \A r \in batch : r.text \in embedded

BatchFolded ==
    /\ pc = "upsert" => \A r \in batch : r.account \in todo \/ IsFolded(r)
    /\ pc = "save" => \A r \in batch : IsFolded(r)

\* --fresh drops the cursors before the vectors.
WipedFirst == pc = "wipeVectors" => \A k \in Kinds : cursors[k] = NoCursor

LossInv == /\ CursorBehindTable /\ PassedAreFolded /\ FromBehind /\ BatchClosed
           /\ AllEmbedded /\ BatchFolded /\ WipedFirst

\* LIMIT keeps a prefix: a row below one of the batch is in the batch.
LEMMA PolledClosed ==
    ASSUME TypeOK, NEW k \in Kinds, NEW r \in Polled(k), NEW s \in visible,
           s.kind = k, from[k] < s.id, s.id <= r.id
    PROVE  s \in Polled(k)
<1> DEFINE ahead == {x \in visible : x.kind = k /\ x.id > from[k]}
           upTo(y) == {x \in ahead : x.id <= y.id}
<1>1. ahead \subseteq Rows /\ r \in ahead /\ s \in ahead
  <2>1. s.id \in Nat /\ from[k] \in Nat
    BY RowsAssumption DEF TypeOK, Row
  <2> QED  BY <2>1 DEF Polled, TypeOK
<1>2. \A x \in ahead : x.id \in Nat
  BY <1>1, RowsAssumption DEF Row
<1>3. upTo(s) \subseteq upTo(r)
  BY <1>1, <1>2
<1>4. IsFiniteSet(upTo(r)) /\ Cardinality(upTo(r)) \in Nat
  <2>1. upTo(r) \in SUBSET Rows
    BY <1>1
  <2> QED  BY <2>1, SubsetCardinality
<1>5. Cardinality(upTo(s)) \in Nat
  <2>1. upTo(s) \in SUBSET Rows
    BY <1>1
  <2> QED  BY <2>1, SubsetCardinality
<1>6. Cardinality(upTo(s)) <= Cardinality(upTo(r))
  BY <1>3, <1>4, FS_Subset
<1>7. Cardinality(upTo(r)) <= BatchSize
  BY DEF Polled
<1>8. Cardinality(upTo(s)) <= BatchSize
  BY <1>4, <1>5, <1>6, <1>7, ConfigAssumption
<1> QED  BY <1>1, <1>8 DEF Polled

LEMMA InitLossInv == Init => LossInv
BY ConfigAssumption
   DEF Init, LossInv, CursorBehindTable, PassedAreFolded, FromBehind, BatchClosed,
       AllEmbedded, BatchFolded, WipedFirst

LEMMA CommitLossInv ==
    ASSUME TypeOK, LossInv, Lossless', NEW r \in Rows, Commit(r)
    PROVE  LossInv'
<1> USE RowsAssumption DEF Row
<1>1. /\ visible' = visible \cup {r} /\ r \notin visible
      /\ \A s \in visible : s.table = r.table => s.id < r.id
      /\ UNCHANGED <<cursors, vectors, base, pc, from, batch, embedded, todo>>
  BY DEF Commit, Disrupt, Lossless, stored, cycle
<1>2. CursorBehindTable'
  BY <1>1 DEF LossInv, CursorBehindTable
<1>3. PassedAreFolded'
  <2>1. ASSUME r.kind \in Kinds, cursors[r.kind] # NoCursor,
               r.id <= cursors[r.kind]
        PROVE  FALSE
    <3>1. PICK s \in visible : s.table = TableOf(r.kind) /\ cursors[r.kind] <= s.id
      BY <2>1 DEF LossInv, CursorBehindTable
    <3>2. s.id < r.id
      BY <1>1, <2>1, <3>1
    <3>3. s.id \in Nat /\ r.id \in Nat /\ cursors[r.kind] \in Nat
      BY <2>1 DEF TypeOK
    <3> QED  BY <2>1, <3>1, <3>2, <3>3
  <2> QED  BY <1>1, <2>1 DEF LossInv, PassedAreFolded, IsFolded
<1>4. FromBehind'
  BY <1>1 DEF LossInv, FromBehind, After
<1>5. BatchClosed'
  <2> SUFFICES ASSUME pc \in {"embed", "load", "upsert", "save"}, NEW b \in batch
               PROVE  /\ b \in visible' /\ b.kind \in Kinds /\ from[b.kind] < b.id
                      /\ \A s \in visible' :
                            s.kind = b.kind /\ from[b.kind] < s.id /\ s.id <= b.id
                              => s \in batch
    BY <1>1 DEF BatchClosed
  <2>1. b \in visible /\ b.kind \in Kinds /\ from[b.kind] < b.id
    BY DEF LossInv, BatchClosed
  <2>2. r.kind = b.kind => b.id < r.id
    BY <1>1, <2>1 DEF TypeOK
  <2>3. b.id \in Nat /\ r.id \in Nat
    BY <2>1 DEF TypeOK
  <2> QED  BY <1>1, <2>1, <2>2, <2>3 DEF LossInv, BatchClosed
<1>6. AllEmbedded' /\ BatchFolded' /\ WipedFirst'
  BY <1>1 DEF LossInv, AllEmbedded, BatchFolded, WipedFirst, IsFolded
<1> QED  BY <1>2, <1>3, <1>4, <1>5, <1>6 DEF LossInv

LEMMA InitCursorLossInv ==
    ASSUME TypeOK, LossInv, InitCursor
    PROVE  LossInv'
<1> DEFINE k == KindOrder[next]
<1>1. k \in Kinds
  BY KindOrderInKinds DEF TypeOK
<1>2. /\ pc' \in {"init", "idle"}
      /\ UNCHANGED <<visible, vectors, from, batch, embedded, todo>>
  BY DEF InitCursor, cycle
<1>3. \/ UNCHANGED <<cursors, base>>
      \/ \E start \in WindowStart(k) :
            /\ start > 0
            /\ cursors' = [cursors EXCEPT ![k] = start]
            /\ base' = [base EXCEPT ![k] = start]
  BY DEF InitCursor
<1>4. CASE UNCHANGED <<cursors, base>>
  BY <1>2, <1>4
     DEF LossInv, CursorBehindTable, PassedAreFolded, FromBehind, BatchClosed,
         AllEmbedded, BatchFolded, WipedFirst, IsFolded
<1>5. ASSUME NEW start \in WindowStart(k), start > 0,
             cursors' = [cursors EXCEPT ![k] = start],
             base' = [base EXCEPT ![k] = start]
      PROVE  LossInv'
  <2>1. PICK s \in visible : s.table = TableOf(k) /\ start = s.id - 1
    BY <1>5 DEF WindowStart, Least, Recent
  <2>2. s.id \in Nat
    BY RowsAssumption DEF TypeOK, Row
  <2>3. CursorBehindTable'
    BY <1>1, <1>2, <1>5, <2>1, <2>2 DEF LossInv, CursorBehindTable, TypeOK
  <2>4. PassedAreFolded'
    <3>1. ASSUME NEW r \in visible, r.kind = k
          PROVE  ~(base'[k] < r.id /\ r.id <= cursors'[k])
      BY <1>1, <1>5, <2>1, <2>2, <3>1, RowsAssumption DEF TypeOK, Row
    <3>2. \A j \in Kinds \ {k} : cursors'[j] = cursors[j] /\ base'[j] = base[j]
      BY <1>5 DEF TypeOK
    <3> QED  BY <1>2, <3>1, <3>2 DEF LossInv, PassedAreFolded, IsFolded
  <2> QED
    BY <1>2, <2>3, <2>4
       DEF LossInv, FromBehind, BatchClosed, AllEmbedded, BatchFolded, WipedFirst
<1> QED  BY <1>3, <1>4, <1>5

LEMMA PollLossInv ==
    ASSUME TypeOK, LossInv, Poll
    PROVE  LossInv'
<1>1. UNCHANGED <<visible, cursors, vectors, base>> /\ pc = "poll"
  BY DEF Poll, stored
<1>2. \/ pc' = "idle"
      \/ /\ pc' = "embed" /\ UNCHANGED from
         /\ \E failed \in SUBSET Kinds :
               batch' = UNION {Polled(k) : k \in Kinds \ failed}
  BY DEF Poll
<1>3. BatchClosed'
  <2> SUFFICES ASSUME NEW failed \in SUBSET Kinds, UNCHANGED from,
                      batch' = UNION {Polled(k) : k \in Kinds \ failed},
                      NEW r \in batch'
               PROVE  /\ r \in visible /\ r.kind \in Kinds /\ from[r.kind] < r.id
                      /\ \A s \in visible :
                            s.kind = r.kind /\ from[r.kind] < s.id /\ s.id <= r.id
                              => s \in batch'
    BY <1>1, <1>2 DEF BatchClosed
  <2>1. PICK k \in Kinds \ failed : r \in Polled(k)
    OBVIOUS
  <2>2. r \in visible /\ r.kind = k /\ from[k] < r.id
    <3>1. r \in visible /\ r.kind = k /\ r.id > from[k]
      BY <2>1 DEF Polled
    <3>2. r.id \in Nat /\ from[k] \in Nat
      BY <3>1, RowsAssumption DEF TypeOK, Row
    <3> QED  BY <3>1, <3>2
  <2>3. ASSUME NEW s \in visible, s.kind = k, from[k] < s.id, s.id <= r.id
        PROVE  s \in Polled(k)
    BY <2>1, <2>3, PolledClosed
  <2> QED  BY <2>1, <2>2, <2>3
<1>4. CursorBehindTable' /\ PassedAreFolded'
  BY <1>1 DEF LossInv, CursorBehindTable, PassedAreFolded, IsFolded
<1>5. FromBehind'
  BY <1>1, <1>2 DEF LossInv, FromBehind, After
<1>6. AllEmbedded' /\ BatchFolded' /\ WipedFirst'
  BY <1>2 DEF AllEmbedded, BatchFolded, WipedFirst
<1> QED  BY <1>3, <1>4, <1>5, <1>6 DEF LossInv

LEMMA EmbedLossInv ==
    ASSUME TypeOK, LossInv, Lossless', Embed
    PROVE  LossInv'
<1>1. UNCHANGED <<visible, cursors, vectors, base>> /\ pc = "embed"
  BY DEF Embed, stored
<1>2. \/ pc' = "idle"
      \/ /\ pc' = "load" /\ UNCHANGED <<from, batch>>
         /\ embedded' = TextsOf(batch)
  <2>1. PICK failed \in SUBSET {Chunk(t) : t \in TextsOf(batch)} :
          /\ failed # {} => Disrupt("tei")
          /\ \/ pc' = "idle"
             \/ /\ pc' = "load" /\ UNCHANGED <<from, batch>>
                /\ embedded' = {t \in TextsOf(batch) : Chunk(t) \notin failed}
    BY DEF Embed
  <2>2. failed = {}
    BY <2>1 DEF Lossless, Disrupt
  <2> QED  BY <2>1, <2>2
<1>3. AllEmbedded'
  BY <1>2 DEF AllEmbedded, TextsOf
<1>4. CursorBehindTable' /\ PassedAreFolded'
  BY <1>1 DEF LossInv, CursorBehindTable, PassedAreFolded, IsFolded
<1>5. FromBehind' /\ BatchClosed'
  BY <1>1, <1>2 DEF LossInv, FromBehind, BatchClosed, After
<1>6. BatchFolded' /\ WipedFirst'
  BY <1>2 DEF BatchFolded, WipedFirst
<1> QED  BY <1>3, <1>4, <1>5, <1>6 DEF LossInv

LEMMA LoadVectorsLossInv ==
    ASSUME TypeOK, LossInv, LoadVectors
    PROVE  LossInv'
<1>1. UNCHANGED <<visible, cursors, vectors, base>> /\ pc = "load"
  BY DEF LoadVectors, stored
<1>2. \/ pc' = "idle"
      \/ /\ pc' = "upsert" /\ UNCHANGED <<from, batch, embedded>>
         /\ todo' = {r.account : r \in Folding}
  BY DEF LoadVectors
<1>3. BatchFolded'
  BY <1>1, <1>2 DEF LossInv, AllEmbedded, BatchFolded, Folding
<1>4. CursorBehindTable' /\ PassedAreFolded'
  BY <1>1 DEF LossInv, CursorBehindTable, PassedAreFolded, IsFolded
<1>5. FromBehind' /\ BatchClosed' /\ AllEmbedded' /\ WipedFirst'
  BY <1>1, <1>2
     DEF LossInv, FromBehind, BatchClosed, AllEmbedded, WipedFirst, After
<1> QED  BY <1>3, <1>4, <1>5 DEF LossInv

LEMMA UpsertLossInv ==
    ASSUME TypeOK, LossInv, Lossless', NEW a \in Accounts, Upsert(a)
    PROVE  LossInv'
<1>1. /\ pc = "upsert" /\ pc' \in {"upsert", "save"}
      /\ pc' = "save" => todo' = {}
      /\ todo' = todo \ {a}
      /\ UNCHANGED <<visible, cursors, base, from, batch, embedded>>
  BY DEF Upsert
<1>2. vectors' = [vectors EXCEPT ![a] =
                    [count |-> vectors[a].count + Cardinality(FoldingOf(a)),
                     folds |-> vectors[a].folds \cup NewFolds(a)]]
  BY DEF Upsert, Disrupt, Lossless
<1>3. ASSUME NEW r \in Rows, IsFolded(r) PROVE IsFolded(r)'
  <2>1. r.account \in Accounts
    BY RowsAssumption DEF Row
  <2> QED  BY <1>2, <1>3, <2>1 DEF IsFolded, TypeOK
<1>4. ASSUME NEW r \in batch, r.account = a PROVE IsFolded(r)'
  <2>1. r \in FoldingOf(a)
    BY <1>1, <1>4 DEF LossInv, AllEmbedded, FoldingOf, Folding
  <2>2. PICK n : <<r, n>> \in NewFolds(a)
    BY <2>1 DEF NewFolds
  <2>3. <<r, n>> \in vectors'[r.account].folds
    BY <1>2, <1>4, <2>2 DEF TypeOK
  <2> QED  BY <2>3 DEF IsFolded
<1>5. BatchFolded'
  BY <1>1, <1>3, <1>4 DEF LossInv, BatchFolded, TypeOK
<1>6. PassedAreFolded'
  BY <1>1, <1>3 DEF LossInv, PassedAreFolded, TypeOK
<1>7. CursorBehindTable' /\ FromBehind' /\ BatchClosed' /\ AllEmbedded' /\ WipedFirst'
  BY <1>1 DEF LossInv, CursorBehindTable, FromBehind, BatchClosed,
              AllEmbedded, WipedFirst, After
<1> QED  BY <1>5, <1>6, <1>7 DEF LossInv

LEMMA SaveCursorLossInv ==
    ASSUME TypeOK, LossInv, SaveCursor
    PROVE  LossInv'
<1> DEFINE k == KindOrder[next]
           processed == {r.id : r \in {s \in Folding : s.kind = k}}
<1>1. k \in Kinds
  BY KindOrderInKinds DEF TypeOK
<1>2. /\ UNCHANGED <<visible, vectors, base>> /\ pc = "save"
      /\ pc' = "idle" \/ (pc' = "save" /\ UNCHANGED <<from, batch, embedded, todo>>)
  BY DEF SaveCursor, cycle
<1>3. \/ UNCHANGED cursors
      \/ \E last \in Greatest(processed) : cursors' = [cursors EXCEPT ![k] = last]
  BY DEF SaveCursor, Processed
<1>4. BatchFolded' /\ AllEmbedded' /\ WipedFirst' /\ BatchClosed'
  BY <1>2 DEF LossInv, BatchFolded, AllEmbedded, WipedFirst, BatchClosed, IsFolded
<1>5. CASE UNCHANGED cursors
  BY <1>2, <1>4, <1>5
     DEF LossInv, CursorBehindTable, PassedAreFolded, FromBehind, After, IsFolded
<1>6. ASSUME NEW last \in Greatest(processed),
             cursors' = [cursors EXCEPT ![k] = last]
      PROVE  LossInv'
  <2>1. PICK m \in batch : m.kind = k /\ m.id = last /\ m \in visible
    BY <1>2 DEF Greatest, Folding, LossInv, BatchClosed
  <2>2. /\ m.id \in Nat /\ m.table = TableOf(k)
        /\ \A s \in visible : s.id \in Nat \ {0}
    BY <1>1, <2>1, RowsAssumption DEF TypeOK, Row
  <2>3. \A j \in Kinds : cursors'[j] = IF j = k THEN last ELSE cursors[j]
    BY <1>1, <1>6 DEF TypeOK
  <2>4. CursorBehindTable'
    BY <1>2, <2>1, <2>2, <2>3 DEF LossInv, CursorBehindTable
  <2>5. ASSUME NEW s \in visible, s.kind = k, base[k] < s.id, s.id <= last
        PROVE  IsFolded(s)
    <3>1. CASE from[k] < s.id
      <4>1. s \in batch
        BY <1>2, <2>1, <2>5, <3>1 DEF LossInv, BatchClosed
      <4> QED  BY <1>2, <4>1 DEF LossInv, BatchFolded
    <3>2. CASE ~(from[k] < s.id)
      <4>1. from[k] <= After(k) /\ from[k] \in Nat
        BY <1>1, <1>2 DEF LossInv, FromBehind, TypeOK
      <4>2. s.id <= After(k) /\ s.id \in Nat \ {0} /\ After(k) \in Nat
        BY <1>1, <2>2, <3>2, <4>1 DEF After, TypeOK
      <4>3. cursors[k] # NoCursor /\ s.id <= cursors[k]
        BY <4>2 DEF After
      <4> QED  BY <1>1, <2>5, <4>3 DEF LossInv, PassedAreFolded
    <3> QED  BY <3>1, <3>2
  <2>6. PassedAreFolded'
    BY <1>2, <2>3, <2>5 DEF LossInv, PassedAreFolded, IsFolded
  <2>7. FromBehind'
    <3>1. from[k] <= last
      BY <1>1, <1>2, <2>1, <2>2 DEF LossInv, BatchClosed, TypeOK
    <3>2. \A j \in Kinds : After(j)' = IF j = k THEN last ELSE After(j)
      BY <2>1, <2>2, <2>3, ConfigAssumption DEF After
    <3>3. \A j \in Kinds : from[j] <= After(j)'
      BY <1>2, <3>1, <3>2 DEF LossInv, FromBehind
    <3> QED  BY <1>2, <3>3 DEF FromBehind
  <2> QED  BY <1>4, <2>4, <2>6, <2>7 DEF LossInv
<1> QED  BY <1>3, <1>5, <1>6

LEMMA NextLossInv ==
    ASSUME TypeOK, LossInv, Lossless', [Next]_vars
    PROVE  LossInv'
<1>1. ASSUME NEW r \in Rows, Commit(r) PROVE LossInv'
  BY <1>1, CommitLossInv
<1>2. CASE Start
  BY <1>2 DEF Start, stored, cycle, LossInv, CursorBehindTable, PassedAreFolded, FromBehind,
              BatchClosed, AllEmbedded, BatchFolded, WipedFirst, IsFolded
<1>3. CASE WipeCursors
  BY <1>3 DEF WipeCursors, cycle, LossInv, CursorBehindTable, PassedAreFolded, FromBehind,
              BatchClosed, AllEmbedded, BatchFolded, WipedFirst, TypeOK
<1>4. CASE WipeVectors
  BY <1>4 DEF WipeVectors, cycle, LossInv, CursorBehindTable, PassedAreFolded, FromBehind,
              BatchClosed, AllEmbedded, BatchFolded, WipedFirst
<1>5. CASE InitCursor
  BY <1>5, InitCursorLossInv
<1>6. CASE LoadCursors
  <2>1. \A k \in Kinds : After(k) \in Nat
    BY DEF After, TypeOK
  <2> QED
    BY <1>6, <2>1
       DEF LoadCursors, stored, LossInv, CursorBehindTable, PassedAreFolded, FromBehind,
           BatchClosed, AllEmbedded, BatchFolded, WipedFirst, IsFolded, After
<1>7. CASE Poll
  BY <1>7, PollLossInv
<1>8. CASE Embed
  BY <1>8, EmbedLossInv
<1>9. CASE LoadVectors
  BY <1>9, LoadVectorsLossInv
<1>10. ASSUME NEW a \in Accounts, Upsert(a) PROVE LossInv'
  BY <1>10, UpsertLossInv
<1>11. CASE SaveCursor
  BY <1>11, SaveCursorLossInv
<1>12. CASE Stop
  BY <1>12 DEF Stop, stored, cycle, LossInv, CursorBehindTable, PassedAreFolded, FromBehind,
               BatchClosed, AllEmbedded, BatchFolded, WipedFirst, IsFolded
<1>13. CASE Crash
  BY <1>13 DEF Crash, stored, LossInv, CursorBehindTable, PassedAreFolded, FromBehind,
               BatchClosed, AllEmbedded, BatchFolded, WipedFirst, IsFolded
<1>14. CASE UNCHANGED vars
  BY <1>14 DEF vars, stored, cycle, LossInv, CursorBehindTable, PassedAreFolded, FromBehind,
               BatchClosed, AllEmbedded, BatchFolded, WipedFirst, IsFolded, After
<1> QED
  BY <1>1, <1>2, <1>3, <1>4, <1>5, <1>6, <1>7, <1>8, <1>9, <1>10, <1>11,
     <1>12, <1>13, <1>14 DEF Next, Work

(* No cursor passes an engagement that is missing from its vector, through *)
(* crashes, restarts, wipes, failing polls and failing cursor writes; only *)
(* a failed embedding, a failed upsert or a late commit can lose one.      *)
THEOREM NothingLost == Spec => []NoLoss
<1>1. Init => TypeOK /\ (Lossless => LossInv)
  BY InitTypeOK, InitLossInv
<1>2. TypeOK /\ (Lossless => LossInv) /\ [Next]_vars
        => (TypeOK /\ (Lossless => LossInv))'
  <2> SUFFICES ASSUME TypeOK, Lossless => LossInv, [Next]_vars, Lossless'
               PROVE  LossInv'
    BY NextTypeOK
  <2>1. Lossless
    BY FaultsGrow DEF Lossless
  <2> QED  BY <2>1, NextLossInv
<1>3. (Lossless => LossInv) => NoLoss
  BY DEF LossInv, Lossless, NoLoss
<1> QED  BY <1>1, <1>2, <1>3, PTL DEF Spec

----------------------------------------------------------------------------
(* AtMostOnce.  A folded engagement must not be polled again: it lies at   *)
(* or below the cursor of its source, or the cycle that folded it has that *)
(* cursor still to write.  The batch, in turn, lies above the cursors.     *)

Unbroken == faults \cap {"crash", "save"} = {}

\* The sources whose cursor the current cycle has not written yet.
Unsaved == {KindOrder[i] : i \in next..4}

FoldsOfAccount ==
    \A a \in Accounts : \A f \in vectors[a].folds :
        f[1].account = a /\ f[1].kind \in Kinds

FoldedPassed ==
    pc # "wipeVectors" =>
        \A a \in Accounts : \A f \in vectors[a].folds :
            \/ f[1].id <= After(f[1].kind)
            \/ pc = "upsert" /\ f[1] \in Folding /\ a \notin todo
            \/ pc = "save" /\ f[1] \in Folding /\ f[1].kind \in Unsaved

LoadedCursors == pc = "poll" => \A k \in Kinds : from[k] = After(k)

BatchAhead ==
    pc \in {"embed", "load", "upsert", "save"} =>
        \A r \in batch :
            /\ r.kind \in Kinds
            /\ pc = "save" => r.kind \in Unsaved \/ r \notin Folding
                               \/ r.id <= After(r.kind)
            /\ pc # "save" \/ r.kind \in Unsaved => After(r.kind) < r.id

FoldedOnce ==
    \A a \in Accounts : \A f, g \in vectors[a].folds : f[1] = g[1] => f = g

OnceInv == /\ FoldsOfAccount /\ FoldedOnce /\ FoldedPassed
           /\ LoadedCursors /\ BatchAhead

LEMMA InitOnceInv == Init => OnceInv
BY DEF Init, NoVector, OnceInv, FoldsOfAccount, FoldedOnce, FoldedPassed,
       LoadedCursors, BatchAhead

\* Reaching position 1 of the loop, every source is unsaved.
LEMMA AllUnsaved == ASSUME next' = 1 PROVE Unsaved' = Kinds
<1>1. 1..4 = {1, 2, 3, 4}
  OBVIOUS
<1> QED  BY <1>1 DEF Unsaved, KindOrder, Kinds

\* One turn of the loop removes exactly its own source.
LEMMA OneSaved ==
    ASSUME next \in 1..4
    PROVE  /\ KindOrder[next] \in Unsaved /\ Unsaved \subseteq Kinds
           /\ next = 4 => Unsaved = {KindOrder[next]}
           /\ next' = next + 1 => Unsaved' = Unsaved \ {KindOrder[next]}
<1>1. /\ 1..4 = {1, 2, 3, 4} /\ 2..4 = {2, 3, 4} /\ 3..4 = {3, 4}
      /\ 4..4 = {4} /\ 5..4 = {}
  OBVIOUS
<1>2. \/ next = 1 \/ next = 2 \/ next = 3 \/ next = 4
  OBVIOUS
<1>3. CASE next = 1
  BY <1>1, <1>3 DEF Unsaved, KindOrder, Kinds
<1>4. CASE next = 2
  BY <1>1, <1>4 DEF Unsaved, KindOrder, Kinds
<1>5. CASE next = 3
  BY <1>1, <1>5 DEF Unsaved, KindOrder, Kinds
<1>6. CASE next = 4
  BY <1>1, <1>6 DEF Unsaved, KindOrder, Kinds
<1> QED  BY <1>2, <1>3, <1>4, <1>5, <1>6

LEMMA InitCursorOnceInv ==
    ASSUME TypeOK, OnceInv, InitCursor
    PROVE  OnceInv'
<1> DEFINE k == KindOrder[next]
<1>1. k \in Kinds
  BY KindOrderInKinds DEF TypeOK
<1>2. /\ pc = "init" /\ pc' \in {"init", "idle"}
      /\ UNCHANGED <<vectors, from, batch, embedded, todo>>
      /\ \/ cursors' = cursors
         \/ /\ cursors[k] = NoCursor
            /\ \A j \in Kinds \ {k} : cursors'[j] = cursors[j]
  BY <1>1 DEF InitCursor, cycle, TypeOK
<1>3. ASSUME NEW a \in Accounts, NEW f \in vectors[a].folds
      PROVE  f[1].id <= After(f[1].kind)'
  <2>1. f[1].id <= After(f[1].kind) /\ f[1].kind \in Kinds
    BY <1>2 DEF OnceInv, FoldedPassed, FoldsOfAccount
  <2>2. f[1].id \in Nat \ {0}
    BY RowsAssumption DEF TypeOK, Row
  <2> QED  BY <1>2, <2>1, <2>2 DEF After
<1> QED
  BY <1>2, <1>3 DEF OnceInv, FoldsOfAccount, FoldedOnce, FoldedPassed,
                    LoadedCursors, BatchAhead

LEMMA PollOnceInv ==
    ASSUME TypeOK, OnceInv, Poll
    PROVE  OnceInv'
<1>1. UNCHANGED <<cursors, vectors>> /\ pc = "poll" /\ pc' \in {"idle", "embed"}
  BY DEF Poll, stored
<1>2. BatchAhead'
  <2> SUFFICES ASSUME pc' = "embed", NEW r \in batch'
               PROVE  r.kind \in Kinds /\ After(r.kind) < r.id
    BY <1>1 DEF BatchAhead, After
  <2>1. PICK failed \in SUBSET Kinds :
               batch' = UNION {Polled(k) : k \in Kinds \ failed}
    BY DEF Poll
  <2>2. PICK k \in Kinds : r \in Polled(k)
    BY <2>1
  <2>3. r \in visible /\ r.kind = k /\ r.id > from[k]
    BY <2>2 DEF Polled
  <2>4. r.id \in Nat /\ from[k] \in Nat /\ from[k] = After(k)
    BY <1>1, <2>3, RowsAssumption DEF TypeOK, Row, OnceInv, LoadedCursors
  <2> QED  BY <2>3, <2>4
<1> QED
  BY <1>1, <1>2 DEF OnceInv, FoldsOfAccount, FoldedOnce, FoldedPassed,
                    LoadedCursors, After

LEMMA UpsertOnceInv ==
    ASSUME TypeOK, OnceInv, NEW a \in Accounts, Upsert(a)
    PROVE  OnceInv'
<1>1. /\ pc = "upsert" /\ pc' \in {"upsert", "save"} /\ a \in todo
      /\ pc' = "save" => todo' = {}
      /\ todo' = todo \ {a} /\ next' = 1
      /\ UNCHANGED <<cursors, from, batch, embedded>>
  BY DEF Upsert
<1>2. /\ \A b \in Accounts \ {a} : vectors'[b].folds = vectors[b].folds
      /\ \/ vectors'[a].folds = vectors[a].folds
         \/ vectors'[a].folds = vectors[a].folds \cup NewFolds(a)
  BY DEF Upsert, TypeOK
<1>3. \A f \in NewFolds(a) : f[1] \in FoldingOf(a)
  BY DEF NewFolds
<1>4. \A f \in vectors[a].folds : f[1] \notin FoldingOf(a)
  <2> SUFFICES ASSUME NEW f \in vectors[a].folds, f[1] \in FoldingOf(a)
               PROVE  FALSE
    OBVIOUS
  <2>1. f[1] \in batch
    BY DEF FoldingOf, Folding
  <2>2. f[1].kind \in Kinds /\ After(f[1].kind) < f[1].id
    BY <1>1, <2>1 DEF OnceInv, BatchAhead
  <2>3. f[1].id <= After(f[1].kind)
    BY <1>1 DEF OnceInv, FoldedPassed
  <2>4. f[1].id \in Nat /\ After(f[1].kind) \in Nat
    BY <2>2, RowsAssumption DEF TypeOK, Row, After
  <2> QED  BY <2>2, <2>3, <2>4
<1>5. Unsaved' = Kinds
  BY <1>1, AllUnsaved
<1>6. FoldsOfAccount'
  <2>1. \A r \in FoldingOf(a) : r.account = a /\ r.kind \in Kinds
    BY <1>1 DEF OnceInv, BatchAhead, FoldingOf, Folding
  <2> QED  BY <1>2, <1>3, <2>1 DEF OnceInv, FoldsOfAccount
<1>7. FoldedOnce'
  <2>1. \A f, g \in NewFolds(a) : f[1] = g[1] => f = g
    BY DEF NewFolds
  <2>2. ASSUME NEW f \in vectors'[a].folds, NEW g \in vectors'[a].folds, f[1] = g[1]
        PROVE  f = g
    BY <1>2, <1>3, <1>4, <2>1, <2>2 DEF OnceInv, FoldedOnce
  <2> QED  BY <1>2, <2>2 DEF OnceInv, FoldedOnce
<1>8. FoldedPassed'
  <2> SUFFICES ASSUME NEW b \in Accounts, NEW f \in vectors'[b].folds
               PROVE  \/ f[1].id <= After(f[1].kind)
                      \/ pc' = "upsert" /\ f[1] \in Folding /\ b \notin todo'
                      \/ pc' = "save" /\ f[1] \in Folding /\ f[1].kind \in Kinds
    BY <1>1, <1>5 DEF FoldedPassed, After, Folding
  <2>1. f[1].kind \in Kinds
    BY <1>6 DEF FoldsOfAccount
  <2>2. CASE f \in vectors[b].folds
    BY <1>1, <2>1, <2>2 DEF OnceInv, FoldedPassed
  <2>3. CASE f \notin vectors[b].folds
    <3>1. b = a /\ f[1] \in Folding
      BY <1>2, <1>3, <2>3 DEF FoldingOf
    <3> QED  BY <1>1, <2>1, <3>1
  <2> QED  BY <2>2, <2>3
<1>9. LoadedCursors' /\ BatchAhead'
  BY <1>1, <1>5 DEF OnceInv, LoadedCursors, BatchAhead, After
<1> QED  BY <1>6, <1>7, <1>8, <1>9 DEF OnceInv

LEMMA SaveCursorOnceInv ==
    ASSUME TypeOK, OnceInv, Unbroken', SaveCursor
    PROVE  OnceInv'
<1>k. PICK k \in Kinds : k = KindOrder[next]
  BY KindOrderInKinds DEF TypeOK
<1> DEFINE processed == {r.id : r \in {s \in Folding : s.kind = k}}
<1>1. /\ pc = "save" /\ UNCHANGED vectors /\ next \in 1..4
      /\ \/ next = 4 /\ pc' = "idle"
         \/ next # 4 /\ next' = next + 1 /\ pc' = "save"
            /\ UNCHANGED <<batch, embedded>>
  BY DEF SaveCursor, cycle, TypeOK
<1>2. k \in Kinds /\ k \in Unsaved /\ Unsaved \subseteq Kinds
  BY <1>k, <1>1, OneSaved
<1>3. \A r \in batch : r.id \in Nat /\ r.kind \in Kinds
                       /\ (r.kind = k => After(k) < r.id)
  BY <1>1, <1>2, RowsAssumption DEF TypeOK, Row, OnceInv, BatchAhead
<1>4. \A j \in Kinds : After(j) \in Nat
  BY DEF After, TypeOK
<1>5. /\ \A j \in Kinds \ {k} : After(j)' = After(j)
      /\ \A r \in Folding : r.kind = k => r.id <= After(k)'
      /\ After(k) <= After(k)' /\ After(k)' \in Nat
  <2>1. \/ \E last \in Greatest(processed) : cursors' = [cursors EXCEPT ![k] = last]
        \/ processed = {} /\ UNCHANGED cursors
    BY <1>k DEF SaveCursor, Processed, Disrupt, Unbroken
  <2>2. CASE processed = {} /\ UNCHANGED cursors
    BY <1>2, <1>4, <2>2 DEF After
  <2>3. ASSUME NEW last \in Greatest(processed),
               cursors' = [cursors EXCEPT ![k] = last]
        PROVE  <1>5!1 /\ <1>5!2 /\ <1>5!3
    <3>1. PICK m \in Folding : m.kind = k /\ m.id = last
      BY DEF Greatest
    <3>2. last \in Nat /\ After(k) < last
      BY <1>3, <3>1 DEF Folding
    <3>3. cursors'[k] = last /\ \A j \in Kinds \ {k} : cursors'[j] = cursors[j]
      BY <1>2, <2>3 DEF TypeOK
    <3>4. After(k)' = last
      BY <3>2, <3>3, ConfigAssumption DEF After
    <3>5. \A r \in Folding : r.kind = k => r.id <= last
      BY DEF Greatest
    <3> QED  BY <1>2, <1>4, <3>2, <3>3, <3>4, <3>5 DEF After
  <2> QED  BY <2>1, <2>2, <2>3
<1>6. next # 4 => Unsaved' = Unsaved \ {k}
  BY <1>k, <1>1, OneSaved
<1>7. next = 4 => Unsaved = {k}
  BY <1>k, <1>1, OneSaved
<1>8. FoldedPassed'
  <2> SUFFICES ASSUME NEW a \in Accounts, NEW f \in vectors[a].folds
               PROVE  \/ (f[1].id <= After(f[1].kind))'
                      \/ next # 4 /\ f[1] \in Folding /\ f[1].kind \in Unsaved \ {k}
    BY <1>1, <1>6 DEF FoldedPassed, Folding
  <2>1. f[1].kind \in Kinds /\ f[1].id \in Nat
    BY RowsAssumption DEF TypeOK, Row, OnceInv, FoldsOfAccount
  <2>2. CASE f[1].id <= After(f[1].kind)
    <3>1. PICK j \in Kinds : j = f[1].kind
      BY <2>1
    <3>2. After(j) \in Nat /\ After(j)' \in Nat /\ After(j) <= After(j)'
      BY <1>4, <1>5
    <3> QED  BY <2>1, <2>2, <3>1, <3>2
  <2>3. CASE f[1] \in Folding /\ f[1].kind \in Unsaved
    BY <1>5, <1>7, <2>3
  <2> QED  BY <1>1, <2>2, <2>3 DEF OnceInv, FoldedPassed
<1>9. BatchAhead'
  <2>1. CASE next = 4
    BY <1>1, <2>1 DEF BatchAhead
  <2>2. CASE next # 4
    <3>1. /\ pc' = "save" /\ batch' = batch /\ Folding' = Folding
          /\ Unsaved' = Unsaved \ {k}
      BY <1>1, <1>6, <2>2 DEF Folding
    <3>2. ASSUME NEW r \in batch
          PROVE  /\ r.kind \in Kinds
                 /\ r.kind \in Unsaved' \/ r \notin Folding'
                    \/ r.id <= After(r.kind)'
                 /\ r.kind \in Unsaved' => After(r.kind)' < r.id
      <4>1. /\ r.kind \in Kinds
            /\ r.kind \in Unsaved \/ r \notin Folding \/ r.id <= After(r.kind)
            /\ r.kind \in Unsaved => After(r.kind) < r.id
        BY <1>1 DEF OnceInv, BatchAhead
      <4>2. PICK j \in Kinds : j = r.kind
        BY <4>1
      <4> QED  BY <1>3, <1>5, <3>1, <4>1, <4>2
    <3> QED  BY <3>1, <3>2 DEF BatchAhead
  <2> QED  BY <2>1, <2>2
<1>10. FoldsOfAccount' /\ FoldedOnce' /\ LoadedCursors'
  BY <1>1 DEF OnceInv, FoldsOfAccount, FoldedOnce, LoadedCursors
<1> QED  BY <1>8, <1>9, <1>10 DEF OnceInv

LEMMA NextOnceInv ==
    ASSUME TypeOK, OnceInv, Unbroken', [Next]_vars
    PROVE  OnceInv'
<1> USE DEF OnceInv, FoldsOfAccount, FoldedOnce, FoldedPassed, LoadedCursors,
            BatchAhead, After
<1>1. ASSUME NEW r \in Rows, Commit(r) PROVE OnceInv'
  BY <1>1 DEF Commit, stored, cycle, Folding, Unsaved
<1>2. CASE Start
  BY <1>2 DEF Start, stored, cycle
<1>3. CASE WipeCursors
  BY <1>3 DEF WipeCursors, cycle
<1>4. CASE WipeVectors
  BY <1>4 DEF WipeVectors, NoVector, cycle
<1>5. CASE InitCursor
  BY <1>5, InitCursorOnceInv
<1>6. CASE LoadCursors
  BY <1>6 DEF LoadCursors, stored
<1>7. CASE Poll
  BY <1>7, PollOnceInv
<1>8. CASE Embed
  BY <1>8 DEF Embed, stored
<1>9. CASE LoadVectors
  BY <1>9 DEF LoadVectors, stored
<1>10. ASSUME NEW a \in Accounts, Upsert(a) PROVE OnceInv'
  BY <1>10, UpsertOnceInv
<1>11. CASE SaveCursor
  BY <1>11, SaveCursorOnceInv
<1>12. CASE Stop
  BY <1>12 DEF Stop, stored, cycle
<1>13. CASE Crash
  BY <1>13 DEF Crash, Disrupt, Unbroken
<1>14. CASE UNCHANGED vars
  BY <1>14 DEF vars, stored, cycle, Folding, Unsaved
<1> QED
  BY <1>1, <1>2, <1>3, <1>4, <1>5, <1>6, <1>7, <1>8, <1>9, <1>10, <1>11,
     <1>12, <1>13, <1>14 DEF Next, Work

(* Unless the process dies or a cursor write fails, no engagement is ever  *)
(* folded twice into a stored vector, whatever else fails.                 *)
THEOREM FoldedAtMostOnce == Spec => []AtMostOnce
<1>1. Init => TypeOK /\ (Unbroken => OnceInv)
  BY InitTypeOK, InitOnceInv
<1>2. TypeOK /\ (Unbroken => OnceInv) /\ [Next]_vars
        => (TypeOK /\ (Unbroken => OnceInv))'
  <2> SUFFICES ASSUME TypeOK, Unbroken => OnceInv, [Next]_vars, Unbroken'
               PROVE  OnceInv'
    BY NextTypeOK
  <2>1. Unbroken
    BY FaultsGrow DEF Unbroken
  <2> QED  BY <2>1, NextOnceInv
<1>3. (Unbroken => OnceInv) => AtMostOnce
  BY DEF OnceInv, FoldedOnce, Unbroken, AtMostOnce
<1> QED  BY <1>1, <1>2, <1>3, PTL DEF Spec
----------------------------------------------------------------------------
(* CursorAtRow.  A cursor is written together with its base, or from a row *)
(* of the batch, and what is in the batch is visible.                      *)

BatchVisible == pc \in {"embed", "load", "upsert", "save"} => batch \subseteq visible
CursorInv == BatchVisible /\ CursorAtRow

LEMMA SaveCursorAtRow ==
    ASSUME TypeOK, CursorInv, SaveCursor
    PROVE  CursorInv'
<1>k. PICK k \in Kinds : k = KindOrder[next]
  BY KindOrderInKinds DEF TypeOK
<1>1. /\ pc = "save" /\ UNCHANGED <<visible, base>>
      /\ pc' = "idle" \/ UNCHANGED batch
  BY DEF SaveCursor, cycle
<1>2. \/ UNCHANGED cursors
      \/ \E last \in Greatest(Processed(k)) : cursors' = [cursors EXCEPT ![k] = last]
  BY <1>k DEF SaveCursor
<1>3. ASSUME NEW last \in Greatest(Processed(k)),
             cursors' = [cursors EXCEPT ![k] = last]
      PROVE  CursorAtRow'
  <2>1. PICK r \in batch : r.kind = k /\ r.id = last
    BY DEF Greatest, Processed, Folding
  <2>2. r \in visible
    BY <1>1 DEF CursorInv, BatchVisible
  <2>3. /\ cursors'[k] = last
        /\ \A j \in Kinds \ {k} : cursors'[j] = cursors[j]
    BY <1>3 DEF TypeOK
  <2> QED  BY <1>1, <2>1, <2>2, <2>3 DEF CursorInv, CursorAtRow
<1>4. CursorAtRow'
  BY <1>1, <1>2, <1>3 DEF CursorInv, CursorAtRow
<1> QED  BY <1>1, <1>4 DEF CursorInv, BatchVisible

LEMMA NextCursorInv ==
    ASSUME TypeOK, CursorInv, [Next]_vars
    PROVE  CursorInv'
<1> USE DEF CursorInv, BatchVisible, CursorAtRow
<1>1. ASSUME NEW r \in Rows, Commit(r) PROVE CursorInv'
  BY <1>1 DEF Commit, stored, cycle
<1>2. CASE Start
  BY <1>2 DEF Start, stored
<1>3. CASE WipeCursors
  BY <1>3 DEF WipeCursors
<1>4. CASE WipeVectors
  BY <1>4 DEF WipeVectors
<1>5. CASE InitCursor
  <2>1. PICK k \in Kinds : k = KindOrder[next]
    BY KindOrderInKinds DEF TypeOK
  <2>2. \/ UNCHANGED <<cursors, base>>
        \/ /\ cursors'[k] = base'[k]
           /\ \A j \in Kinds \ {k} : cursors'[j] = cursors[j] /\ base'[j] = base[j]
    BY <1>5, <2>1 DEF InitCursor, TypeOK
  <2>3. UNCHANGED visible /\ pc' \in {"init", "idle"}
    BY <1>5 DEF InitCursor
  <2> QED  BY <2>2, <2>3
<1>6. CASE LoadCursors
  BY <1>6 DEF LoadCursors, stored
<1>7. CASE Poll
  <2>1. \A k \in Kinds : Polled(k) \subseteq visible
    BY DEF Polled
  <2> QED  BY <1>7, <2>1 DEF Poll, stored
<1>8. CASE Embed
  BY <1>8 DEF Embed, stored
<1>9. CASE LoadVectors
  BY <1>9 DEF LoadVectors, stored
<1>10. ASSUME NEW a \in Accounts, Upsert(a) PROVE CursorInv'
  BY <1>10 DEF Upsert
<1>11. CASE SaveCursor
  BY <1>11, SaveCursorAtRow
<1>12. CASE Stop
  BY <1>12 DEF Stop, stored
<1>13. CASE Crash
  BY <1>13 DEF Crash, stored
<1>14. CASE UNCHANGED vars
  BY <1>14 DEF vars, stored, cycle
<1> QED
  BY <1>1, <1>2, <1>3, <1>4, <1>5, <1>6, <1>7, <1>8, <1>9, <1>10, <1>11,
     <1>12, <1>13, <1>14 DEF Next, Work

(* CursorAtRow: whatever fails, a cursor that has moved past its start     *)
(* stands at a row of its own source.                                      *)
THEOREM ResumedAtRow == Spec => []CursorAtRow
<1>1. Init => CursorInv
  BY DEF Init, CursorInv, BatchVisible, CursorAtRow
<1>2. TypeOK /\ CursorInv /\ [Next]_vars => CursorInv'
  BY NextCursorInv
<1>3. CursorInv => CursorAtRow
  BY DEF CursorInv
<1> QED  BY InitTypeOK, NextTypeOK, <1>1, <1>2, <1>3, PTL DEF Spec

----------------------------------------------------------------------------
(* FoldOrder.  The place of a fold counts the folds before it: what is     *)
(* already in the vector, then the rows of the batch that the sort puts    *)
(* before it.  A row of the batch lies above its cursor and what the       *)
(* vector holds of its source below (OnceInv), so both parts of the count  *)
(* follow the ids.                                                         *)

CountedFolds ==
    \A a \in Accounts : \A f \in vectors[a].folds : f[2] <= vectors[a].count

OrderedFolds ==
    \A a \in Accounts : \A f, g \in vectors[a].folds :
        f[1].kind = g[1].kind /\ f[1].id < g[1].id => f[2] < g[2]

LEMMA KindIndexType == \A k \in Kinds : KindIndex(k) \in 1..4
<1>1. \A k \in Kinds : \E i \in 1..4 : KindOrder[i] = k
  BY DEF Kinds, KindOrder
<1> QED  BY <1>1 DEF KindIndex

\* The sort of the batch keeps the order of the ids of one source.
LEMMA SortFollowsIds ==
    ASSUME IdsFollowTime, NEW r \in Rows, NEW s \in Rows,
           r.kind \in Kinds, r.kind = s.kind, r.id < s.id
    PROVE  /\ r # s /\ Before(r, s) /\ ~Before(s, r)
           /\ \A t \in Rows : t.kind \in Kinds /\ Before(t, r) => Before(t, s)
<1>1. /\ r.at \in Nat /\ s.at \in Nat /\ r.id \in Nat /\ s.id \in Nat /\ r.at <= s.at
      /\ KindIndex(r.kind) \in 1..4 /\ KindIndex(r.kind) = KindIndex(s.kind)
  BY KindIndexType, RowsAssumption DEF Row, IdsFollowTime
<1>2. r # s /\ Before(r, s) /\ ~Before(s, r)
  BY <1>1 DEF Before
<1>3. ASSUME NEW t \in Rows, t.kind \in Kinds, Before(t, r) PROVE Before(t, s)
  <2>1. t.at \in Nat /\ t.id \in Nat /\ KindIndex(t.kind) \in 1..4
    BY <1>3, KindIndexType, RowsAssumption DEF Row
  <2> QED  BY <1>1, <1>3, <2>1 DEF Before
<1> QED  BY <1>2, <1>3

\* The new folds of an account come after what was counted, in the sorted order.
LEMMA FoldsFollowIds ==
    ASSUME TypeOK, OnceInv, pc = "upsert", NEW a \in Accounts
    PROVE  /\ \A f \in NewFolds(a) :
                 /\ f[1] \in FoldingOf(a)
                 /\ vectors[a].count < f[2]
                 /\ f[2] <= vectors[a].count + Cardinality(FoldingOf(a))
           /\ IdsFollowTime => \A f, g \in NewFolds(a) :
                 f[1].kind = g[1].kind /\ f[1].id < g[1].id => f[2] < g[2]
<1> DEFINE F == FoldingOf(a)
           upto(r) == {s \in F : s = r \/ Before(s, r)}
           n == vectors[a].count
<1>1. F \subseteq Rows /\ (\A r \in F : r.account = a /\ r.kind \in Kinds) /\ n \in Nat
  BY DEF TypeOK, OnceInv, BatchAhead, FoldingOf, Folding
<1>2. IsFiniteSet(F) /\ Cardinality(F) \in Nat
  BY <1>1, SubsetCardinality
<1>3. ASSUME NEW r \in F
      PROVE  /\ FoldAt(r) = n + Cardinality(upto(r)) /\ IsFiniteSet(upto(r))
             /\ Cardinality(upto(r)) \in 1..Cardinality(F)
  <2>1. FoldAt(r) = n + Cardinality(upto(r))
    BY <1>1 DEF FoldAt
  <2>2. IsFiniteSet(upto(r)) /\ Cardinality(upto(r)) \in Nat
        /\ Cardinality(upto(r)) <= Cardinality(F)
    BY <1>2, FS_Subset, FS_CardinalityType
  <2>3. Cardinality(upto(r)) # 0
    BY <2>2, FS_EmptySet
  <2> QED  BY <1>2, <2>1, <2>2, <2>3
<1>4. ASSUME NEW f \in NewFolds(a) PROVE f[1] \in F /\ f[2] = FoldAt(f[1])
  BY <1>4 DEF NewFolds
<1>5. ASSUME NEW f \in NewFolds(a)
      PROVE  f[1] \in FoldingOf(a) /\ n < f[2] /\ f[2] <= n + Cardinality(FoldingOf(a))
  <2>1. f[1] \in F /\ f[2] = FoldAt(f[1])
    BY <1>4
  <2>2. f[2] = n + Cardinality(upto(f[1])) /\ Cardinality(upto(f[1])) \in 1..Cardinality(F)
    BY <1>3, <2>1
  <2> HIDE DEF n, upto
  <2> QED  BY <1>1, <1>2, <2>1, <2>2
<1>6. ASSUME IdsFollowTime, NEW f \in NewFolds(a), NEW g \in NewFolds(a),
             f[1].kind = g[1].kind, f[1].id < g[1].id
      PROVE  f[2] < g[2]
  <2>1. PICK r \in F, s \in F : r = f[1] /\ s = g[1]
    BY <1>4
  <2>2. /\ r # s /\ Before(r, s) /\ ~Before(s, r)
        /\ \A t \in F : Before(t, r) => Before(t, s)
    BY <1>1, <1>6, <2>1, SortFollowsIds
  <2>3. upto(r) \subseteq upto(s) /\ s \in upto(s) /\ s \notin upto(r)
    BY <2>2
  <2>4. Cardinality(upto(r)) < Cardinality(upto(s))
    <3>1. IsFiniteSet(upto(s)) /\ upto(r) \in SUBSET upto(s) /\ upto(r) # upto(s)
      BY <1>3, <2>3
    <3>2. Cardinality(upto(r)) <= Cardinality(upto(s)) /\ Cardinality(upto(r)) # Cardinality(upto(s))
      BY <3>1, FS_Subset
    <3> QED  BY <1>3, <3>2
  <2>5. f[2] = n + Cardinality(upto(r)) /\ g[2] = n + Cardinality(upto(s))
    BY <1>3, <1>4, <2>1
  <2>6. Cardinality(upto(r)) \in Nat /\ Cardinality(upto(s)) \in Nat
    BY <1>2, <1>3
  <2> HIDE DEF n, upto
  <2> QED  BY <1>1, <2>4, <2>5, <2>6
<1> QED  BY <1>5, <1>6

LEMMA UpsertOrder ==
    ASSUME TypeOK, OnceInv, CountedFolds, IdsFollowTime => OrderedFolds,
           NEW a \in Accounts, Upsert(a)
    PROVE  CountedFolds' /\ (IdsFollowTime => OrderedFolds')
<1>1. pc = "upsert" /\ a \in todo
  BY DEF Upsert
<1>2. CASE UNCHANGED vectors
  BY <1>2 DEF CountedFolds, OrderedFolds
<1>3. CASE vectors' = [vectors EXCEPT ![a] =
                [count |-> vectors[a].count + Cardinality(FoldingOf(a)),
                 folds |-> vectors[a].folds \cup NewFolds(a)]]
  <2>1. /\ \A b \in Accounts \ {a} : vectors'[b] = vectors[b]
        /\ vectors'[a].count = vectors[a].count + Cardinality(FoldingOf(a))
        /\ vectors'[a].folds = vectors[a].folds \cup NewFolds(a)
    BY <1>3 DEF TypeOK
  <2>2. /\ vectors[a].count \in Nat /\ Cardinality(FoldingOf(a)) \in Nat
        /\ \A f \in vectors'[a].folds : f[1] \in Rows /\ f[2] \in Nat
    BY <2>1, NewFoldsType DEF TypeOK
  <2>3. ASSUME NEW f \in vectors'[a].folds PROVE f[2] <= vectors'[a].count
    <3>1. CASE f \in vectors[a].folds
      BY <2>1, <2>2, <3>1 DEF CountedFolds
    <3>2. CASE f \in NewFolds(a)
      BY <1>1, <2>1, <3>2, FoldsFollowIds
    <3> QED  BY <2>1, <3>1, <3>2
  <2>4. ASSUME IdsFollowTime, NEW f \in vectors'[a].folds, NEW g \in vectors'[a].folds,
               f[1].kind = g[1].kind, f[1].id < g[1].id
        PROVE  f[2] < g[2]
    <3>1. CASE f \in vectors[a].folds /\ g \in vectors[a].folds
      BY <2>4, <3>1 DEF OrderedFolds
    <3>2. CASE f \in NewFolds(a) /\ g \in NewFolds(a)
      BY <1>1, <2>4, <3>2, FoldsFollowIds
    <3>3. CASE f \in vectors[a].folds /\ g \in NewFolds(a)
      <4>1. f[2] <= vectors[a].count /\ vectors[a].count < g[2]
        BY <1>1, <3>3, FoldsFollowIds DEF CountedFolds
      <4> QED  BY <2>2, <4>1
    <3>4. CASE f \in NewFolds(a) /\ g \in vectors[a].folds
      <4>1. f[1] \in FoldingOf(a)
        BY <1>1, <3>4, FoldsFollowIds
      <4>2. f[1].kind \in Kinds /\ After(f[1].kind) < f[1].id
        BY <1>1, <4>1 DEF OnceInv, BatchAhead, FoldingOf, Folding
      <4>3. g[1].id <= After(g[1].kind)
        BY <1>1, <3>4 DEF OnceInv, FoldedPassed
      <4>4. f[1].id \in Nat /\ g[1].id \in Nat /\ After(f[1].kind) \in Nat
        BY <2>2, <4>2, RowsAssumption DEF TypeOK, Row, After
      <4> QED  BY <2>4, <4>2, <4>3, <4>4
    <3> QED  BY <2>1, <3>1, <3>2, <3>3, <3>4
  <2> QED  BY <2>1, <2>3, <2>4 DEF CountedFolds, OrderedFolds
<1> QED  BY <1>2, <1>3 DEF Upsert

LEMMA NextOrder ==
    ASSUME TypeOK, OnceInv, CountedFolds, IdsFollowTime => OrderedFolds, [Next]_vars
    PROVE  CountedFolds' /\ (IdsFollowTime => OrderedFolds')
<1>1. CASE UNCHANGED vectors
  BY <1>1 DEF CountedFolds, OrderedFolds
<1>2. CASE WipeVectors
  BY <1>2 DEF WipeVectors, NoVector, CountedFolds, OrderedFolds
<1>3. ASSUME NEW a \in Accounts, Upsert(a)
      PROVE  CountedFolds' /\ (IdsFollowTime => OrderedFolds')
  BY <1>3, UpsertOrder
<1>4. \/ UNCHANGED vectors \/ WipeVectors \/ \E a \in Accounts : Upsert(a)
  BY DEF Next, Work, Commit, Start, WipeCursors, InitCursor, LoadCursors, Poll, Embed,
         LoadVectors, SaveCursor, Stop, Crash, vars, stored
<1> QED  BY <1>1, <1>2, <1>3, <1>4

(* FoldOrder: engagements of one source enter a vector in the order in     *)
(* which they were made, whatever the batches they come in, unless a crash *)
(* or a failing cursor write makes the worker fold them again.             *)
THEOREM FoldedInOrder == Spec => []FoldOrder
<1> DEFINE Inv == TypeOK /\ (Unbroken => OnceInv /\ CountedFolds /\ (IdsFollowTime => OrderedFolds))
<1>1. Init => Inv
  <2>1. Init => CountedFolds /\ OrderedFolds
    BY DEF Init, NoVector, CountedFolds, OrderedFolds
  <2> QED  BY <2>1, InitTypeOK, InitOnceInv
<1>2. Inv /\ [Next]_vars => Inv'
  <2> SUFFICES ASSUME Inv, [Next]_vars, Unbroken'
               PROVE  OnceInv' /\ CountedFolds' /\ (IdsFollowTime => OrderedFolds')
    BY NextTypeOK DEF IdsFollowTime
  <2>1. Unbroken
    BY FaultsGrow DEF Unbroken
  <2> QED  BY <2>1, NextOnceInv, NextOrder
<1>3. Inv => FoldOrder
  BY DEF Unbroken, OrderedFolds, FoldOrder
<1> QED  BY <1>1, <1>2, <1>3, PTL DEF Spec
=============================================================================
