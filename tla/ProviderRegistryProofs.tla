----------------------- MODULE ProviderRegistryProofs -----------------------
(* Proofs about ProviderRegistry: types, that no status stands without a   *)
(* key, and that an approval belongs to the stored key, for any number of  *)
(* shells, callback handlers and registrations.                            *)
EXTENDS ProviderRegistry, FiniteSetTheorems, SequenceTheorems, TLAPS

\* What the operations carry from reading the key to writing the status.
ReadKeys ==
    /\ \A s \in Shells :
          /\ shell[s].pc = "save" => shell[s].key \in Keys /\ shell[s].status \in Statuses
          /\ shell[s].pc \in {"ask", "update"} =>
                shell[s].key \in Keys /\ provider.key \in Keys
          /\ shell[s].pc = "update" => shell[s].status \in Statuses
    /\ \A h \in Handlers : handler[h] # Null => provider # Null /\ provider.key \in Keys

\* What the provider has said about a key, whenever it said it.
ApprovalsSaid ==
    /\ \A k \in Keys : grants[k] = "approved" => k \in approvals
    /\ \A m \in callbacks : m.status = "approved" => m.key \in approvals
    /\ \A s \in Shells :
          shell[s].pc \in {"save", "update"} /\ shell[s].status = "approved"
              => shell[s].key \in approvals

\* Without an overlap an operation under way is about the stored key.
SameKey ==
    "overlap" \notin faults =>
        /\ \A s \in Shells :
              shell[s].pc \in {"ask", "update"} => shell[s].key = provider.key
        /\ \A h \in Handlers : handler[h] = "approved" => provider.key \in approvals

\* The type of a shell's state, with K the keys there are.
ShellType(K) ==
    [pc : {"idle", "sync", "post", "save", "find", "ask", "update"},
     command : {"add", "register", "status"}, todo : SUBSET Capabilities,
     key : K \cup {Null}, status : Statuses \cup {Null}]

KeyInv == TypeOK /\ StatusNeedsKey /\ ReadKeys
ApprovalInv == ApprovalsSaid /\ SameKey /\ ApprovalOfKey

----------------------------------------------------------------------------
\* The disruptions of one step are finitely many, so they can be counted.
LEMMA SufferType ==
    ASSUME TypeOK, NEW kinds, IsFiniteSet(kinds), Suffer(kinds)
    PROVE  /\ used' \in 0..MaxDisruptions
           /\ faults' \subseteq {"overlap", "revoke"}
           /\ faults \subseteq faults'
<1>1. IsFiniteSet(kinds \ {"overlap"})
  BY FS_Difference
<1>2. Cardinality(kinds \ {"overlap"}) \in Nat
  BY <1>1, FS_CardinalityType
<1>3. /\ used \in Nat /\ MaxDisruptions \in Nat
      /\ used' = used + Cardinality(kinds \ {"overlap"}) /\ used' <= MaxDisruptions
  BY RegistryAssumption DEF Suffer, TypeOK
<1>4. /\ faults \subseteq {"overlap", "revoke"}
      /\ faults' = faults \cup (kinds \cap {"overlap", "revoke"})
  BY DEF Suffer, TypeOK
<1>5. used' \in 0..MaxDisruptions
  BY <1>2, <1>3
<1> QED  BY <1>4, <1>5

LEMMA TroubleType ==
    ASSUME TypeOK, NEW d, UNCHANGED trouble \/ Disrupt(d)
    PROVE  /\ used' \in 0..MaxDisruptions
           /\ faults' \subseteq {"overlap", "revoke"}
           /\ faults \subseteq faults'
<1>1. CASE UNCHANGED trouble
  BY <1>1 DEF TypeOK, trouble
<1>2. CASE Disrupt(d)
  BY <1>2, FS_Singleton, SufferType DEF Disrupt
<1> QED  BY <1>1, <1>2

\* Issuing a key keeps the ones there are.
LEMMA IssueKey ==
    ASSUME TypeOK, NEW status \in Statuses, grants' = Append(grants, status)
    PROVE  /\ grants' \in Seq(Statuses) /\ Len(grants') = Len(grants) + 1
           /\ Keys' = 1..(Len(grants) + 1) /\ Keys = 1..Len(grants)
           /\ Keys \subseteq Keys' /\ Len(grants) + 1 \in Keys'
           /\ \A k \in Keys : grants'[k] = grants[k]
           /\ grants'[Len(grants) + 1] = status
<1>1. grants \in Seq(Statuses)
  BY DEF TypeOK
<1>2. /\ grants' \in Seq(Statuses) /\ Len(grants') = Len(grants) + 1
      /\ \A k \in 1..Len(grants) : grants'[k] = grants[k]
      /\ grants'[Len(grants) + 1] = status
  BY <1>1, AppendProperties
<1>3. Keys = 1..Len(grants) /\ Keys' = 1..Len(grants')
  BY <1>1, <1>2 DEF Keys
<1>4. Len(grants) \in Nat
  BY <1>1
<1> QED  BY <1>2, <1>3, <1>4

\* A decision changes the status of one key.
LEMMA DecideKey ==
    ASSUME TypeOK, NEW key \in Keys, NEW status \in Statuses,
           grants' = [grants EXCEPT ![key] = status]
    PROVE  /\ grants' \in Seq(Statuses) /\ Len(grants') = Len(grants) /\ Keys' = Keys
           /\ \A k \in Keys : grants'[k] = IF k = key THEN status ELSE grants[k]
<1>1. grants \in Seq(Statuses) /\ Keys = 1..Len(grants)
  BY DEF TypeOK, Keys
<1> QED  BY <1>1, ExceptSeq DEF Keys

LEMMA SyncingType ==
    ASSUME NEW command \in {"add", "register", "status"},
           NEW todo \in SUBSET Capabilities
    PROVE  /\ Syncing(command, todo) \in
                 [pc : {"idle", "sync", "post", "find"},
                  command : {"add", "register", "status"}, todo : SUBSET Capabilities,
                  key : {Null}, status : {Null}]
BY DEF Syncing, AfterSync, Idle

----------------------------------------------------------------------------
LEMMA InitKeyInv == Init => KeyInv
<1> SUFFICES ASSUME Init PROVE KeyInv
  OBVIOUS
<1>1. grants = <<>> /\ grants \in Seq(Statuses) /\ Len(grants) = 0 /\ Keys = {}
  BY DEF Init, Keys
<1>2. 0 \in 0..MaxDisruptions /\ 0 <= MaxKeys
  BY RegistryAssumption
<1>3. TypeOK
  BY <1>1, <1>2 DEF Init, TypeOK, Idle, At
<1>4. StatusNeedsKey /\ ReadKeys
  BY DEF Init, StatusNeedsKey, ReadKeys, Idle
<1> QED  BY <1>3, <1>4 DEF KeyInv

LEMMA BeginKeyInv ==
    ASSUME KeyInv, NEW s \in Shells, NEW command \in {"add", "register", "status"},
           Begin(s, command)
    PROVE  KeyInv'
<1>1. /\ shell' = [shell EXCEPT ![s] = Syncing(command, Capabilities)]
      /\ provider' = IF provider = Null THEN NewRow ELSE provider
      /\ UNCHANGED <<caps, sources, handler, remote, trouble>>
  BY DEF Begin
<1>2. NewRow # Null /\ NewRow \in [key : {Null}, status : {Null}]
  BY RegistryAssumption DEF NewRow
<1>3. Keys' = Keys
  BY <1>1 DEF Keys, remote
<1>4. Syncing(command, Capabilities) \in
         [pc : {"idle", "sync", "post", "find"},
          command : {"add", "register", "status"}, todo : SUBSET Capabilities,
          key : {Null}, status : {Null}]
  BY SyncingType
<1>5. provider' # Null
  BY <1>1, <1>2
<1>6. TypeOK'
  BY <1>1, <1>2, <1>3, <1>4, <1>5 DEF KeyInv, TypeOK, remote, trouble, At
<1>7. StatusNeedsKey'
  BY <1>1, <1>2 DEF KeyInv, StatusNeedsKey, NewRow
<1>8. ReadKeys'
  BY <1>1, <1>2, <1>3, <1>4, <1>5 DEF KeyInv, TypeOK, ReadKeys, At
<1> QED  BY <1>6, <1>7, <1>8 DEF KeyInv

LEMMA UpsertCapabilityKeyInv ==
    ASSUME KeyInv, NEW s \in Shells, UpsertCapability(s)
    PROVE  KeyInv'
<1>1. PICK c \in shell[s].todo :
        /\ caps' = caps \cup {c}
        /\ shell' = [shell EXCEPT ![s] = Syncing(shell[s].command, shell[s].todo \ {c})]
  BY DEF UpsertCapability
<1>2. /\ UNCHANGED <<provider, sources, handler, remote, trouble>>
      /\ shell[s].pc = "sync" /\ provider # Null
  BY DEF UpsertCapability, At, KeyInv, TypeOK
<1>3. Keys' = Keys
  BY <1>2 DEF Keys, remote
<1>4. /\ shell[s].command \in {"add", "register", "status"}
      /\ shell[s].todo \subseteq Capabilities /\ c \in Capabilities
  BY <1>1 DEF KeyInv, TypeOK
<1>5. Syncing(shell[s].command, shell[s].todo \ {c}) \in
         [pc : {"idle", "sync", "post", "find"},
          command : {"add", "register", "status"}, todo : SUBSET Capabilities,
          key : {Null}, status : {Null}]
  <2>1. shell[s].todo \ {c} \in SUBSET Capabilities
    BY <1>4
  <2> QED  BY <1>4, <2>1, SyncingType
<1>6. TypeOK'
  BY <1>1, <1>2, <1>3, <1>4, <1>5 DEF KeyInv, TypeOK, remote, trouble, At
<1>7. StatusNeedsKey'
  BY <1>2 DEF KeyInv, StatusNeedsKey
<1>8. ReadKeys'
  BY <1>1, <1>2, <1>3, <1>5 DEF KeyInv, TypeOK, ReadKeys
<1> QED  BY <1>6, <1>7, <1>8 DEF KeyInv

\* Leaving a command, and the steps of register and status.
LEMMA ExitKeyInv ==
    ASSUME KeyInv, NEW s \in Shells, Exit(s),
           UNCHANGED <<provider, caps, sources, handler, remote>>,
           used' \in 0..MaxDisruptions, faults' \subseteq {"overlap", "revoke"}
    PROVE  KeyInv'
<1>1. Keys' = Keys
  BY DEF Keys, remote
<1>2. TypeOK'
  BY <1>1 DEF Exit, Idle, KeyInv, TypeOK, remote, At
<1>3. StatusNeedsKey' /\ ReadKeys'
  BY <1>1 DEF Exit, Idle, KeyInv, TypeOK, StatusNeedsKey, ReadKeys
<1> QED  BY <1>2, <1>3 DEF KeyInv

LEMMA PostKeyInv ==
    ASSUME KeyInv, NEW s \in Shells, Post(s)
    PROVE  KeyInv'
<1>1. PICK status \in Answers :
        /\ grants' = Append(grants, status)
        /\ approvals' = approvals \cup
              (IF status = "approved" THEN {Len(grants) + 1} ELSE {})
        /\ \/ /\ shell' = [shell EXCEPT ![s] = [@ EXCEPT
                     !.pc = "save", !.key = Len(grants) + 1, !.status = status]]
              /\ UNCHANGED trouble
           \/ Exit(s) /\ Disrupt("answer")
  BY DEF Post
<1>2. /\ UNCHANGED <<provider, caps, sources, handler, verified, callbacks>>
      /\ shell[s].pc = "post" /\ provider # Null /\ Len(grants) < MaxKeys
  BY DEF Post, At, KeyInv, TypeOK
<1>3. status \in Statuses
  BY RegistryAssumption
<1>4. /\ grants' \in Seq(Statuses) /\ Len(grants') = Len(grants) + 1
      /\ Keys \subseteq Keys' /\ Len(grants) + 1 \in Keys'
  BY <1>1, <1>3, IssueKey DEF KeyInv
<1>5. Len(grants') <= MaxKeys
  BY <1>2, <1>4, RegistryAssumption DEF KeyInv, TypeOK
<1>6. used' \in 0..MaxDisruptions /\ faults' \subseteq {"overlap", "revoke"}
  BY <1>1, TroubleType DEF KeyInv
<1>7. approvals' \subseteq Keys'
  BY <1>1, <1>4 DEF KeyInv, TypeOK
<1>8. /\ shell' \in [Shells -> ShellType(Keys')]
      /\ shell'[s].pc = "save" =>
            shell'[s].key \in Keys' /\ shell'[s].status \in Statuses
      /\ shell'[s].pc \in {"idle", "save"}
      /\ \A t \in Shells \ {s} : shell'[t] = shell[t]
  <2>1. shell \in [Shells -> ShellType(Keys)]
    BY DEF KeyInv, TypeOK, ShellType
  <2>2. shell \in [Shells -> ShellType(Keys')]
    BY <1>4, <2>1 DEF ShellType
  <2>3. CASE Exit(s)
    BY <2>2, <2>3 DEF Exit, Idle, ShellType
  <2>4. CASE shell' = [shell EXCEPT ![s] = [@ EXCEPT
                 !.pc = "save", !.key = Len(grants) + 1, !.status = status]]
    BY <1>3, <1>4, <2>2, <2>4 DEF ShellType
  <2> QED  BY <1>1, <2>3, <2>4
<1>9. TypeOK'
  BY <1>2, <1>4, <1>5, <1>6, <1>7, <1>8 DEF KeyInv, TypeOK, At, ShellType
<1>10. StatusNeedsKey'
  BY <1>2 DEF KeyInv, StatusNeedsKey
<1>11. ReadKeys'
  BY <1>2, <1>4, <1>8 DEF KeyInv, ReadKeys
<1> QED  BY <1>9, <1>10, <1>11 DEF KeyInv

LEMMA SaveKeyInv ==
    ASSUME KeyInv, NEW s \in Shells, Save(s)
    PROVE  KeyInv'
<1>1. /\ shell[s].pc = "save" /\ provider # Null
      /\ shell[s].key \in Keys /\ shell[s].status \in Statuses
      /\ provider' = [key |-> shell[s].key, status |-> shell[s].status]
      /\ Exit(s) /\ UNCHANGED <<caps, sources, handler, remote>>
  BY DEF Save, Saved, At, KeyInv, TypeOK, ReadKeys
<1>2. Keys' = Keys /\ Keys \subseteq Nat
  BY <1>1 DEF Keys, remote, KeyInv, TypeOK
<1>3. provider' # Null
  <2>1. provider' \in [key : Nat \cup {Null}, status : Statuses \cup {Null}]
    BY <1>1, <1>2
  <2> QED  BY <2>1, RegistryAssumption
<1>4. used' \in 0..MaxDisruptions /\ faults' \subseteq {"overlap", "revoke"}
  <2>1. IsFiniteSet({"overlap"}) /\ IsFiniteSet({})
    BY FS_Singleton, FS_EmptySet
  <2> QED  BY <2>1, SufferType DEF Save, KeyInv
<1>5. TypeOK'
  BY <1>1, <1>2, <1>3, <1>4 DEF Exit, Idle, KeyInv, TypeOK, remote, At
<1>6. StatusNeedsKey'
  BY <1>1, <1>2, RegistryAssumption DEF StatusNeedsKey
<1>7. ReadKeys'
  BY <1>1, <1>2, <1>3 DEF Exit, Idle, KeyInv, TypeOK, ReadKeys
<1> QED  BY <1>5, <1>6, <1>7 DEF KeyInv

LEMMA FindKeyInv ==
    ASSUME KeyInv, NEW s \in Shells, Find(s)
    PROVE  KeyInv'
<1>1. /\ shell[s].pc = "find" /\ provider # Null
      /\ UNCHANGED <<provider, caps, sources, handler, remote, trouble>>
  BY DEF Find, At, KeyInv, TypeOK
<1>2. CASE Exit(s)
  BY <1>1, <1>2, ExitKeyInv DEF trouble, KeyInv, TypeOK
<1>3. CASE /\ provider.key # Null
           /\ shell' = [shell EXCEPT ![s] = [@ EXCEPT !.pc = "ask", !.key = provider.key]]
  <2>1. Keys' = Keys
    BY <1>1 DEF Keys, remote
  <2>2. provider.key \in Keys
    BY <1>1, <1>3 DEF KeyInv, TypeOK
  <2>3. shell' \in [Shells -> ShellType(Keys)]
    <3>1. shell \in [Shells -> ShellType(Keys)]
      BY DEF KeyInv, TypeOK, ShellType
    <3>2. [shell[s] EXCEPT !.pc = "ask", !.key = provider.key] \in ShellType(Keys)
      BY <2>2, <3>1 DEF ShellType
    <3> QED  BY <1>3, <3>1, <3>2
  <2>4. TypeOK'
    BY <1>1, <1>3, <2>1, <2>3 DEF KeyInv, TypeOK, remote, trouble, At, ShellType
  <2>5. StatusNeedsKey'
    BY <1>1 DEF KeyInv, StatusNeedsKey
  <2>6. ReadKeys'
    BY <1>1, <1>3, <2>1, <2>2 DEF KeyInv, TypeOK, ReadKeys
  <2> QED  BY <2>4, <2>5, <2>6 DEF KeyInv
<1> QED  BY <1>2, <1>3 DEF Find

LEMMA AskKeyInv ==
    ASSUME KeyInv, NEW s \in Shells, Ask(s)
    PROVE  KeyInv'
<1>1. /\ shell[s].pc = "ask" /\ provider # Null /\ shell[s].key \in Keys
      /\ provider.key \in Keys
      /\ UNCHANGED <<provider, caps, sources, handler, remote>>
  BY DEF Ask, At, KeyInv, TypeOK, ReadKeys
<1>2. CASE Exit(s) /\ Disrupt("answer")
  BY <1>1, <1>2, ExitKeyInv, TroubleType DEF KeyInv
<1>3. CASE /\ shell' = [shell EXCEPT ![s] = [@ EXCEPT
                           !.pc = "update", !.status = grants[shell[s].key]]]
           /\ UNCHANGED trouble
  <2>1. Keys' = Keys
    BY <1>1 DEF Keys, remote
  <2>2. grants[shell[s].key] \in Statuses
    BY <1>1 DEF KeyInv, TypeOK, Keys
  <2>3. shell' \in [Shells -> ShellType(Keys)]
    <3>1. shell \in [Shells -> ShellType(Keys)]
      BY DEF KeyInv, TypeOK, ShellType
    <3>2. [shell[s] EXCEPT !.pc = "update", !.status = grants[shell[s].key]] \in ShellType(Keys)
      BY <2>2, <3>1 DEF ShellType
    <3> QED  BY <1>3, <3>1, <3>2
  <2>4. TypeOK'
    BY <1>1, <1>3, <2>1, <2>3 DEF KeyInv, TypeOK, remote, trouble, At, ShellType
  <2>5. StatusNeedsKey'
    BY <1>1 DEF KeyInv, StatusNeedsKey
  <2>6. ReadKeys'
    BY <1>1, <1>3, <2>1, <2>2 DEF KeyInv, TypeOK, ReadKeys
  <2> QED  BY <2>4, <2>5, <2>6 DEF KeyInv
<1> QED  BY <1>2, <1>3 DEF Ask

\* A row that has a key can be given a status.
LEMMA WithStatusKeyInv ==
    ASSUME TypeOK, provider # Null, provider.key \in Keys,
           NEW status \in Statuses, provider' = WithStatus(status)
    PROVE  /\ provider' \in [key : Keys, status : Statuses]
           /\ provider'.key = provider.key /\ provider'.status = status
           /\ provider' # Null
<1>1. provider \in [key : Keys \cup {Null}, status : Statuses \cup {Null}]
  BY DEF TypeOK
<1>2. /\ provider' \in [key : Keys, status : Statuses]
      /\ provider'.key = provider.key /\ provider'.status = status
  BY <1>1 DEF WithStatus
<1>3. Keys \subseteq Nat
  BY DEF TypeOK, Keys
<1>4. provider' \in [key : Nat \cup {Null}, status : Statuses \cup {Null}]
  BY <1>2, <1>3
<1> QED  BY <1>2, <1>4, RegistryAssumption

LEMMA UpdateKeyInv ==
    ASSUME KeyInv, NEW s \in Shells, Update(s)
    PROVE  KeyInv'
<1>1. /\ shell[s].pc = "update" /\ provider # Null
      /\ provider.key \in Keys /\ shell[s].status \in Statuses
      /\ provider' = WithStatus(shell[s].status)
      /\ Exit(s) /\ UNCHANGED <<caps, sources, handler, remote, trouble>>
  BY DEF Update, At, KeyInv, TypeOK, ReadKeys
<1>2. /\ provider' \in [key : Keys, status : Statuses]
      /\ provider'.key = provider.key /\ provider' # Null
  BY <1>1, WithStatusKeyInv DEF KeyInv
<1>3. Keys' = Keys /\ Keys \subseteq Nat
  BY <1>1 DEF Keys, remote, KeyInv, TypeOK
<1>4. TypeOK'
  BY <1>1, <1>2, <1>3 DEF Exit, Idle, KeyInv, TypeOK, remote, trouble, At
<1>5. StatusNeedsKey'
  BY <1>2, <1>3, RegistryAssumption DEF StatusNeedsKey
<1>6. ReadKeys'
  BY <1>1, <1>2, <1>3 DEF Exit, Idle, KeyInv, TypeOK, ReadKeys
<1> QED  BY <1>4, <1>5, <1>6 DEF KeyInv

LEMMA WriteKeyInv ==
    ASSUME KeyInv, NEW h \in Handlers, Write(h)
    PROVE  KeyInv'
<1>1. /\ handler[h] \in Statuses /\ provider # Null /\ provider.key \in Keys
      /\ handler' = [handler EXCEPT ![h] = Null]
      /\ UNCHANGED <<caps, sources, shell, remote>>
  BY DEF Write, KeyInv, TypeOK, ReadKeys
<1>2. \/ provider' = WithStatus(handler[h]) /\ UNCHANGED trouble
      \/ UNCHANGED provider /\ Disrupt("abort")
  BY DEF Write
<1>3. /\ provider' \in [key : Keys \cup {Null}, status : Statuses \cup {Null}]
      /\ provider'.key = provider.key /\ provider' # Null
  BY <1>1, <1>2, WithStatusKeyInv DEF KeyInv, TypeOK
<1>4. Keys' = Keys /\ Keys \subseteq Nat
  BY <1>1 DEF Keys, remote, KeyInv, TypeOK
<1>5. used' \in 0..MaxDisruptions /\ faults' \subseteq {"overlap", "revoke"}
  BY <1>2, TroubleType DEF KeyInv
<1>6. TypeOK'
  BY <1>1, <1>3, <1>4, <1>5 DEF KeyInv, TypeOK, remote, At
<1>7. StatusNeedsKey'
  BY <1>1, <1>3, <1>4, RegistryAssumption DEF StatusNeedsKey
<1>8. ReadKeys'
  BY <1>1, <1>3, <1>4 DEF KeyInv, TypeOK, ReadKeys
<1> QED  BY <1>6, <1>7, <1>8 DEF KeyInv

LEMMA ReceiveKeyInv ==
    ASSUME KeyInv, NEW h \in Handlers, NEW m \in callbacks, Receive(h, m)
    PROVE  KeyInv'
<1>1. /\ handler' = [handler EXCEPT ![h] = IF Accepted(m) THEN m.status ELSE Null]
      /\ UNCHANGED <<provider, caps, sources, shell, grants, verified, approvals>>
      /\ callbacks' \subseteq callbacks
  BY DEF Receive
<1>2. Keys' = Keys /\ m.key \in Keys /\ m.status \in Statuses
  BY <1>1 DEF Keys, KeyInv, TypeOK
<1>3. used' \in 0..MaxDisruptions /\ faults' \subseteq {"overlap", "revoke"}
  BY TroubleType DEF Receive, KeyInv
<1>4. TypeOK'
  BY <1>1, <1>2, <1>3 DEF KeyInv, TypeOK, At
<1>5. StatusNeedsKey'
  BY <1>1 DEF KeyInv, StatusNeedsKey
<1>6. ReadKeys'
  BY <1>1, <1>2 DEF Accepted, KeyInv, TypeOK, ReadKeys
<1> QED  BY <1>4, <1>5, <1>6 DEF KeyInv

LEMMA DecideKeyInv ==
    ASSUME KeyInv, NEW key \in Keys, NEW status \in Statuses, Decide(key, status)
    PROVE  KeyInv'
<1>1. /\ grants' = [grants EXCEPT ![key] = status]
      /\ approvals' = approvals \cup (IF status = "approved" THEN {key} ELSE {})
      /\ callbacks' = callbacks \cup {[key |-> key, status |-> status]}
      /\ UNCHANGED <<provider, caps, sources, shell, handler, verified>>
  BY DEF Decide, local
<1>2. grants' \in Seq(Statuses) /\ Len(grants') = Len(grants) /\ Keys' = Keys
  BY <1>1, DecideKey DEF KeyInv
<1>3. used' \in 0..MaxDisruptions /\ faults' \subseteq {"overlap", "revoke"}
  BY TroubleType DEF Decide, KeyInv
<1>4. TypeOK'
  BY <1>1, <1>2, <1>3 DEF KeyInv, TypeOK, At
<1>5. StatusNeedsKey' /\ ReadKeys'
  BY <1>1, <1>2 DEF KeyInv, StatusNeedsKey, ReadKeys
<1> QED  BY <1>4, <1>5 DEF KeyInv

\* enable and disable only touch the sources, and those of the provider.
LEMMA SourcesKeyInv ==
    ASSUME KeyInv, NEW route \in Routes, NEW c \in Capabilities,
           Enable(route, c) \/ Disable(route, c)
    PROVE  KeyInv'
<1>1. /\ <<route, c.algorithm>> \in Routes \X Algorithms
      /\ UNCHANGED <<provider, caps, local, remote, trouble>>
  BY DEF Enable, Disable, Algorithms
<1>2. Keys' = Keys
  BY <1>1 DEF Keys, remote
<1>3. sources' \in [Routes \X Algorithms ->
          {Null} \cup [resource : {d.resource : d \in Capabilities}, enabled : BOOLEAN]]
  <2> DEFINE Source == [resource : {d.resource : d \in Capabilities}, enabled : BOOLEAN]
             b == <<route, c.algorithm>>
  <2>1. sources \in [Routes \X Algorithms -> {Null} \cup Source]
    BY DEF KeyInv, TypeOK
  <2>2. CASE Enable(route, c)
    <3>1. Enabled(b, c) \in Source
      BY <1>1, <2>1 DEF Enabled
    <3> QED  BY <1>1, <2>1, <2>2, <3>1 DEF Enable
  <2>3. CASE Disable(route, c)
    <3>1. sources[b] \in Source /\ sources' = [sources EXCEPT ![b] = [@ EXCEPT !.enabled = FALSE]]
      BY <1>1, <2>1, <2>3 DEF Disable
    <3>2. [sources[b] EXCEPT !.enabled = FALSE] \in Source
      BY <3>1
    <3> QED  BY <1>1, <2>1, <3>1, <3>2
  <2> QED  BY <2>2, <2>3
<1>4. TypeOK'
  BY <1>1, <1>2, <1>3 DEF KeyInv, TypeOK, local, remote, trouble, At
<1>5. StatusNeedsKey' /\ ReadKeys'
  BY <1>1, <1>2 DEF KeyInv, StatusNeedsKey, ReadKeys, local
<1> QED  BY <1>4, <1>5 DEF KeyInv

LEMMA NextKeyInv == KeyInv /\ [Next]_vars => KeyInv'
<1> SUFFICES ASSUME KeyInv, [Next]_vars PROVE KeyInv'
  OBVIOUS
<1>1. ASSUME NEW s \in Shells, NEW command \in {"add", "register", "status"},
             Begin(s, command)
      PROVE  KeyInv'
  BY <1>1, BeginKeyInv
<1>2. ASSUME NEW s \in Shells, UpsertCapability(s) PROVE KeyInv'
  BY <1>2, UpsertCapabilityKeyInv
<1>3. ASSUME NEW s \in Shells, Post(s) PROVE KeyInv'
  BY <1>3, PostKeyInv
<1>4. ASSUME NEW s \in Shells, Refused(s) PROVE KeyInv'
  BY <1>4, ExitKeyInv DEF Refused, trouble, KeyInv, TypeOK
<1>5. ASSUME NEW s \in Shells, Save(s) PROVE KeyInv'
  BY <1>5, SaveKeyInv
<1>6. ASSUME NEW s \in Shells, Find(s) PROVE KeyInv'
  BY <1>6, FindKeyInv
<1>7. ASSUME NEW s \in Shells, Ask(s) PROVE KeyInv'
  BY <1>7, AskKeyInv
<1>8. ASSUME NEW s \in Shells, Update(s) PROVE KeyInv'
  BY <1>8, UpdateKeyInv
<1>9. ASSUME NEW s \in Shells, Abort(s) PROVE KeyInv'
  <2>1. used' \in 0..MaxDisruptions /\ faults' \subseteq {"overlap", "revoke"}
    BY <1>9, TroubleType DEF Abort, KeyInv
  <2> QED  BY <1>9, <2>1, ExitKeyInv DEF Abort
<1>10. ASSUME NEW route \in Routes, NEW c \in Capabilities,
              Enable(route, c) \/ Disable(route, c)
       PROVE  KeyInv'
  BY <1>10, SourcesKeyInv
<1>11. ASSUME NEW key \in Keys, Verify(key) PROVE KeyInv'
  BY <1>11 DEF Verify, local, trouble, Keys, KeyInv, TypeOK, At, StatusNeedsKey, ReadKeys
<1>12. ASSUME NEW key \in Keys, NEW status \in Statuses, Decide(key, status)
       PROVE  KeyInv'
  BY <1>12, DecideKeyInv
<1>13. ASSUME NEW h \in Handlers, NEW m \in callbacks, Receive(h, m) PROVE KeyInv'
  BY <1>13, ReceiveKeyInv
<1>14. ASSUME NEW h \in Handlers, Write(h) PROVE KeyInv'
  BY <1>14, WriteKeyInv
<1>15. CASE UNCHANGED vars
  BY <1>15 DEF vars, local, remote, trouble, Keys, KeyInv, TypeOK, At, StatusNeedsKey, ReadKeys
<1> QED
  BY <1>1, <1>2, <1>3, <1>4, <1>5, <1>6, <1>7, <1>8, <1>9, <1>10, <1>11, <1>12,
     <1>13, <1>14, <1>15 DEF Next, Work, Operator, Provider

(* TypeOK.                                                                 *)
THEOREM RegistryTypeCorrect == Spec => []TypeOK
<1>1. KeyInv => TypeOK
  BY DEF KeyInv
<1> QED  BY <1>1, InitKeyInv, NextKeyInv, PTL DEF Spec

(* StatusNeedsKey: no command and no callback, in whatever order, leaves a *)
(* status next to a missing key.                                           *)
THEOREM KeyWithEveryStatus == Spec => []StatusNeedsKey
<1>1. KeyInv => StatusNeedsKey
  BY DEF KeyInv
<1> QED  BY <1>1, InitKeyInv, NextKeyInv, PTL DEF Spec

----------------------------------------------------------------------------
LEMMA InitApprovalInv == Init => ApprovalInv
<1> SUFFICES ASSUME Init PROVE ApprovalInv
  OBVIOUS
<1>1. Keys = {}
  BY DEF Init, Keys
<1>2. \A h \in Handlers : handler[h] # "approved"
  BY RegistryAssumption DEF Init, Statuses
<1>3. \A s \in Shells : shell[s].pc = "idle"
  BY DEF Init, Idle
<1> QED
  BY <1>1, <1>2, <1>3 DEF Init, ApprovalInv, ApprovalsSaid, SameKey, ApprovalOfKey

\* Where nothing about keys changes but that a shell leaves its command or
\* has not read a key yet.
LEMMA QuietApprovalInv ==
    ASSUME KeyInv, ApprovalInv, NEW s \in Shells,
           UNCHANGED <<handler, remote>>, faults \subseteq faults',
           \A t \in Shells \ {s} : shell'[t] = shell[t],
           shell'[s].pc \in {"idle", "sync", "post", "find"},
           \/ UNCHANGED provider
           \/ provider = Null /\ provider' = NewRow
    PROVE  ApprovalInv'
<1>1. Keys' = Keys
  BY DEF Keys, remote
<1>2. ApprovalsSaid'
  BY <1>1 DEF ApprovalInv, ApprovalsSaid, remote
<1>3. CASE UNCHANGED provider
  BY <1>2, <1>3 DEF ApprovalInv, SameKey, ApprovalOfKey, remote
<1>4. CASE provider = Null /\ provider' = NewRow
  <2>1. NewRow.status # "approved"
    BY RegistryAssumption DEF NewRow, Statuses
  <2>2. \A h \in Handlers : handler[h] = Null
    BY <1>4 DEF KeyInv, ReadKeys
  <2>3. \A h \in Handlers : handler'[h] # "approved"
    BY <2>2, RegistryAssumption DEF Statuses
  <2>4. \A t \in Shells : shell[t].pc = "idle"
    BY <1>4 DEF KeyInv, TypeOK, At
  <2> QED  BY <1>2, <1>4, <2>1, <2>3, <2>4 DEF ApprovalInv, SameKey, ApprovalOfKey
<1> QED  BY <1>3, <1>4

\* A new key leaves the approvals of the others as they are.
LEMMA PostApprovalInv ==
    ASSUME KeyInv, ApprovalInv, NEW s \in Shells, Post(s)
    PROVE  ApprovalInv'
<1>1. PICK status \in Answers :
        /\ grants' = Append(grants, status)
        /\ approvals' = approvals \cup
              (IF status = "approved" THEN {Len(grants) + 1} ELSE {})
        /\ \/ /\ shell' = [shell EXCEPT ![s] = [@ EXCEPT
                     !.pc = "save", !.key = Len(grants) + 1, !.status = status]]
              /\ UNCHANGED trouble
           \/ Exit(s) /\ Disrupt("answer")
  BY DEF Post
<1>2. UNCHANGED <<provider, caps, sources, handler, verified, callbacks>>
  BY DEF Post
<1>3. status \in Statuses
  BY RegistryAssumption
<1>4. /\ Keys' = Keys \cup {Len(grants) + 1}
      /\ \A k \in Keys : grants'[k] = grants[k]
      /\ grants'[Len(grants) + 1] = status
  <2>1. Len(grants) \in Nat
    BY DEF KeyInv, TypeOK
  <2> QED  BY <1>1, <1>3, <2>1, IssueKey DEF KeyInv
<1>5. faults \subseteq faults'
  BY <1>1, TroubleType DEF KeyInv
<1>6. /\ \A t \in Shells \ {s} : shell'[t] = shell[t]
      /\ \/ shell'[s].pc = "idle"
         \/ /\ shell'[s].pc = "save" /\ shell'[s].key = Len(grants) + 1
            /\ shell'[s].status = status
  <2>1. CASE Exit(s)
    BY <2>1 DEF Exit, Idle, KeyInv, TypeOK
  <2>2. CASE shell' = [shell EXCEPT ![s] = [@ EXCEPT
                  !.pc = "save", !.key = Len(grants) + 1, !.status = status]]
    BY <2>2 DEF KeyInv, TypeOK
  <2> QED  BY <1>1, <2>1, <2>2
<1>7. approvals \subseteq approvals'
  BY <1>1
<1>8. ApprovalsSaid'
  BY <1>1, <1>2, <1>4, <1>6, <1>7 DEF ApprovalInv, ApprovalsSaid
<1>9. SameKey' /\ ApprovalOfKey'
  BY <1>2, <1>5, <1>6, <1>7 DEF ApprovalInv, SameKey, ApprovalOfKey
<1> QED  BY <1>8, <1>9 DEF ApprovalInv

\* The heart of it: a new key is saved either while nobody is about to write
\* a status, or with an overlap noted.
LEMMA SaveApprovalInv ==
    ASSUME KeyInv, ApprovalInv, NEW s \in Shells, Save(s)
    PROVE  ApprovalInv'
<1>1. /\ shell[s].pc = "save" /\ Exit(s)
      /\ provider' = [key |-> shell[s].key, status |-> shell[s].status]
      /\ UNCHANGED <<handler, remote>>
      /\ faults' = faults \cup ((IF StatusUnderWay THEN {"overlap"} ELSE {})
                                  \cap {"overlap", "revoke"})
  BY DEF Save, Saved, Suffer, At
<1>2. Keys' = Keys
  BY <1>1 DEF Keys, remote
<1>3. /\ \A t \in Shells \ {s} : shell'[t] = shell[t]
      /\ shell'[s].pc = "idle"
  BY <1>1 DEF Exit, Idle, KeyInv, TypeOK
<1>4. ApprovalsSaid'
  BY <1>1, <1>2, <1>3 DEF ApprovalInv, ApprovalsSaid, remote
<1>5. ApprovalOfKey'
  BY <1>1 DEF ApprovalInv, ApprovalsSaid, ApprovalOfKey, remote
<1>6. SameKey'
  <2>1. CASE StatusUnderWay
    BY <1>1, <2>1 DEF SameKey
  <2>2. CASE ~StatusUnderWay
    <3>1. \A t \in Shells : shell[t].pc \notin {"ask", "update"}
      BY <2>2 DEF StatusUnderWay
    <3>2. \A h \in Handlers : handler'[h] # "approved"
      BY <1>1, <2>2, RegistryAssumption DEF StatusUnderWay, Statuses
    <3> QED  BY <1>3, <3>1, <3>2 DEF SameKey
  <2> QED  BY <2>1, <2>2
<1> QED  BY <1>4, <1>5, <1>6 DEF ApprovalInv

LEMMA FindApprovalInv ==
    ASSUME KeyInv, ApprovalInv, NEW s \in Shells, Find(s)
    PROVE  ApprovalInv'
<1>1. UNCHANGED <<provider, caps, sources, handler, remote, trouble>>
  BY DEF Find
<1>2. CASE Exit(s)
  BY <1>1, <1>2, QuietApprovalInv DEF Exit, Idle, KeyInv, TypeOK, trouble
<1>3. CASE shell' = [shell EXCEPT ![s] = [@ EXCEPT !.pc = "ask", !.key = provider.key]]
  <2>1. Keys' = Keys
    BY <1>1 DEF Keys, remote
  <2>2. /\ \A t \in Shells \ {s} : shell'[t] = shell[t]
        /\ shell'[s].pc = "ask" /\ shell'[s].key = provider.key
    BY <1>3 DEF KeyInv, TypeOK
  <2> QED  BY <1>1, <2>1, <2>2 DEF ApprovalInv, ApprovalsSaid, SameKey, ApprovalOfKey,
                                   remote, trouble
<1> QED  BY <1>2, <1>3 DEF Find

LEMMA AskApprovalInv ==
    ASSUME KeyInv, ApprovalInv, NEW s \in Shells, Ask(s)
    PROVE  ApprovalInv'
<1>1. /\ shell[s].pc = "ask" /\ shell[s].key \in Keys
      /\ UNCHANGED <<provider, caps, sources, handler, remote>>
  BY DEF Ask, At, KeyInv, ReadKeys
<1>2. CASE Exit(s) /\ Disrupt("answer")
  BY <1>1, <1>2, QuietApprovalInv, TroubleType DEF Exit, Idle, KeyInv, TypeOK
<1>3. CASE /\ shell' = [shell EXCEPT ![s] = [@ EXCEPT
                           !.pc = "update", !.status = grants[shell[s].key]]]
           /\ UNCHANGED trouble
  <2>1. Keys' = Keys
    BY <1>1 DEF Keys, remote
  <2>2. /\ \A t \in Shells \ {s} : shell'[t] = shell[t]
        /\ shell'[s].pc = "update" /\ shell'[s].key = shell[s].key
        /\ shell'[s].status = grants[shell[s].key]
    BY <1>3 DEF KeyInv, TypeOK
  <2>3. ApprovalsSaid'
    BY <1>1, <2>1, <2>2 DEF ApprovalInv, ApprovalsSaid, remote
  <2>4. SameKey' /\ ApprovalOfKey'
    BY <1>1, <1>3, <2>2 DEF ApprovalInv, SameKey, ApprovalOfKey, remote, trouble
  <2> QED  BY <2>3, <2>4 DEF ApprovalInv
<1> QED  BY <1>2, <1>3 DEF Ask

LEMMA UpdateApprovalInv ==
    ASSUME KeyInv, ApprovalInv, NEW s \in Shells, Update(s)
    PROVE  ApprovalInv'
<1>1. /\ shell[s].pc = "update" /\ provider # Null /\ provider.key \in Keys
      /\ shell[s].status \in Statuses /\ provider' = WithStatus(shell[s].status)
      /\ Exit(s) /\ UNCHANGED <<handler, remote, trouble>>
  BY DEF Update, At, KeyInv, TypeOK, ReadKeys
<1>2. provider'.key = provider.key /\ provider'.status = shell[s].status
  BY <1>1, WithStatusKeyInv DEF KeyInv
<1>3. /\ \A t \in Shells \ {s} : shell'[t] = shell[t]
      /\ shell'[s].pc = "idle"
  BY <1>1 DEF Exit, Idle, KeyInv, TypeOK
<1>4. Keys' = Keys
  BY <1>1 DEF Keys, remote
<1>5. ApprovalsSaid' /\ SameKey'
  BY <1>1, <1>2, <1>3, <1>4 DEF ApprovalInv, ApprovalsSaid, SameKey, remote, trouble
<1>6. ApprovalOfKey'
  BY <1>1, <1>2 DEF ApprovalInv, ApprovalsSaid, SameKey, ApprovalOfKey, remote, trouble
<1> QED  BY <1>5, <1>6 DEF ApprovalInv

LEMMA WriteApprovalInv ==
    ASSUME KeyInv, ApprovalInv, NEW h \in Handlers, Write(h)
    PROVE  ApprovalInv'
<1>1. /\ handler[h] \in Statuses /\ provider # Null /\ provider.key \in Keys
      /\ handler' = [handler EXCEPT ![h] = Null]
      /\ UNCHANGED <<shell, remote>>
  BY DEF Write, KeyInv, TypeOK, ReadKeys
<1>2. \/ provider' = WithStatus(handler[h]) /\ UNCHANGED trouble
      \/ UNCHANGED provider /\ Disrupt("abort")
  BY DEF Write
<1>3. /\ provider'.key = provider.key
      /\ provider'.status = handler[h] \/ UNCHANGED provider
  BY <1>1, <1>2, WithStatusKeyInv DEF KeyInv
<1>4. faults \subseteq faults'
  BY <1>2, TroubleType DEF KeyInv
<1>5. Keys' = Keys
  BY <1>1 DEF Keys, remote
<1>6. \A g \in Handlers : handler'[g] = "approved" => handler[g] = "approved"
  BY <1>1, RegistryAssumption DEF KeyInv, TypeOK, Statuses
<1>7. ApprovalsSaid' /\ SameKey'
  BY <1>1, <1>3, <1>4, <1>5, <1>6 DEF ApprovalInv, ApprovalsSaid, SameKey, remote
<1>8. ApprovalOfKey'
  BY <1>1, <1>3, <1>4 DEF ApprovalInv, SameKey, ApprovalOfKey, remote
<1> QED  BY <1>7, <1>8 DEF ApprovalInv

LEMMA ReceiveApprovalInv ==
    ASSUME KeyInv, ApprovalInv, NEW h \in Handlers, NEW m \in callbacks, Receive(h, m)
    PROVE  ApprovalInv'
<1>1. /\ handler' = [handler EXCEPT ![h] = IF Accepted(m) THEN m.status ELSE Null]
      /\ UNCHANGED <<provider, shell, grants, approvals>>
      /\ callbacks' \subseteq callbacks
  BY DEF Receive
<1>2. faults \subseteq faults'
  BY TroubleType DEF Receive, KeyInv
<1>3. Keys' = Keys
  BY <1>1 DEF Keys
<1>4. \A g \in Handlers : handler'[g] = "approved" =>
         \/ handler[g] = "approved"
         \/ m.status = "approved" /\ m.key = provider.key
  BY <1>1, RegistryAssumption DEF Accepted, KeyInv, TypeOK, Statuses
<1>5. ApprovalsSaid' /\ ApprovalOfKey'
  BY <1>1, <1>2, <1>3 DEF ApprovalInv, ApprovalsSaid, ApprovalOfKey
<1>6. SameKey'
  BY <1>1, <1>2, <1>4 DEF ApprovalInv, ApprovalsSaid, SameKey
<1> QED  BY <1>5, <1>6 DEF ApprovalInv

LEMMA DecideApprovalInv ==
    ASSUME KeyInv, ApprovalInv, NEW key \in Keys, NEW status \in Statuses,
           Decide(key, status)
    PROVE  ApprovalInv'
<1>1. /\ grants' = [grants EXCEPT ![key] = status]
      /\ approvals' = approvals \cup (IF status = "approved" THEN {key} ELSE {})
      /\ callbacks' = callbacks \cup {[key |-> key, status |-> status]}
      /\ UNCHANGED <<provider, shell, handler>>
  BY DEF Decide, local
<1>2. /\ Keys' = Keys
      /\ \A k \in Keys : grants'[k] = IF k = key THEN status ELSE grants[k]
  BY <1>1, DecideKey DEF KeyInv
<1>3. faults \subseteq faults'
  BY TroubleType DEF Decide, KeyInv
<1>4. approvals \subseteq approvals' /\ (status = "approved" => key \in approvals')
  BY <1>1
<1>5. ApprovalsSaid'
  BY <1>1, <1>2, <1>4 DEF ApprovalInv, ApprovalsSaid
<1>6. SameKey' /\ ApprovalOfKey'
  BY <1>1, <1>3, <1>4 DEF ApprovalInv, SameKey, ApprovalOfKey
<1> QED  BY <1>5, <1>6 DEF ApprovalInv

LEMMA NextApprovalInv == KeyInv /\ ApprovalInv /\ [Next]_vars => ApprovalInv'
<1> SUFFICES ASSUME KeyInv, ApprovalInv, [Next]_vars PROVE ApprovalInv'
  OBVIOUS
<1>1. ASSUME NEW s \in Shells, NEW command \in {"add", "register", "status"},
             Begin(s, command)
      PROVE  ApprovalInv'
  <2>1. shell'[s].pc \in {"idle", "sync", "post", "find"}
    BY <1>1, SyncingType DEF Begin, KeyInv, TypeOK
  <2> QED  BY <1>1, <2>1, QuietApprovalInv DEF Begin, KeyInv, TypeOK, trouble
<1>2. ASSUME NEW s \in Shells, UpsertCapability(s) PROVE ApprovalInv'
  <2>1. shell'[s].pc \in {"idle", "sync", "post", "find"}
    BY <1>2 DEF UpsertCapability, Syncing, AfterSync, Idle, KeyInv, TypeOK
  <2> QED  BY <1>2, <2>1, QuietApprovalInv DEF UpsertCapability, KeyInv, TypeOK, trouble
<1>3. ASSUME NEW s \in Shells, Post(s) PROVE ApprovalInv'
  BY <1>3, PostApprovalInv
<1>4. ASSUME NEW s \in Shells, Refused(s) PROVE ApprovalInv'
  BY <1>4, QuietApprovalInv DEF Refused, Exit, Idle, KeyInv, TypeOK, trouble
<1>5. ASSUME NEW s \in Shells, Save(s) PROVE ApprovalInv'
  BY <1>5, SaveApprovalInv
<1>6. ASSUME NEW s \in Shells, Find(s) PROVE ApprovalInv'
  BY <1>6, FindApprovalInv
<1>7. ASSUME NEW s \in Shells, Ask(s) PROVE ApprovalInv'
  BY <1>7, AskApprovalInv
<1>8. ASSUME NEW s \in Shells, Update(s) PROVE ApprovalInv'
  BY <1>8, UpdateApprovalInv
<1>9. ASSUME NEW s \in Shells, Abort(s) PROVE ApprovalInv'
  <2>1. faults \subseteq faults'
    BY <1>9, TroubleType DEF Abort, KeyInv
  <2> QED  BY <1>9, <2>1, QuietApprovalInv DEF Abort, Exit, Idle, KeyInv, TypeOK
<1>10. ASSUME NEW route \in Routes, NEW c \in Capabilities,
              Enable(route, c) \/ Disable(route, c)
       PROVE  ApprovalInv'
  BY <1>10 DEF Enable, Disable, local, remote, trouble, Keys,
               ApprovalInv, ApprovalsSaid, SameKey, ApprovalOfKey
<1>11. ASSUME NEW key \in Keys, Verify(key) PROVE ApprovalInv'
  BY <1>11 DEF Verify, local, trouble, Keys,
               ApprovalInv, ApprovalsSaid, SameKey, ApprovalOfKey
<1>12. ASSUME NEW key \in Keys, NEW status \in Statuses, Decide(key, status)
       PROVE  ApprovalInv'
  BY <1>12, DecideApprovalInv
<1>13. ASSUME NEW h \in Handlers, NEW m \in callbacks, Receive(h, m) PROVE ApprovalInv'
  BY <1>13, ReceiveApprovalInv
<1>14. ASSUME NEW h \in Handlers, Write(h) PROVE ApprovalInv'
  BY <1>14, WriteApprovalInv
<1>15. CASE UNCHANGED vars
  BY <1>15 DEF vars, local, remote, trouble, Keys,
               ApprovalInv, ApprovalsSaid, SameKey, ApprovalOfKey
<1> QED
  BY <1>1, <1>2, <1>3, <1>4, <1>5, <1>6, <1>7, <1>8, <1>9, <1>10, <1>11, <1>12,
     <1>13, <1>14, <1>15 DEF Next, Work, Operator, Provider

(* ApprovalOfKey: unless a registration is saved between the two halves of *)
(* a status update, an approved row holds a key the provider has approved. *)
THEOREM ApprovedKeyIsStored == Spec => []ApprovalOfKey
<1>1. Init => KeyInv /\ ApprovalInv
  BY InitKeyInv, InitApprovalInv
<1>2. KeyInv /\ ApprovalInv /\ [Next]_vars => (KeyInv /\ ApprovalInv)'
  BY NextKeyInv, NextApprovalInv
<1>3. ApprovalInv => ApprovalOfKey
  BY DEF ApprovalInv
<1> QED  BY <1>1, <1>2, <1>3, PTL DEF Spec
=============================================================================
