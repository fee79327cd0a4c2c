--------------------------- MODULE ProviderRegistry ---------------------------
(***************************************************************************)
(* The registration of this instance with one provider: the rows that      *)
(* feedctl (apps/cli/src/provider.rs) and the server's callback and verify *)
(* handlers (apps/server/src/routes/commonfeed) read and write without     *)
(* knowing of each other, through crates/state/src/providers.  Every       *)
(* statement commits by itself, so commands and callbacks interleave       *)
(* between reading the key and writing the status.                         *)
(*                                                                         *)
(* A registration is its api_key; request_id and verify_path are saved     *)
(* with the key and stand for the same registration.  Rows of different    *)
(* providers never meet, so one is enough.  No code deletes a row or       *)
(* changes p.enabled.                                                      *)
(***************************************************************************)
EXTENDS Integers, Sequences, FiniteSets

CONSTANTS
    Shells,         \* feedctl processes that may run at once
    Handlers,       \* callback requests that may be under way at once
    Capabilities,   \* what the provider publishes: [resource, algorithm]
    Routes,         \* fediway routes that sources can be enabled for
    Answers,        \* the statuses it may answer a registration with
    MaxKeys,        \* bound on the registrations the provider accepts
    Disruptions,    \* what may go wrong, see Suffer
    MaxDisruptions, \* how often, all kinds together
    Null            \* SQL NULL, and a row that is not there

Statuses == {"pending", "approved", "failed"}
Algorithms == {c.algorithm : c \in Capabilities}

ASSUME RegistryAssumption ==
    /\ Capabilities \subseteq [resource : STRING, algorithm : STRING]
    /\ IsFiniteSet(Capabilities)
    /\ Answers \subseteq Statuses /\ MaxKeys \in Nat /\ MaxDisruptions \in Nat
    /\ Null \notin Nat /\ Null \notin Statuses
    /\ Null \notin [key : Nat \cup {Null}, status : Statuses \cup {Null}]

VARIABLES
    provider,  \* the row of commonfeed_providers: [key, status]
    caps,      \* commonfeed_capabilities
    sources,   \* commonfeed_sources, by route and algorithm
    shell,     \* per feedctl process: the command, where it is, its locals
    handler,   \* per callback request: the status it is about to write
    grants,    \* the provider's own view: the status of each key it issued
    verified,  \* keys whose verification request was answered with 200
    callbacks, \* callbacks the provider has sent: [key, status]
    approvals, \* history: keys the provider ever approved
    used,      \* disruptions so far
    faults     \* "revoke" if it was one of them, and "overlap", see Save

local   == <<shell, handler>>
remote  == <<grants, verified, callbacks, approvals>>
trouble == <<used, faults>>
vars    == <<provider, caps, sources, local, remote, trouble>>

Keys == DOMAIN grants
Idle == [pc |-> "idle", command |-> "add", todo |-> {}, key |-> Null, status |-> Null]

\* "abort": a statement fails or feedctl is interrupted; "answer": a request to
\* the provider fails; "again": a callback is sent again (that it may be lost
\* needs no step: nothing makes it arrive); "revoke": an approval is withdrawn.
\* An overlap is noted but costs nothing.
Suffer(kinds) ==
    /\ kinds \ {"overlap"} \subseteq Disruptions
    /\ used' = used + Cardinality(kinds \ {"overlap"}) /\ used' <= MaxDisruptions
    /\ faults' = faults \cup (kinds \cap {"overlap", "revoke"})
Disrupt(d) == Suffer({d})

At(s, where) == shell[s].pc = where
Exit(s) == shell' = [shell EXCEPT ![s] = Idle]

Init ==
    /\ provider = Null /\ caps = {}
    /\ sources = [b \in Routes \X Algorithms |-> Null]
    /\ shell = [s \in Shells |-> Idle]
    /\ handler = [h \in Handlers |-> Null]
    /\ grants = <<>> /\ verified = {} /\ callbacks = {} /\ approvals = {}
    /\ used = 0 /\ faults = {}

----------------------------------------------------------------------------
\* What follows sync_provider's last statement.
AfterSync(command) == CASE command = "register" -> "post"
                        [] command = "status" -> "find"
                        [] OTHER -> "idle"
Syncing(command, todo) ==
    IF todo = {} THEN [Idle EXCEPT !.pc = AfterSync(command)]
    ELSE [Idle EXCEPT !.pc = "sync", !.command = command, !.todo = todo]

\* Mutants of NewRow: the column has the default 'pending'; the upsert is an
\* update only.
NoRow == Null
PendingRow == [key |-> Null, status |-> "pending"]
NewRow == [key |-> Null, status |-> Null]

\* A command fetches the well-known document (when that fails nothing is done)
\* and upserts the row, which keeps its registration if there is one, ...
Begin(s, command) ==
    /\ At(s, "idle")
    /\ provider' = IF provider = Null THEN NewRow ELSE provider
    /\ shell' = [shell EXCEPT ![s] = Syncing(command, Capabilities)]
    /\ UNCHANGED <<caps, sources, handler, remote, trouble>>

\* ... then has one statement per capability.
UpsertCapability(s) ==
    /\ At(s, "sync")
    /\ \E c \in shell[s].todo :
          /\ caps' = caps \cup {c}
          /\ shell' = [shell EXCEPT ![s] = Syncing(@.command, @.todo \ {c})]
    /\ UNCHANGED <<provider, sources, handler, remote, trouble>>

\* register: the provider issues a key, before the row knows about it, or
\* takes no more registrations.
Refused(s) ==
    /\ At(s, "post") /\ Len(grants) = MaxKeys
    /\ Exit(s)
    /\ UNCHANGED <<provider, caps, sources, handler, remote, trouble>>

Post(s) ==
    /\ At(s, "post") /\ Len(grants) < MaxKeys
    /\ \E status \in Answers :
          /\ grants' = Append(grants, status)
          /\ approvals' = approvals \cup
                (IF status = "approved" THEN {Len(grants) + 1} ELSE {})
          /\ \/ /\ shell' = [shell EXCEPT ![s] = [@ EXCEPT
                       !.pc = "save", !.key = Len(grants) + 1, !.status = status]]
                /\ UNCHANGED trouble
             \/ Exit(s) /\ Disrupt("answer")
    /\ UNCHANGED <<provider, caps, sources, handler, verified, callbacks>>

\* Somebody is between reading the key and writing the status.
StatusUnderWay == \/ \E s \in Shells : shell[s].pc \in {"ask", "update"}
                  \/ \E h \in Handlers : handler[h] # Null

\* Mutant: a status that is there is kept.
SavedKey(s) == [key |-> shell[s].key, status |->
                   IF provider.status = Null THEN shell[s].status ELSE provider.status]

\* save_registration replaces the whole registration.
Saved(s) == [key |-> shell[s].key, status |-> shell[s].status]
Save(s) ==
    /\ At(s, "save")
    /\ provider' = Saved(s)
    /\ Exit(s)
    /\ Suffer(IF StatusUnderWay THEN {"overlap"} ELSE {})
    /\ UNCHANGED <<caps, sources, handler, remote>>

----------------------------------------------------------------------------
\* Mutant: any decision ends the polling.
Decided(status) == status \in {"approved", "failed"}

\* status does not ask the provider again about an approval.
Settled(status) == status = "approved"

\* find_registration, with both early returns of status.
Find(s) ==
    /\ At(s, "find")
    /\ IF Settled(provider.status) \/ provider.key = Null
       THEN Exit(s)
       ELSE shell' = [shell EXCEPT ![s] = [@ EXCEPT !.pc = "ask", !.key = provider.key]]
    /\ UNCHANGED <<provider, caps, sources, handler, remote, trouble>>

Ask(s) ==
    /\ At(s, "ask")
    /\ \/ /\ shell' = [shell EXCEPT ![s] = [@ EXCEPT
                          !.pc = "update", !.status = grants[shell[s].key]]]
          /\ UNCHANGED trouble
       \/ Exit(s) /\ Disrupt("answer")
    /\ UNCHANGED <<provider, caps, sources, handler, remote>>

\* update_status goes by the domain alone.
WithStatus(status) == [provider EXCEPT !.status = status]
Update(s) ==
    /\ At(s, "update")
    /\ provider' = WithStatus(shell[s].status)
    /\ Exit(s)
    /\ UNCHANGED <<caps, sources, handler, remote, trouble>>

\* Any statement of a command fails, or the operator interrupts it: what was
\* written stays.
Abort(s) ==
    /\ ~At(s, "idle") /\ Disrupt("abort")
    /\ Exit(s)
    /\ UNCHANGED <<provider, caps, sources, handler, remote>>

\* enable: resolve_domain needs the row, the insert the capability (a foreign
\* key).  On conflict the row is switched on as it is.
Enabled(b, c) == IF sources[b] = Null
                 THEN [resource |-> c.resource, enabled |-> TRUE]
                 ELSE [sources[b] EXCEPT !.enabled = TRUE]
Enable(route, c) ==
    LET b == <<route, c.algorithm>>
    IN /\ provider # Null /\ (sources[b] = Null => c \in caps)
       /\ sources' = [sources EXCEPT ![b] = Enabled(b, c)]
       /\ UNCHANGED <<provider, caps, local, remote, trouble>>

\* disable looks at the algorithm only.
Disable(route, c) ==
    LET b == <<route, c.algorithm>>
    IN /\ provider # Null /\ sources[b] # Null
       /\ sources' = [sources EXCEPT ![b].enabled = FALSE]
       /\ UNCHANGED <<provider, caps, local, remote, trouble>>

----------------------------------------------------------------------------
\* verify: what the provider finds under the path it handed out.
Found(key) == provider # Null /\ provider.key = key /\ provider.status = "pending"
Verify(key) ==
    /\ key \notin verified /\ Found(key)
    /\ verified' = verified \cup {key}
    /\ UNCHANGED <<provider, caps, sources, local, grants, callbacks, approvals, trouble>>

\* The provider decides about a verified registration and sends a callback.
Decide(key, status) ==
    /\ \/ grants[key] = "pending" /\ status = "failed" /\ UNCHANGED trouble
       \/ grants[key] \in {"pending", "failed"} /\ key \in verified
          /\ status = "approved" /\ UNCHANGED trouble
       \/ grants[key] = "approved" /\ status = "failed" /\ Disrupt("revoke")
    /\ grants' = [grants EXCEPT ![key] = status]
    /\ approvals' = approvals \cup (IF status = "approved" THEN {key} ELSE {})
    /\ callbacks' = callbacks \cup {[key |-> key, status |-> status]}
    /\ UNCHANGED <<provider, caps, sources, local, verified>>

\* A callback arrives.  It is answered 404 or 401 unless it is signed with the
\* key that is stored now.  The provider may not get the answer.
Accepted(m) == provider # Null /\ provider.key # Null /\ m.key = provider.key
Receive(h, m) ==
    /\ handler[h] = Null
    /\ handler' = [handler EXCEPT ![h] = IF Accepted(m) THEN m.status ELSE Null]
    /\ \/ callbacks' = callbacks \ {m} /\ UNCHANGED trouble
       \/ UNCHANGED callbacks /\ Disrupt("again")
    /\ UNCHANGED <<provider, caps, sources, shell, grants, verified, approvals>>

\* The handler's update_status.
Write(h) ==
    /\ handler[h] # Null
    /\ \/ provider' = WithStatus(handler[h]) /\ UNCHANGED trouble
       \/ UNCHANGED provider /\ Disrupt("abort")
    /\ handler' = [handler EXCEPT ![h] = Null]
    /\ UNCHANGED <<caps, sources, shell, remote>>

----------------------------------------------------------------------------
Work(s) == \/ UpsertCapability(s) \/ Post(s) \/ Refused(s)
           \/ Save(s) \/ Find(s) \/ Ask(s) \/ Update(s)
Operator == \/ \E s \in Shells :
                  \/ \E command \in {"add", "register", "status"} : Begin(s, command)
                  \/ Abort(s)
            \/ \E route \in Routes, c \in Capabilities :
                  Enable(route, c) \/ Disable(route, c)
Provider == \E key \in Keys : Verify(key) \/ \E status \in Statuses : Decide(key, status)

Next == \/ (\E s \in Shells : Work(s)) \/ Operator \/ Provider
        \/ \E h \in Handlers : Write(h) \/ \E m \in callbacks : Receive(h, m)

Spec == Init /\ [][Next]_vars

\* Commands and handlers run on, and the operator checks the status again and
\* again.
FairSpec ==
    /\ Spec
    /\ \A s \in Shells : WF_vars(Work(s)) /\ SF_vars(Begin(s, "status"))
    /\ \A h \in Handlers : WF_vars(Write(h))

----------------------------------------------------------------------------
TypeOK ==
    /\ provider \in {Null} \cup [key : Keys \cup {Null}, status : Statuses \cup {Null}]
    /\ caps \subseteq Capabilities
    /\ sources \in [Routes \X Algorithms ->
          {Null} \cup [resource : {c.resource : c \in Capabilities}, enabled : BOOLEAN]]
    /\ shell \in [Shells ->
          [pc : {"idle", "sync", "post", "save", "find", "ask", "update"},
           command : {"add", "register", "status"}, todo : SUBSET Capabilities,
           key : Keys \cup {Null}, status : Statuses \cup {Null}]]
    /\ \A s \in Shells : ~At(s, "idle") => provider # Null
    /\ handler \in [Handlers -> Statuses \cup {Null}]
    /\ grants \in Seq(Statuses) /\ Len(grants) <= MaxKeys
    /\ verified \subseteq Keys /\ approvals \subseteq Keys
    /\ callbacks \subseteq [key : Keys, status : Statuses]
    /\ used \in 0..MaxDisruptions /\ faults \subseteq {"overlap", "revoke"}

(* The queries that serve a feed decode api_key of every approved row as a *)
(* string, so that one without a key would fail all providers of a route:  *)
(* a status is only ever written next to a key, by whatever interleaving   *)
(* of commands and callbacks.                                              *)
StatusNeedsKey ==
    provider # Null /\ provider.status # Null => provider.key # Null

(* Requests are sent with a key only after the provider has approved it:   *)
(* an approval of an earlier registration, an old or repeated callback or  *)
(* the answer to an old status request does not approve the key that is    *)
(* stored now, unless a registration was saved while one of them was       *)
(* between reading the key and writing the status.                         *)
ApprovalOfKey ==
    provider # Null /\ provider.status = "approved" /\ "overlap" \notin faults
        => provider.key \in approvals

(* The row comes to show what the provider has decided about the key, also *)
(* when callbacks are lost, repeated, late, out of order or arrive before  *)
(* the registration is saved, as long as the operator asks for the status, *)
(* unless an approval was withdrawn or an overlap of the kind above has    *)
(* left an approval that status does not question.                         *)
StatusConverges ==
    \/ <>(faults \cap {"overlap", "revoke"} # {})
    \/ <>[](provider # Null /\ provider.key # Null => provider.status = grants[provider.key])
=============================================================================
