---------------------------- MODULE CacheBreaker ----------------------------
(***************************************************************************)
(* The circuit breaker in front of Redis of crates/state/src/cache.rs.     *)
(* Cache::get and Cache::set share one CircuitState of two atomics that    *)
(* are read and written one at a time, so the operations of concurrent     *)
(* tasks interleave between the test of is_open and the record of the      *)
(* outcome, and between record_failure's fetch_add and its store.          *)
(*                                                                         *)
(* skip_until_unix is kept as the seconds left until then, 0 once it is    *)
(* past.  Each task performs one operation after the other.                *)
(***************************************************************************)
EXTENDS Integers

CONSTANTS
    Tasks,            \* tasks that use the cache concurrently
    FailureThreshold, \* FAILURE_THRESHOLD
    Cooldown,         \* COOLDOWN, in seconds
    MaxFailures       \* bound on the counter, for model checking

ASSUME BreakerAssumption ==
    /\ FailureThreshold \in Nat \ {0} /\ Cooldown \in Nat \ {0}
    /\ MaxFailures \in Nat /\ MaxFailures >= FailureThreshold

VARIABLES
    failures, \* consecutive_failures
    left,     \* skip_until_unix - now_unix(), or 0
    pc,       \* per task: "idle", "sent" to Redis, "tripping" before the store
    redisUp,  \* whether Redis answers
    outage,   \* history: the threshold was reached, and no success since
    probed    \* history: tasks that went to Redis since the breaker last opened

breakerVars == <<failures, left, pc, redisUp, outage, probed>>

IsOpen == left > 0

BreakerInit ==
    /\ failures = 0 /\ left = 0
    /\ pc = [t \in Tasks |-> "idle"]
    /\ redisUp \in BOOLEAN
    /\ outage = FALSE /\ probed = {}

\* get or set finds the breaker closed.  When it is open the call returns at once.
Send(t) ==
    /\ pc[t] = "idle" /\ ~IsOpen
    /\ pc' = [pc EXCEPT ![t] = "sent"]
    /\ probed' = probed \cup {t}
    /\ UNCHANGED <<failures, left, redisUp, outage>>

\* record_success: a missing key is a success too.
Succeed(t) ==
    /\ pc[t] = "sent" /\ redisUp
    /\ failures' = 0
    /\ pc' = [pc EXCEPT ![t] = "idle"]
    /\ outage' = FALSE
    /\ UNCHANGED <<left, redisUp, probed>>

\* An Err of the request; the mutant takes a missing key for a failure too.
MissFails == TRUE
RequestFails == ~redisUp

\* record_failure up to its fetch_add, whose result decides about the store.
\* Beyond the threshold the counter's value no longer matters: it saturates.
Fail(t) ==
    /\ pc[t] = "sent" /\ RequestFails
    /\ failures' = IF failures = MaxFailures THEN failures ELSE failures + 1
    /\ IF failures + 1 >= FailureThreshold
       THEN /\ pc' = [pc EXCEPT ![t] = "tripping"]
            /\ outage' = TRUE
            /\ probed' = IF outage THEN probed ELSE {}
       ELSE pc' = [pc EXCEPT ![t] = "idle"] /\ UNCHANGED <<outage, probed>>
    /\ UNCHANGED <<left, redisUp>>

\* Mutants: the cooldown is added to what is left of the last one, and the
\* counter starts again with the cooldown.
TripLonger(t) ==
    /\ pc[t] = "tripping"
    /\ left' = left + Cooldown
    /\ pc' = [pc EXCEPT ![t] = "idle"]
    /\ probed' = {}
    /\ UNCHANGED <<failures, redisUp, outage>>
TripAfresh(t) ==
    /\ pc[t] = "tripping"
    /\ left' = Cooldown /\ failures' = 0
    /\ pc' = [pc EXCEPT ![t] = "idle"]
    /\ probed' = {}
    /\ UNCHANGED <<redisUp, outage>>

\* The store of skip_until_unix.
Trip(t) ==
    /\ pc[t] = "tripping"
    /\ left' = Cooldown
    /\ pc' = [pc EXCEPT ![t] = "idle"]
    /\ probed' = {}
    /\ UNCHANGED <<failures, redisUp, outage>>

Tick ==
    /\ left > 0 /\ left' = left - 1
    /\ UNCHANGED <<failures, pc, redisUp, outage, probed>>

RedisChanges ==
    /\ redisUp' = ~redisUp
    /\ UNCHANGED <<failures, left, pc, outage, probed>>

BreakerNext ==
    \/ \E t \in Tasks : Send(t) \/ Succeed(t) \/ Fail(t) \/ Trip(t)
    \/ Tick \/ RedisChanges

BreakerSpec == BreakerInit /\ [][BreakerNext]_breakerVars

\* Time passes, and a request that was sent is answered and recorded.
BreakerFairSpec ==
    /\ BreakerSpec /\ WF_breakerVars(Tick)
    /\ \A t \in Tasks : WF_breakerVars(Succeed(t) \/ Fail(t) \/ Trip(t))

----------------------------------------------------------------------------
BreakerTypeOK ==
    /\ failures \in 0..MaxFailures /\ left \in 0..Cooldown
    /\ pc \in [Tasks -> {"idle", "sent", "tripping"}]
    /\ redisUp \in BOOLEAN /\ outage \in BOOLEAN /\ probed \subseteq Tasks

(* Nothing lets a single request through when the cooldown ends: every     *)
(* task may pass is_open.  What bounds the load on a failing Redis is that *)
(* consecutive_failures is not reset with the cooldown: once the threshold *)
(* was reached and until a request succeeds, a task goes to Redis at most  *)
(* once between two openings of the breaker.                               *)
OneProbePerTask == outage => \A t \in probed : pc[t] # "idle"

(* Once Redis answers for good, requests that failed before may still open *)
(* the breaker, but in the end it stays closed and the cache is used.      *)
Recovers == <>[]redisUp => <>[](left = 0)
=============================================================================
