------------------------------ MODULE Limiter -------------------------------
(***************************************************************************)
(* How many requests of an organization the gateway's public endpoint lets *)
(* in (services/gateway: rate_limit and redis_client).  With Redis the     *)
(* instances share a counter to each minute of the clock; without, each    *)
(* keeps the times of its own last admissions.                             *)
(*                                                                         *)
(* A request reads the clock once; with Redis it is counted some time      *)
(* after.  INCR and EXPIRE are one transaction of Redis.  Redis may fail a *)
(* command, before or after it has counted; it does not lose its counters. *)
(***************************************************************************)
EXTENDS Integers, Sequences, FiniteSets

CONSTANTS
    Orgs,           \* organizations
    Instances,      \* gateway processes
    Requests,       \* requests with a valid key
    Limits,         \* what rate_limit_per_minute may be set to
    Window,         \* a minute
    Expiry,         \* how long a counter lives after it was last raised
    MaxDelay,       \* bound: a slower command has failed
    MaxClock,       \* bound: how long the clock runs
    Disturbances,   \* whether "redis" may fail
    None            \* absent

ASSUME LimiterAssumption ==
    /\ IsFiniteSet(Requests)
    /\ Limits \subseteq Nat
    /\ Window \in Nat \ {0} /\ MaxClock \in Nat
    /\ MaxDelay \in Nat /\ Expiry \in Nat /\ MaxDelay + Window <= Expiry
    /\ Disturbances \subseteq {"redis"}
    /\ None \notin Orgs \cup Instances

VARIABLES
    enabled,        \* whether the instances were started with Redis
    limit,          \* rate_limit_per_minute
    clock,          \* time.time()
    counter,        \* Redis: counter[o][minute]
    local,          \* local[i][o]: when instance i last admitted o
    request         \* the requests

limiterVars == <<enabled, limit, clock, counter, local, request>>

Minute(time) == time \div Window
Minutes == 0 .. Minute(MaxClock)

Counter == [count : Nat, expires : Nat]
RequestState ==
    [phase : {"new", "counting", "admitted", "limited", "failed"},
     org : Orgs \cup {None}, instance : Instances \cup {None}, asked : 0 .. MaxClock]
Fresh == [phase |-> "new", org |-> None, instance |-> None, asked |-> 0]

\* Types.
LimiterTypeOK ==
    /\ enabled \in BOOLEAN
    /\ limit \in Limits
    /\ clock \in 0 .. MaxClock
    /\ counter \in [Orgs -> [Minutes -> Counter]]
    /\ local \in [Instances -> [Orgs -> Seq(Nat)]]
    /\ request \in [Requests -> RequestState]

-----------------------------------------------------------------------------
\* A counter that has expired is gone: INCR makes a new one.
Count(o, minute) ==
    IF counter[o][minute].expires > clock THEN counter[o][minute].count ELSE 0

\* Mutant of Stale: nothing is popped.
StaleNever(q) == 0

\* How many admissions are popped from the head of a queue, until one is met that
\* is no longer ago than a window, and what is left then.
Stale(q) ==
    CHOOSE k \in 0 .. Len(q) :
        /\ \A j \in 1 .. k : clock - q[j] > Window
        /\ k < Len(q) => clock - q[k + 1] <= Window
Popped(q) == SubSeq(q, Stale(q) + 1, Len(q))

Asks(r, phase, o, i) ==
    request' = [request EXCEPT ![r] =
                   [phase |-> phase, org |-> o, instance |-> i, asked |-> clock]]

\* Without a limit, or without Redis, the answer is at hand.
AllowUnlimited(r, o, i) ==
    /\ request[r].phase = "new"
    /\ limit <= 0
    /\ Asks(r, "admitted", o, i)
    /\ UNCHANGED <<enabled, limit, clock, counter, local>>

_allow_local(r, o, i) ==
    LET q == Popped(local[i][o]) IN
    /\ request[r].phase = "new"
    /\ limit > 0 /\ ~enabled
    /\ IF Len(q) >= limit
       THEN /\ Asks(r, "limited", o, i)
            /\ local' = [local EXCEPT ![i][o] = q]
       ELSE /\ Asks(r, "admitted", o, i)
            /\ local' = [local EXCEPT ![i][o] = Append(q, clock)]
    /\ UNCHANGED <<enabled, limit, clock, counter>>

\* With Redis the clock is read for the key ...
AskRedis(r, o, i) ==
    /\ request[r].phase = "new"
    /\ limit > 0 /\ enabled
    /\ Asks(r, "counting", o, i)
    /\ UNCHANGED <<enabled, limit, clock, counter, local>>

\* Mutant of Incremented: the counter lives half a minute.
IncrementedShortLived(r) ==
    LET o == request[r].org
        m == Minute(request[r].asked)
    IN  [counter EXCEPT ![o][m] =
            [count |-> Count(o, m) + 1, expires |-> clock + Window \div 2]]

\* ... and the request counted under it, by when the minute may be over.
Incremented(r) ==
    LET o == request[r].org
        m == Minute(request[r].asked)
    IN  [counter EXCEPT ![o][m] = [count |-> Count(o, m) + 1, expires |-> clock + Expiry]]

incr_with_expiry(r) ==
    /\ request[r].phase = "counting"
    /\ clock - request[r].asked <= MaxDelay
    /\ counter' = Incremented(r)
    /\ request' = [request EXCEPT ![r].phase =
          IF Count(request[r].org, Minute(request[r].asked)) + 1 <= limit
          THEN "admitted" ELSE "limited"]
    /\ UNCHANGED <<enabled, limit, clock, local>>

\* The command, or its reply, is lost: the request fails, there is no fallback.
RedisFails(r) ==
    /\ "redis" \in Disturbances
    /\ request[r].phase = "counting"
    /\ request' = [request EXCEPT ![r].phase = "failed"]
    /\ \/ UNCHANGED counter
       \/ clock - request[r].asked <= MaxDelay /\ counter' = Incremented(r)
    /\ UNCHANGED <<enabled, limit, clock, local>>

Tick ==
    /\ clock < MaxClock
    /\ clock' = clock + 1
    /\ UNCHANGED <<enabled, limit, counter, local, request>>

-----------------------------------------------------------------------------
Init ==
    /\ enabled \in BOOLEAN
    /\ limit \in Limits
    /\ clock = 0
    /\ counter = [o \in Orgs |-> [m \in Minutes |-> [count |-> 0, expires |-> 0]]]
    /\ local = [i \in Instances |-> [o \in Orgs |-> <<>>]]
    /\ request = [r \in Requests |-> Fresh]

Next ==
    \/ \E r \in Requests, o \in Orgs, i \in Instances :
          AllowUnlimited(r, o, i) \/ _allow_local(r, o, i) \/ AskRedis(r, o, i)
    \/ \E r \in Requests : incr_with_expiry(r) \/ RedisFails(r)
    \/ Tick

Spec == Init /\ [][Next]_limiterVars
-----------------------------------------------------------------------------
Asked(o, phases) == {r \in Requests : request[r].org = o /\ request[r].phase \in phases}
OfMinute(some, m) == {r \in some : Minute(request[r].asked) = m}
Between(some, i, from, to) ==
    {r \in some : request[r].instance = i /\ request[r].asked \in from .. to}

(***************************************************************************)
(* Nobody gets more than the limit: with Redis all instances together let  *)
(* in at most limit of the requests an organization makes in a minute of   *)
(* the clock, however long their counting is delayed into the next and     *)
(* whatever commands are lost; without it each instance lets in at most    *)
(* limit within any window of a minute, its edges included.                *)
(* (RateLimiter.allow_async)                                               *)
(***************************************************************************)
WithinTheLimit ==
    limit > 0 =>
       \A o \in Orgs :
          IF enabled
          THEN \A m \in Minutes :
                  Cardinality(OfMinute(Asked(o, {"admitted"}), m)) <= limit
          ELSE \A i \in Instances, t \in 0 .. MaxClock :
                  Cardinality(Between(Asked(o, {"admitted"}), i, t, t + Window)) <= limit

(***************************************************************************)
(* Nobody is turned away for another, or for what is past: when a request  *)
(* is limited, its own organization has made limit others that Redis may   *)
(* have counted in the same minute, or its own instance has let in limit   *)
(* of them in the minute before.  (deps.py:93, rate_limit.py:31)           *)
(***************************************************************************)
LimitedForCause ==
    \A r \in Requests :
       LET o == request[r].org
           t == request[r].asked
       IN  request[r].phase = "limited" =>
              /\ limit > 0
              /\ IF enabled
                 THEN Cardinality(OfMinute(Asked(o, {"admitted", "limited", "failed"}),
                                           Minute(t)) \ {r}) >= limit
                 ELSE Cardinality(Between(Asked(o, {"admitted"}), request[r].instance,
                                          t - Window, t)) >= limit

=============================================================================
