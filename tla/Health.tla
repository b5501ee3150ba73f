------------------------------- MODULE Health -------------------------------
(***************************************************************************)
(* The gateway's HealthTracker (gateway_app/health.py) and its background  *)
(* probe loop.  Two callers write the tracker: the executor reports the    *)
(* outcome of real requests, and the probe loop reports what a deployment  *)
(* answered to an active probe.  Both run on one event loop, so each       *)
(* record_* call is one atomic step, but a probe awaits its answer: the    *)
(* outcomes of any number of requests may be recorded between the moment a *)
(* deployment is asked and the moment its report is recorded.              *)
(*                                                                         *)
(* Here the outcomes of requests are unconstrained; Gateway says which     *)
(* ones the resolver and the executor really produce.                      *)
(***************************************************************************)
EXTENDS Integers

CONSTANTS
    Deployments,       \* every deployment key a catalog snapshot may name
    InitialHealth,     \* the initial_health each one declares
    FailureThreshold,  \* unhealthy_failure_threshold
    FailureCap,        \* bound: the failure counter saturates here
    NoDeployment       \* the probe loop is not waiting for an answer

HealthState == {"provisioning", "warming", "ready", "overloaded",
                "degraded", "draining", "offline"}

\* What an adapter's health() can report; an exception is "offline".
ProbeReport == {"ready", "degraded", "offline"}

ASSUME HealthAssumption ==
    /\ InitialHealth \in [Deployments -> HealthState]
    /\ FailureThreshold \in Nat \ {0}
    /\ FailureCap \in Nat
    /\ FailureCap >= FailureThreshold
    /\ NoDeployment \notin Deployments

VARIABLES
    entry,     \* HealthTracker._states: the state, or "unknown" for no entry
    failures,  \* consecutive_failures of each entry
    prober     \* the probe loop: [todo, asking]

healthVars == <<entry, failures, prober>>

HealthTypeOK ==
    /\ entry \in [Deployments -> HealthState \cup {"unknown"}]
    /\ failures \in [Deployments -> 0..FailureCap]
    /\ prober \in [todo : SUBSET Deployments,
                   asking : Deployments \cup {NoDeployment}]

-----------------------------------------------------------------------------
\* A deployment the tracker has no entry for counts as ready.
state_for(d) == IF entry[d] = "unknown" THEN "ready" ELSE entry[d]

is_routable(state) == state \in {"ready", "overloaded", "degraded"}
Routable(d) == is_routable(state_for(d))

\* seed(): the tracker's entries after startup with a catalog naming "listed".
Seeded(listed) ==
    [d \in Deployments |-> IF d \in listed THEN InitialHealth[d] ELSE "unknown"]

OneMore(n) == IF n < FailureCap THEN n + 1 ELSE n

RecordSuccess(d) ==
    /\ failures' = [failures EXCEPT ![d] = 0]
    /\ entry' = [entry EXCEPT ![d] =
          IF state_for(d) \in {"degraded", "offline", "warming"}
          THEN "ready" ELSE state_for(d)]

RecordFailureEarly(d) ==
    LET n == OneMore(failures[d]) IN
    /\ failures' = [failures EXCEPT ![d] = n]
    /\ entry' = [entry EXCEPT ![d] =
          IF n + 1 >= FailureThreshold THEN "offline"
          ELSE IF state_for(d) = "ready" THEN "degraded" ELSE state_for(d)]

RecordFailure(d) ==
    LET n == OneMore(failures[d]) IN
    /\ failures' = [failures EXCEPT ![d] = n]
    /\ entry' = [entry EXCEPT ![d] =
          IF n >= FailureThreshold THEN "offline"
          ELSE IF state_for(d) = "ready" THEN "degraded" ELSE state_for(d)]

RecordProbeAlways(d, report) ==
    /\ entry' = [entry EXCEPT ![d] = report]
    /\ failures' = failures

RecordProbeKeepsError(d, report) ==
    /\ entry' = [entry EXCEPT ![d] =
          IF report = "offline" THEN "ConnectError" ELSE report]
    /\ failures' = failures

RecordProbeDistrustsAnyFailure(d, report) ==
    /\ entry' = [entry EXCEPT ![d] =
          IF report = "ready" /\ failures[d] > 0 THEN state_for(d) ELSE report]
    /\ failures' = failures

(***************************************************************************)
(* A ready report is dropped once the failures have reached the threshold; *)
(* any other report replaces the state.  The failure count is untouched.   *)
(***************************************************************************)
RecordProbe(d, report) ==
    /\ entry' = [entry EXCEPT ![d] =
          IF report = "ready" /\ failures[d] >= FailureThreshold
          THEN state_for(d) ELSE report]
    /\ failures' = failures

-----------------------------------------------------------------------------
\* health_probe_loop: a new pass over the enabled deployments of a snapshot.
StartProbePass(enabled) ==
    /\ prober.todo = {} /\ prober.asking = NoDeployment
    /\ enabled # {}
    /\ prober' = [prober EXCEPT !.todo = enabled]
    /\ UNCHANGED <<entry, failures>>

\* probe_once: the adapter's health() is awaited.
AskDeployment(d) ==
    /\ prober.asking = NoDeployment
    /\ d \in prober.todo
    /\ prober' = [todo |-> prober.todo \ {d}, asking |-> d]
    /\ UNCHANGED <<entry, failures>>

\* The report arrives and is recorded.
ProbeAnswers(d, report) ==
    /\ prober.asking = d
    /\ RecordProbe(d, report)
    /\ prober' = [prober EXCEPT !.asking = NoDeployment]

RequestSucceeds(d) == RecordSuccess(d) /\ UNCHANGED prober
RequestFails(d) == RecordFailure(d) /\ UNCHANGED prober

ProbeLoop ==
    \/ \E enabled \in SUBSET Deployments : StartProbePass(enabled)
    \/ \E d \in Deployments :
          \/ AskDeployment(d)
          \/ \E report \in ProbeReport : ProbeAnswers(d, report)

HealthInit ==
    /\ \E listed \in SUBSET Deployments : entry = Seeded(listed)
    /\ failures = [d \in Deployments |-> 0]
    /\ \E enabled \in SUBSET Deployments :
          prober = [todo |-> enabled, asking |-> NoDeployment]

HealthNext ==
    \/ ProbeLoop
    \/ \E d \in Deployments : RequestSucceeds(d) \/ RequestFails(d)

HealthSpec == HealthInit /\ [][HealthNext]_healthVars

-----------------------------------------------------------------------------
(***************************************************************************)
(* Once the failures of real requests have reached the threshold, no       *)
(* sequence of probes, however late or stale, makes the tracker believe    *)
(* the deployment is fine: it is never ready (and never back in the state  *)
(* it was seeded with) before a request has succeeded on it.               *)
(***************************************************************************)
FailuresOutweighProbes ==
    \A d \in Deployments :
        failures[d] >= FailureThreshold => entry[d] \in {"offline", "degraded"}

(***************************************************************************)
(* A run of request failures shorter than the threshold never takes a      *)
(* deployment out of rotation on its own: if a step makes a routable       *)
(* deployment unroutable, either the threshold was reached by that very    *)
(* failure or an answered probe said so.                                   *)
(***************************************************************************)
EvictedForCause ==
    \A d \in Deployments :
        Routable(d) /\ ~Routable(d)' =>
           \/ failures[d] < failures'[d] /\ failures'[d] >= FailureThreshold
           \/ failures[d] >= FailureThreshold /\ prober' = prober
           \/ prober.asking = d /\ prober'.asking = NoDeployment

\* Every step evicts for cause only.
NoHastyEviction == [][EvictedForCause]_healthVars

=============================================================================
