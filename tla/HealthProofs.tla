---------------------------- MODULE HealthProofs ----------------------------
(***************************************************************************)
(* Theorems about Health, for every set of deployments, every declared     *)
(* state, every threshold and every cap.                                   *)
(***************************************************************************)
EXTENDS Health, TLAPS

\* What a tracker's deployment counts as is always a health state.
LEMMA StateForType ==
    ASSUME HealthTypeOK, NEW d \in Deployments
    PROVE  state_for(d) \in HealthState
BY DEF HealthTypeOK, state_for, HealthState

\* The failure counter saturates at its cap.
LEMMA OneMoreType ==
    ASSUME NEW n \in 0..FailureCap
    PROVE  /\ OneMore(n) \in 0..FailureCap
           /\ OneMore(n) >= n
           /\ OneMore(n) > 0
BY HealthAssumption DEF OneMore

(***************************************************************************)
(* The tracker's fields keep their types through every recording and every *)
(* step of the probe loop (health.py:29-166).                              *)
(***************************************************************************)
LEMMA HealthTypeStep ==
    ASSUME HealthTypeOK, [HealthNext]_healthVars
    PROVE  HealthTypeOK'
<1> USE HealthAssumption DEF HealthTypeOK
<1>1. ASSUME NEW enabled \in SUBSET Deployments, StartProbePass(enabled)
      PROVE  HealthTypeOK'
  BY <1>1 DEF StartProbePass
<1>2. ASSUME NEW d \in Deployments, AskDeployment(d)
      PROVE  HealthTypeOK'
  BY <1>2 DEF AskDeployment
<1>3. ASSUME NEW d \in Deployments, NEW report \in ProbeReport,
             ProbeAnswers(d, report)
      PROVE  HealthTypeOK'
  <2>1. state_for(d) \in HealthState /\ report \in HealthState
    BY StateForType DEF ProbeReport, HealthState
  <2>2. QED
    BY <1>3, <2>1 DEF ProbeAnswers, RecordProbe
<1>4. ASSUME NEW d \in Deployments, RequestSucceeds(d)
      PROVE  HealthTypeOK'
  <2>1. state_for(d) \in HealthState /\ "ready" \in HealthState
    BY StateForType DEF HealthState
  <2>2. QED
    BY <1>4, <2>1 DEF RequestSucceeds, RecordSuccess
<1>5. ASSUME NEW d \in Deployments, RequestFails(d)
      PROVE  HealthTypeOK'
  <2>1. state_for(d) \in HealthState /\ {"offline", "degraded"} \subseteq HealthState
    BY StateForType DEF HealthState
  <2>2. OneMore(failures[d]) \in 0..FailureCap
    BY OneMoreType
  <2>3. QED
    BY <1>5, <2>1, <2>2 DEF RequestFails, RecordFailure
<1>6. CASE UNCHANGED healthVars
  BY <1>6 DEF healthVars
<1>7. QED
  BY <1>1, <1>2, <1>3, <1>4, <1>5, <1>6 DEF HealthNext, ProbeLoop

\* A tracker that has just been seeded is well typed.
LEMMA HealthTypeInit ==
    ASSUME HealthInit
    PROVE  HealthTypeOK
BY HealthAssumption DEF HealthInit, HealthTypeOK, Seeded

\* The tracker and the probe loop are well typed in every reachable state.
THEOREM HealthTypeCorrect == HealthSpec => []HealthTypeOK
<1>1. HealthInit => HealthTypeOK
  BY HealthTypeInit
<1>2. HealthTypeOK /\ [HealthNext]_healthVars => HealthTypeOK'
  BY HealthTypeStep
<1>3. QED
  BY <1>1, <1>2, PTL DEF HealthSpec

-----------------------------------------------------------------------------
(***************************************************************************)
(* Failures outweigh probes (health.py:113-131).  With the types the       *)
(* invariant is inductive: the only steps that could break it are a probe  *)
(* answered ready, which is dropped, and a failure, which takes the        *)
(* deployment offline the moment the threshold is reached.                 *)
(***************************************************************************)
LEMMA OutweighStep ==
    ASSUME HealthTypeOK, FailuresOutweighProbes, [HealthNext]_healthVars
    PROVE  FailuresOutweighProbes'
<1> USE HealthAssumption DEF HealthTypeOK, FailuresOutweighProbes
<1>1. ASSUME NEW enabled \in SUBSET Deployments, StartProbePass(enabled)
      PROVE  FailuresOutweighProbes'
  BY <1>1 DEF StartProbePass
<1>2. ASSUME NEW d \in Deployments, AskDeployment(d)
      PROVE  FailuresOutweighProbes'
  BY <1>2 DEF AskDeployment
<1>3. ASSUME NEW d \in Deployments, NEW report \in ProbeReport,
             ProbeAnswers(d, report)
      PROVE  FailuresOutweighProbes'
  BY <1>3 DEF ProbeAnswers, RecordProbe, ProbeReport, state_for
<1>4. ASSUME NEW d \in Deployments, RequestSucceeds(d)
      PROVE  FailuresOutweighProbes'
  BY <1>4 DEF RequestSucceeds, RecordSuccess
<1>5. ASSUME NEW d \in Deployments, RequestFails(d)
      PROVE  FailuresOutweighProbes'
  BY <1>5 DEF RequestFails, RecordFailure
<1>6. CASE UNCHANGED healthVars
  BY <1>6 DEF healthVars
<1>7. QED
  BY <1>1, <1>2, <1>3, <1>4, <1>5, <1>6 DEF HealthNext, ProbeLoop

\* No probe talks the tracker out of what the requests have shown.
THEOREM FailuresOutweighProbesHolds == HealthSpec => []FailuresOutweighProbes
<1>1. HealthInit => FailuresOutweighProbes
  BY HealthAssumption DEF HealthInit, FailuresOutweighProbes
<1>2. HealthTypeOK /\ FailuresOutweighProbes /\ [HealthNext]_healthVars
         => FailuresOutweighProbes'
  BY OutweighStep
<1>3. QED
  BY <1>1, <1>2, HealthTypeCorrect, PTL DEF HealthSpec

-----------------------------------------------------------------------------
\* A deployment leaves the rotation by the failure that reaches the threshold
\* or by an answered probe (health.py:87-131).
THEOREM NoHastyEvictionHolds == HealthSpec => NoHastyEviction
<1>1. ASSUME HealthTypeOK, [HealthNext]_healthVars
      PROVE  [EvictedForCause]_healthVars
  <2> USE HealthAssumption
      DEF HealthTypeOK, EvictedForCause, Routable, state_for, is_routable
  <2>1. ASSUME NEW enabled \in SUBSET Deployments, StartProbePass(enabled)
        PROVE  EvictedForCause
    BY <2>1 DEF StartProbePass
  <2>2. ASSUME NEW d \in Deployments, AskDeployment(d)
        PROVE  EvictedForCause
    BY <2>2 DEF AskDeployment
  <2>3. ASSUME NEW d \in Deployments, NEW report \in ProbeReport,
               ProbeAnswers(d, report)
        PROVE  EvictedForCause
    BY <2>3 DEF ProbeAnswers, RecordProbe
  <2>4. ASSUME NEW d \in Deployments, RequestSucceeds(d)
        PROVE  EvictedForCause
    BY <2>4 DEF RequestSucceeds, RecordSuccess
  <2>5. ASSUME NEW d \in Deployments, RequestFails(d)
        PROVE  EvictedForCause
    BY <1>1, <2>5 DEF RequestFails, RecordFailure, OneMore
  <2>6. QED
    BY <1>1, <2>1, <2>2, <2>3, <2>4, <2>5 DEF HealthNext, ProbeLoop
<1>2. QED
  BY <1>1, HealthTypeCorrect, PTL DEF HealthSpec, NoHastyEviction, EvictedForCause

=============================================================================
