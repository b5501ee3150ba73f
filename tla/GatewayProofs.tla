--------------------------- MODULE GatewayProofs ----------------------------
(***************************************************************************)
(* Theorems about Gateway, for every catalog, every set of callers and     *)
(* requests, every reload and any number of attempts.                      *)
(***************************************************************************)
EXTENDS Gateway, HealthProofs, FiniteSetTheorems, SequenceTheorems

-----------------------------------------------------------------------------
(***************************************************************************)
(* Resolution.                                                             *)
(***************************************************************************)
\* Every candidate was let through by policy, whatever its health and its score.
LEMMA CandidatesPermitted ==
    ASSUME NEW ask \in Asks
    PROVE  /\ Candidates(ask) \subseteq PermittedTo(ask)
           /\ Candidates(ask) \subseteq Deployments
BY GatewayAssumption DEF Candidates, Eligible, PermittedTo

\* The chain that is tried is a non-empty sequence of the candidates.
LEMMA AttemptsType ==
    ASSUME NEW ask \in Asks, Candidates(ask) # {},
           NEW ranked \in Rankings(ask, Candidates(ask))
    PROVE  /\ Attempts(ask, ranked) \in Seq(Candidates(ask))
           /\ 1 \in 1..Len(Attempts(ask, ranked))
<1> DEFINE ds == Candidates(ask)
           n == Cardinality(ds)
           m == IF ask.pinned \/ ask.op = "embed" THEN 1 ELSE MaxAttempts
           k == IF m < Len(ranked) THEN m ELSE Len(ranked)
<1>1. IsFiniteSet(ds)
  BY CandidatesPermitted, GatewayAssumption, FS_Subset
<1>2. n \in Nat /\ n # 0
  BY <1>1, FS_CardinalityType, FS_EmptySet
<1>3. ranked \in [1..n -> ds]
  BY DEF Rankings
<1>4. Len(ranked) = n
  BY <1>2, <1>3
<1>5. k \in 1..n
  BY <1>2, <1>4, GatewayAssumption
<1>6. Attempts(ask, ranked) = [i \in 1..k |-> ranked[i]]
  BY DEF Attempts
<1>7. \A i \in 1..k : ranked[i] \in ds
  <2>1. \A i \in 1..k : i \in 1..n
    BY <1>2, <1>5
  <2> HIDE DEF ds, n, k
  <2>2. QED
    BY <1>3, <2>1
<1>8. QED
  BY <1>5, <1>6, <1>7

-----------------------------------------------------------------------------
(***************************************************************************)
(* Types.                                                                  *)
(***************************************************************************)
RequestsTyped ==
    /\ request \in [Requests -> RequestState]
    /\ \A r \in Requests :
          request[r].phase \in InFlight =>
             request[r].attempt \in 1..Len(request[r].chain)

\* A request in flight points at a deployment.
LEMMA CurrentType ==
    ASSUME GatewayTypeOK, NEW r \in Requests, request[r].phase \in InFlight
    PROVE  Current(r) \in Deployments
BY DEF GatewayTypeOK, RequestState, Current

\* One request's state is replaced by another one that is well typed.
LEMMA ReplacedType ==
    ASSUME GatewayTypeOK, NEW r \in Requests, NEW q \in RequestState,
           q.phase \in InFlight => q.attempt \in 1..Len(q.chain),
           request' = [request EXCEPT ![r] = q]
    PROVE  RequestsTyped'
BY DEF GatewayTypeOK, RequestsTyped

LEMMA BecomesType ==
    ASSUME GatewayTypeOK, NEW r \in Requests, request[r].phase \in InFlight,
           NEW phase \in InFlight \cup Ended, Becomes(r, phase)
    PROVE  RequestsTyped'
BY DEF GatewayTypeOK, RequestsTyped, RequestState, Becomes, InFlight, Ended

LEMMA FallBackType ==
    ASSUME GatewayTypeOK, NEW r \in Requests, request[r].phase \in InFlight,
           FallBack(r)
    PROVE  RequestsTyped'
<1>1. CASE request[r].attempt < Len(request[r].chain)
  <2> DEFINE next == request[r].attempt + 1
             q == [request[r] EXCEPT !.phase = "calling", !.attempt = next]
  <2>1. request[r] \in RequestState /\ request[r].attempt \in 1..Len(request[r].chain)
    BY DEF GatewayTypeOK
  <2>2. Len(request[r].chain) \in Nat
    BY <2>1 DEF RequestState
  <2>3. next \in Nat /\ next \in 1..Len(request[r].chain)
    BY <1>1, <2>1, <2>2
  <2>4. request' = [request EXCEPT ![r] = q]
    BY <1>1 DEF FallBack, GatewayTypeOK
  <2> HIDE DEF next
  <2>5. q \in RequestState /\ q.attempt \in 1..Len(q.chain)
    BY <2>1, <2>3 DEF RequestState, InFlight
  <2> HIDE DEF q
  <2>6. QED
    BY <2>4, <2>5, ReplacedType
<1>2. CASE ~(request[r].attempt < Len(request[r].chain))
  BY <1>2, BecomesType DEF FallBack, Ended
<1>3. QED
  BY <1>1, <1>2

LEMMA ArriveType ==
    ASSUME GatewayTypeOK, NEW r \in Requests, NEW ask \in Asks, Arrive(r, ask)
    PROVE  RequestsTyped'
<1>1. request[r].calls + 1 \in 0..MaxCalls
  BY GatewayAssumption DEF GatewayTypeOK, RequestState, Arrive
<1>2. CASE Candidates(ask) = {}
  <2> DEFINE q == [phase |-> "refused", ask |-> ask, chain |-> <<>>, attempt |-> 1,
                   sent |-> {}, calls |-> request[r].calls + 1]
  <2>1. q \in RequestState /\ q.phase \notin InFlight
    BY <1>1 DEF RequestState, InFlight, Ended
  <2>2. request' = [request EXCEPT ![r] = q]
    BY <1>2 DEF Arrive
  <2>3. QED
    BY <2>1, <2>2, ReplacedType
<1>3. CASE Candidates(ask) # {}
  <2>1. PICK ranked \in Rankings(ask, Candidates(ask)) :
           request' = [request EXCEPT ![r] =
              [phase |-> "calling", ask |-> ask, chain |-> Attempts(ask, ranked),
               attempt |-> 1, sent |-> {}, calls |-> request[r].calls + 1]]
    BY <1>3 DEF Arrive
  <2> DEFINE chain == Attempts(ask, ranked)
  <2>2. chain \in Seq(Deployments) /\ 1 \in 1..Len(chain)
    BY <1>3, AttemptsType, CandidatesPermitted
  <2> HIDE DEF chain
  <2>3. QED
    BY <1>1, <2>1, <2>2 DEF GatewayTypeOK, RequestsTyped, RequestState, InFlight, Ended, chain
<1>4. QED
  BY <1>2, <1>3

LEMMA GatewayTypeStep ==
    ASSUME GatewayTypeOK, [Next]_vars
    PROVE  GatewayTypeOK'
<1>1. ASSUME RequestsTyped', UNCHANGED <<registry, serving, decisions, usage>>
      PROVE  GatewayTypeOK'
  BY <1>1 DEF GatewayTypeOK, RequestsTyped
<1>2. CASE StartServing
  BY <1>2 DEF StartServing, GatewayTypeOK
<1>3. CASE NextProbe
  BY <1>3 DEF NextProbe, NextPass, Ask, Report, gatewayVars, GatewayTypeOK
<1>4. ASSUME NEW snapshot \in Snapshots, Reload(snapshot)
      PROVE  GatewayTypeOK'
  BY <1>4, GatewayAssumption DEF Reload, GatewayTypeOK
<1>5. ASSUME NEW r \in Requests, NEW ask \in Asks, Arrive(r, ask)
      PROVE  GatewayTypeOK'
  BY <1>1, <1>5, ArriveType DEF Arrive
<1>6. ASSUME NEW r \in Requests, Backend(r)
      PROVE  GatewayTypeOK'
  <2>1. ASSUME NEW retryable \in BOOLEAN, CallFails(r, retryable)
        PROVE  GatewayTypeOK'
    BY <1>1, <2>1, FallBackType, BecomesType DEF CallFails, InFlight, Ended
  <2>2. CASE CallBreaks(r)
    BY <1>1, <2>2, BecomesType DEF CallBreaks, InFlight, Ended
  <2>3. CASE CallAnswers(r)
    <3>1. Current(r) \in Deployments
      BY <2>3, CurrentType DEF CallAnswers, InFlight
    <3> DEFINE q == [request[r] EXCEPT
                        !.phase = IF request[r].ask.op = "stream" THEN "streaming"
                                  ELSE "deciding",
                        !.sent = @ \cup {Current(r)}]
    <3>2. request[r] \in RequestState /\ request[r].attempt \in 1..Len(request[r].chain)
      BY <2>3 DEF GatewayTypeOK, CallAnswers, InFlight
    <3>3. q \in RequestState /\ q.attempt \in 1..Len(q.chain)
      BY <3>1, <3>2 DEF RequestState, InFlight
    <3>4. request' = [request EXCEPT ![r] = q]
      BY <2>3 DEF CallAnswers, GatewayTypeOK
    <3>5. RequestsTyped'
      BY <3>3, <3>4, ReplacedType
    <3>6. QED
      BY <1>1, <2>3, <3>5 DEF CallAnswers
  <2>4. CASE EmbedAnswers(r)
    <3>1. Current(r) \in Deployments
      BY <2>4, CurrentType DEF EmbedAnswers, InFlight
    <3>2. RequestsTyped'
      BY <2>4, <3>1 DEF GatewayTypeOK, RequestsTyped, RequestState, EmbedAnswers, InFlight
    <3>3. QED
      BY <1>1, <2>4, <3>2 DEF EmbedAnswers
  <2>5. CASE StreamEnds(r)
    BY <1>1, <2>5, BecomesType DEF StreamEnds, InFlight
  <2>6. CASE StreamBreaks(r)
    BY <1>1, <2>6, BecomesType DEF StreamBreaks, InFlight, Ended
  <2>7. QED
    BY <1>6, <2>1, <2>2, <2>3, <2>4, <2>5, <2>6 DEF Backend
<1>7. ASSUME NEW r \in Requests, ClientLeaves(r)
      PROVE  GatewayTypeOK'
  BY <1>1, <1>7, BecomesType DEF ClientLeaves, InFlight, Ended
<1>8. ASSUME NEW r \in Requests, Telemetry(r)
      PROVE  GatewayTypeOK'
  <2>1. Current(r) \in Deployments /\ request[r].phase \in InFlight
    BY <1>8, CurrentType
       DEF Telemetry, RecordDecision, RecordUsage, TelemetryFails, InFlight
  <2>2. RequestsTyped'
    BY <1>8, <2>1, BecomesType
       DEF Telemetry, RecordDecision, RecordUsage, TelemetryFails, InFlight, Ended
  <2>3. decisions' \in [Requests -> Deployments \cup {NoDeployment}]
    <3>1. WriteDecision(r) \/ UNCHANGED decisions
      BY <1>8 DEF Telemetry, RecordDecision, RecordUsage, TelemetryFails
    <3>2. QED
      BY <2>1, <3>1 DEF WriteDecision, GatewayTypeOK
  <2>4. usage' \in [Requests -> Seq(Deployments \X Operation)]
    <3>1. request[r].ask.op \in Operation
      BY GatewayAssumption DEF GatewayTypeOK, RequestState
    <3>2. Append(usage[r], <<Current(r), request[r].ask.op>>)
             \in Seq(Deployments \X Operation)
      BY <2>1, <3>1 DEF GatewayTypeOK
    <3>3. WriteUsage(r) \/ UNCHANGED usage
      BY <1>8 DEF Telemetry, RecordDecision, RecordUsage, TelemetryFails
    <3>4. QED
      BY <3>2, <3>3 DEF WriteUsage, GatewayTypeOK
  <2>5. UNCHANGED <<registry, serving>>
    BY <1>8 DEF Telemetry, RecordDecision, RecordUsage, TelemetryFails
  <2>6. QED
    BY <2>2, <2>3, <2>4, <2>5 DEF GatewayTypeOK, RequestsTyped
<1>9. CASE UNCHANGED vars
  BY <1>9 DEF vars, gatewayVars, GatewayTypeOK
<1>10. QED
  BY <1>2, <1>3, <1>4, <1>5, <1>6, <1>7, <1>8, <1>9 DEF Next

\* The gateway's state is well typed, and whatever is reloaded, falls back or
\* is cancelled, a request in flight never points past its chain.
THEOREM GatewayTypeCorrect == Spec => []GatewayTypeOK
<1>1. ASSUME Init
      PROVE  GatewayTypeOK
  <2> DEFINE q == [phase |-> "idle", ask |-> CHOOSE ask \in Asks : TRUE,
                   chain |-> <<>>, attempt |-> 1, sent |-> {}, calls |-> 0]
  <2>1. q \in RequestState /\ q.phase \notin InFlight
    <3>1. (CHOOSE ask \in Asks : TRUE) \in Asks
      BY GatewayAssumption
    <3>2. 0 \in 0..MaxCalls /\ <<>> \in Seq(Deployments)
      BY GatewayAssumption
    <3>3. QED
      BY <3>1, <3>2 DEF RequestState, InFlight
  <2>2. request = [r \in Requests |-> q]
    BY <1>1 DEF Init
  <2> HIDE DEF q
  <2>3. RequestsTyped
    BY <2>1, <2>2 DEF RequestsTyped
  <2>4. /\ registry \in [Deployments -> Listing]
        /\ decisions \in [Requests -> Deployments \cup {NoDeployment}]
    BY <1>1, GatewayAssumption DEF Init
  <2>5. usage \in [Requests -> Seq(Deployments \X Operation)]
    BY <1>1 DEF Init
  <2>6. QED
    BY <1>1, <2>3, <2>4, <2>5 DEF Init, GatewayTypeOK, RequestsTyped
<1>2. GatewayTypeOK /\ [Next]_vars => GatewayTypeOK'
  BY GatewayTypeStep
<1>3. QED
  BY <1>1, <1>2, PTL DEF Spec

-----------------------------------------------------------------------------
(***************************************************************************)
(* The gateway and its tracker.                                            *)
(***************************************************************************)
LEMMA TracksHealthStep ==
    ASSUME GatewayTypeOK, [Next]_vars
    PROVE  [HealthNext]_healthVars
<1>1. CASE StartServing
  BY <1>1 DEF StartServing
<1>2. CASE NextProbe
  <2>1. Probed \in SUBSET Deployments
    BY DEF Probed
  <2>2. ProbeLoop
    BY <1>2, <2>1 DEF NextProbe, NextPass, Ask, Report, ProbeLoop
  <2>3. QED
    BY <2>2 DEF HealthNext
<1>3. ASSUME NEW snapshot \in Snapshots, Reload(snapshot)
      PROVE  UNCHANGED healthVars
  BY <1>3 DEF Reload
<1>4. ASSUME NEW r \in Requests, NEW ask \in Asks, Arrive(r, ask)
      PROVE  UNCHANGED healthVars
  BY <1>4 DEF Arrive
<1>5. ASSUME NEW r \in Requests, Backend(r)
      PROVE  [HealthNext]_healthVars
  <2>1. ASSUME NEW retryable \in BOOLEAN, CallFails(r, retryable)
        PROVE  HealthNext
    BY <2>1, CurrentType DEF CallFails, InFlight, RequestFails, HealthNext
  <2>2. CASE CallAnswers(r)
    BY <2>2, CurrentType DEF CallAnswers, InFlight, RequestSucceeds, HealthNext
  <2>3. CASE CallBreaks(r) \/ EmbedAnswers(r) \/ StreamEnds(r) \/ StreamBreaks(r)
    BY <2>3 DEF CallBreaks, EmbedAnswers, StreamEnds, StreamBreaks
  <2>4. QED
    BY <1>5, <2>1, <2>2, <2>3 DEF Backend
<1>6. ASSUME NEW r \in Requests, ClientLeaves(r) \/ Telemetry(r)
      PROVE  UNCHANGED healthVars
  BY <1>6 DEF ClientLeaves, Telemetry, RecordDecision, RecordUsage, TelemetryFails
<1>7. CASE UNCHANGED vars
  BY <1>7 DEF vars
<1>8. QED
  BY <1>1, <1>2, <1>3, <1>4, <1>5, <1>6, <1>7 DEF Next

\* The gateway implements HealthSpec: whatever requests, reloads and telemetry
\* do, the tracker moves only by recorded outcomes and answered probes.
THEOREM TracksHealthHolds == Spec => TracksHealth
<1>1. Init => HealthInit
  <2>1. Listed \in SUBSET Deployments /\ Probed \in SUBSET Deployments
    BY DEF Listed, Probed
  <2>2. QED
    BY <2>1 DEF Init, HealthInit
<1>2. GatewayTypeOK /\ [Next]_vars => [HealthNext]_healthVars
  BY TracksHealthStep
<1>3. QED
  BY <1>1, <1>2, GatewayTypeCorrect, PTL DEF Spec, TracksHealth, HealthSpec

\* So no order of requests and probes makes the gateway take a deployment for
\* healthy that has just failed FailureThreshold requests in a row.
THEOREM GatewayFailuresOutweighProbes == Spec => []FailuresOutweighProbes
BY TracksHealthHolds, FailuresOutweighProbesHolds DEF TracksHealth

-----------------------------------------------------------------------------
(***************************************************************************)
(* What each kind of step does to the fields of a request.                 *)
(***************************************************************************)
LEMMA BecomesFields ==
    ASSUME GatewayTypeOK, NEW r \in Requests, NEW phase, Becomes(r, phase),
           NEW s \in Requests
    PROVE  /\ request'[s].ask = request[s].ask
           /\ request'[s].chain = request[s].chain
           /\ request'[s].attempt = request[s].attempt
           /\ request'[s].sent = request[s].sent
           /\ request'[s].calls = request[s].calls
           /\ request'[s].phase = IF s = r THEN phase ELSE request[s].phase
BY DEF GatewayTypeOK, RequestState, Becomes

LEMMA FallBackFields ==
    ASSUME GatewayTypeOK, NEW r \in Requests, FallBack(r), NEW s \in Requests
    PROVE  /\ request'[s].ask = request[s].ask
           /\ request'[s].chain = request[s].chain
           /\ request'[s].sent = request[s].sent
           /\ request'[s].calls = request[s].calls
           /\ s # r => request'[s] = request[s]
           /\ \/ /\ request'[r].phase = "calling"
                 /\ request'[r].attempt = request[r].attempt + 1
              \/ /\ request'[r].phase = "exhausted"
                 /\ request'[r].attempt = request[r].attempt
BY DEF GatewayTypeOK, RequestState, FallBack, Becomes

LEMMA AnswerFields ==
    ASSUME GatewayTypeOK, NEW r \in Requests, CallAnswers(r) \/ EmbedAnswers(r),
           NEW s \in Requests
    PROVE  /\ request'[s].ask = request[s].ask
           /\ request'[s].chain = request[s].chain
           /\ request'[s].attempt = request[s].attempt
           /\ request'[s].calls = request[s].calls
           /\ s # r => request'[s] = request[s]
           /\ request[r].phase = "calling"
           /\ request'[r].sent = request[r].sent \cup {Current(r)}
           /\ request'[r].phase = IF request[r].ask.op = "embed" THEN "metering"
                                  ELSE IF request[r].ask.op = "stream" THEN "streaming"
                                  ELSE "deciding"
BY DEF GatewayTypeOK, RequestState, CallAnswers, EmbedAnswers

LEMMA ArriveFields ==
    ASSUME GatewayTypeOK, NEW r \in Requests, NEW ask \in Asks, Arrive(r, ask),
           NEW s \in Requests
    PROVE  /\ s # r => request'[s] = request[s]
           /\ request[r].phase \notin InFlight
           /\ request'[r].ask = ask
           /\ request'[r].sent = {}
           /\ request'[r].calls = request[r].calls + 1
           /\ \/ request'[r].phase = "refused" /\ request'[r].chain = <<>>
              \/ /\ request'[r].phase = "calling"
                 /\ request'[r].chain \in Seq(PermittedTo(ask))
                 /\ request'[r].attempt = 1
                 /\ 1 \in 1..Len(request'[r].chain)
<1>1. CASE Candidates(ask) = {}
  BY <1>1 DEF GatewayTypeOK, Arrive
<1>2. CASE Candidates(ask) # {}
  <2>1. PICK ranked \in Rankings(ask, Candidates(ask)) :
           request' = [request EXCEPT ![r] =
              [phase |-> "calling", ask |-> ask, chain |-> Attempts(ask, ranked),
               attempt |-> 1, sent |-> {}, calls |-> request[r].calls + 1]]
    BY <1>2 DEF Arrive
  <2> DEFINE chain == Attempts(ask, ranked)
  <2>2. chain \in Seq(Candidates(ask)) /\ 1 \in 1..Len(chain)
    BY <1>2, AttemptsType
  <2>3. Candidates(ask) \subseteq PermittedTo(ask)
    BY CandidatesPermitted
  <2> HIDE DEF chain
  <2>4. chain \in Seq(PermittedTo(ask))
    BY <2>2, <2>3
  <2>5. QED
    BY <2>1, <2>2, <2>4 DEF GatewayTypeOK, Arrive, chain
<1>3. QED
  BY <1>1, <1>2

-----------------------------------------------------------------------------
(***************************************************************************)
(* Every request follows its chain soundly: the chain was permitted when   *)
(* it was fixed and stays so (policy is not evaluated again, and need not  *)
(* be), nothing is sent while a backend is being called, and what is sent  *)
(* comes from the deployment the request points at.                        *)
(***************************************************************************)
Answering == {"streaming", "deciding", "metering", "done"}

Sound(q) ==
    /\ \A i \in 1..Len(q.chain) : q.chain[i] \in PermittedTo(q.ask)
    /\ q.phase = "calling" => q.sent = {}
    /\ q.phase \in Answering => q.sent = {q.chain[q.attempt]}
    /\ q.sent # {} => q.sent = {q.chain[q.attempt]}

EveryRequestSound == \A r \in Requests : Sound(request[r])

\* A step that only moves one request on from its call or its answer.
LEMMA BecomesSound ==
    ASSUME GatewayTypeOK, EveryRequestSound, NEW r \in Requests, NEW phase,
           Becomes(r, phase), phase # "calling",
           phase \in Answering => request[r].phase \in Answering
    PROVE  EveryRequestSound'
<1> SUFFICES ASSUME NEW s \in Requests
             PROVE  Sound(request'[s])
  BY DEF EveryRequestSound
<1>1. Sound(request[s])
  BY DEF EveryRequestSound
<1>2. QED
  BY <1>1, BecomesFields DEF Sound

LEMMA SoundStep ==
    ASSUME GatewayTypeOK, EveryRequestSound, [Next]_vars
    PROVE  EveryRequestSound'
<1>1. CASE UNCHANGED request
  BY <1>1 DEF EveryRequestSound
<1>2. ASSUME NEW r \in Requests, NEW ask \in Asks, Arrive(r, ask)
      PROVE  EveryRequestSound'
  <2> SUFFICES ASSUME NEW s \in Requests
               PROVE  Sound(request'[s])
    BY DEF EveryRequestSound
  <2>1. CASE s # r
    BY <1>2, <2>1, ArriveFields DEF EveryRequestSound
  <2>2. CASE s = r /\ request'[r].phase = "refused"
    BY <1>2, <2>2, ArriveFields DEF Sound, Answering
  <2>3. CASE s = r /\ request'[r].phase # "refused"
    <3>1. /\ request'[r].chain \in Seq(PermittedTo(request'[r].ask))
          /\ request'[r].phase = "calling" /\ request'[r].sent = {}
      BY <1>2, <2>3, ArriveFields
    <3>2. \A i \in 1..Len(request'[r].chain) :
             request'[r].chain[i] \in PermittedTo(request'[r].ask)
      BY <3>1
    <3>3. QED
      BY <2>3, <3>1, <3>2 DEF Sound, Answering
  <2>4. QED
    BY <2>1, <2>2, <2>3
<1>3. ASSUME NEW r \in Requests, FallBack(r), request[r].phase = "calling"
      PROVE  EveryRequestSound'
  <2> SUFFICES ASSUME NEW s \in Requests
               PROVE  Sound(request'[s])
    BY DEF EveryRequestSound
  <2>1. Sound(request[s])
    BY DEF EveryRequestSound
  <2>2. QED
    BY <1>3, <2>1, FallBackFields DEF Sound, Answering
<1>4. ASSUME NEW r \in Requests, CallAnswers(r) \/ EmbedAnswers(r)
      PROVE  EveryRequestSound'
  <2> SUFFICES ASSUME NEW s \in Requests
               PROVE  Sound(request'[s])
    BY DEF EveryRequestSound
  <2>1. Sound(request[s]) /\ Sound(request[r])
    BY DEF EveryRequestSound
  <2>2. CASE s # r
    BY <1>4, <2>1, <2>2, AnswerFields
  <2>3. CASE s = r
    <3>1. request'[r].sent = {request'[r].chain[request'[r].attempt]}
      BY <1>4, <2>1, AnswerFields DEF Sound, Current
    <3>2. QED
      BY <1>4, <2>1, <2>3, <3>1, AnswerFields DEF Sound, Answering
  <2>4. QED
    BY <2>2, <2>3
<1>5. ASSUME NEW r \in Requests, Backend(r)
      PROVE  EveryRequestSound'
  <2>1. ASSUME NEW retryable \in BOOLEAN, CallFails(r, retryable)
        PROVE  EveryRequestSound'
    BY <1>3, <2>1, BecomesSound DEF CallFails, Answering
  <2>2. CASE CallBreaks(r)
    BY <2>2, BecomesSound DEF CallBreaks, Answering
  <2>3. CASE StreamEnds(r)
    BY <2>3, BecomesSound DEF StreamEnds, Answering
  <2>4. CASE StreamBreaks(r)
    BY <2>4, BecomesSound DEF StreamBreaks, Answering
  <2>5. QED
    BY <1>4, <1>5, <2>1, <2>2, <2>3, <2>4 DEF Backend
<1>6. ASSUME NEW r \in Requests, ClientLeaves(r) \/ Telemetry(r)
      PROVE  EveryRequestSound'
  BY <1>6, BecomesSound
     DEF ClientLeaves, Telemetry, RecordDecision, RecordUsage, TelemetryFails, Answering
<1>7. QED
  <2>1. CASE StartServing \/ NextProbe \/ UNCHANGED vars
             \/ \E snapshot \in Snapshots : Reload(snapshot)
    BY <1>1, <2>1 DEF StartServing, NextProbe, NextPass, Ask, Report, Reload,
                      vars, gatewayVars
  <2>2. QED
    BY <1>2, <1>5, <1>6, <2>1 DEF Next

\* The invariant the safety theorems rest on.
THEOREM RequestsStaySound == Spec => []EveryRequestSound
<1>1. Init => EveryRequestSound
  BY DEF Init, EveryRequestSound, Sound, Answering
<1>2. GatewayTypeOK /\ EveryRequestSound /\ [Next]_vars => EveryRequestSound'
  BY SoundStep
<1>3. QED
  BY <1>1, <1>2, GatewayTypeCorrect, PTL DEF Spec

\* No answer is continued by another model (execution.py:3-6).
THEOREM OneModelPerAnswerHolds == Spec => []OneModelPerAnswer
<1>1. EveryRequestSound => OneModelPerAnswer
  BY DEF EveryRequestSound, Sound, OneModelPerAnswer
<1>2. QED
  BY <1>1, RequestsStaySound, PTL

-----------------------------------------------------------------------------
(***************************************************************************)
(* Policy.                                                                 *)
(***************************************************************************)
\* Most-restrictive-wins: whichever side asks for privacy, providers are out.
LEMMA PrivateExcludesProviders ==
    ASSUME NEW ask \in Asks, KeepsPrivate(ask), NEW d \in PermittedTo(ask)
    PROVE  Catalog[d].privacy # "provider"
<1>1. /\ ask.held \in ExecutionMode /\ ask.asked \in ExecutionMode
      /\ ask.heldClass \in Classification /\ ask.askedClass \in Classification
  BY GatewayAssumption
<1>2. /\ ModeAllows(EffectiveMode(ask.held, ask.asked), Catalog[d])
      /\ ClassificationAllows(
            EffectiveClassification(ask.heldClass, ask.askedClass), Catalog[d])
  BY DEF PermittedTo, PolicyAllows, Resolved
<1>3. CASE \E mode \in {ask.held, ask.asked} :
              mode \in {"private", "sovereign", "offline"}
  <2>1. EffectiveMode(ask.held, ask.asked) \in {"private", "sovereign", "offline"}
    BY <1>1, <1>3 DEF EffectiveMode, restrictiveness, ExecutionMode
  <2>2. QED
    BY <1>2, <2>1 DEF ModeAllows
<1>4. CASE \E class \in {ask.heldClass, ask.askedClass} :
              class \in {"CONFIDENTIAL", "RESTRICTED"}
  <2>1. EffectiveClassification(ask.heldClass, ask.askedClass)
           \in {"CONFIDENTIAL", "RESTRICTED"}
    BY <1>1, <1>4 DEF EffectiveClassification, rank, Classification
  <2>2. QED
    BY <1>2, <2>1 DEF ClassificationAllows, rank
<1>5. QED
  BY <1>3, <1>4 DEF KeepsPrivate

\* A private prompt never reaches a provider, by no fallback and after no reload.
THEOREM PrivateStaysPrivateHolds == Spec => []PrivateStaysPrivate
<1>1. ASSUME GatewayTypeOK, EveryRequestSound
      PROVE  PrivateStaysPrivate
  <2> SUFFICES ASSUME NEW r \in Requests, KeepsPrivate(request[r].ask),
                      NEW d \in Called(r)
               PROVE  Catalog[d].privacy # "provider"
    BY DEF PrivateStaysPrivate
  <2>1. request[r].ask \in Asks
    BY <1>1 DEF GatewayTypeOK, RequestState
  <2>2. d \in PermittedTo(request[r].ask)
    BY <1>1 DEF EveryRequestSound, Sound, Called
  <2>3. QED
    BY <2>1, <2>2, PrivateExcludesProviders
<1>2. QED
  BY <1>1, GatewayTypeCorrect, RequestsStaySound, PTL

-----------------------------------------------------------------------------
(***************************************************************************)
(* Telemetry.                                                              *)
(***************************************************************************)
\* A written decision: the first one under its request id, which then stays.
LEMMA DecisionWritten ==
    ASSUME GatewayTypeOK, NEW r \in Requests, request[r].phase \in InFlight,
           WriteDecision(r), NEW s \in Requests
    PROVE  /\ s # r \/ decisions[s] # NoDeployment => decisions'[s] = decisions[s]
           /\ decisions'[r] # NoDeployment
           /\ decisions[r] = NoDeployment => decisions'[r] = Current(r)
<1>1. Current(r) # NoDeployment
  BY CurrentType, HealthAssumption
<1>2. QED
  BY <1>1 DEF WriteDecision, GatewayTypeOK

\* A written usage row: the last of its request id's rows, after those it had.
LEMMA UsageWritten ==
    ASSUME GatewayTypeOK, NEW r \in Requests, WriteUsage(r),
           NEW s \in Requests, NEW i \in 1..Len(usage'[s])
    PROVE  \/ i \in 1..Len(usage[s]) /\ usage'[s][i] = usage[s][i]
           \/ s = r /\ usage'[s][i] = <<Current(r), request[r].ask.op>>
<1> DEFINE row == <<Current(r), request[r].ask.op>>
<1>1. CASE s # r
  BY <1>1 DEF WriteUsage, GatewayTypeOK
<1>2. CASE s = r
  <2>1. usage'[r] = Append(usage[r], row) /\ usage[r] \in Seq(Deployments \X Operation)
    BY DEF WriteUsage, GatewayTypeOK
  <2>2. CASE i = Len(usage[r]) + 1
    BY <1>2, <2>1, <2>2
  <2>3. CASE i # Len(usage[r]) + 1
    BY <1>2, <2>1, <2>3
  <2>4. QED
    BY <2>2, <2>3
<1>3. QED
  BY <1>1, <1>2

(***************************************************************************)
(* What UsageIsExplained rests on.  Until its first answer is decided an   *)
(* id has no decision; from then on its decision is that answer's, whose   *)
(* deployment is the current one as long as it is being metered.           *)
(***************************************************************************)
Explains(decision, q, d) ==
    decision # NoDeployment /\ (q.calls = 1 => decision = d)

Explained(q, decision, rows) ==
    /\ q.phase \in InFlight => q.calls # 0
    /\ q.calls = 0 => decision = NoDeployment
    /\ q.calls = 1 /\ q.phase \in {"calling", "streaming", "deciding"} =>
          decision = NoDeployment
    /\ q.phase = "metering" /\ q.ask.op # "embed" =>
          Explains(decision, q, q.chain[q.attempt])
    /\ \A i \in 1..Len(rows) :
          rows[i][2] # "embed" => Explains(decision, q, rows[i][1])

UsageInv == \A r \in Requests : Explained(request[r], decisions[r], usage[r])

LEMMA UsageStep ==
    ASSUME GatewayTypeOK, UsageInv, [Next]_vars
    PROVE  UsageInv'
<1> SUFFICES ASSUME NEW s \in Requests
             PROVE  Explained(request'[s], decisions'[s], usage'[s])
  BY DEF UsageInv
<1> DEFINE Goal == Explained(request'[s], decisions'[s], usage'[s])
<1>0. Explained(request[s], decisions[s], usage[s])
  BY DEF UsageInv
<1>1. ASSUME request'[s] = request[s], decisions'[s] = decisions[s], usage'[s] = usage[s]
      PROVE  Goal
  BY <1>0, <1>1
<1>2. ASSUME NEW r \in Requests, NEW phase, Becomes(r, phase),
             \/ phase \in {"failed", "exhausted", "aborted"}
             \/ phase = "deciding" /\ request[r].phase = "streaming",
             UNCHANGED <<decisions, usage>>
      PROVE  Goal
  BY <1>0, <1>2, BecomesFields DEF Explained, Explains, InFlight
<1>3. ASSUME NEW r \in Requests, NEW ask \in Asks, Arrive(r, ask)
      PROVE  Goal
  <2>1. UNCHANGED <<decisions, usage>>
    BY <1>3 DEF Arrive
  <2>2. CASE s # r
    BY <1>1, <1>3, <2>1, <2>2, ArriveFields
  <2>3. CASE s = r
    <3>1. /\ request[r].calls \in Nat /\ request'[r].calls = request[r].calls + 1
          /\ request'[r].phase \in {"refused", "calling"}
      BY <1>3, ArriveFields, GatewayAssumption DEF GatewayTypeOK, RequestState
    <3>2. request'[r].calls # 0 /\ (request'[r].calls = 1 => request[r].calls = 0)
      BY <3>1
    <3>3. request'[r].calls = 1 => decisions[r] = NoDeployment
      BY <1>0, <2>3, <3>2 DEF Explained
    <3>4. \A i \in 1..Len(usage[r]) :
             usage[r][i][2] # "embed" => decisions[r] # NoDeployment
      BY <1>0, <2>3 DEF Explained, Explains
    <3>5. QED
      BY <2>1, <2>3, <3>1, <3>2, <3>3, <3>4 DEF Explained, Explains
  <2>4. QED
    BY <2>2, <2>3
<1>4. ASSUME NEW r \in Requests, FallBack(r), request[r].phase = "calling",
             UNCHANGED <<decisions, usage>>
      PROVE  Goal
  <2>1. CASE s # r
    BY <1>1, <1>4, <2>1, FallBackFields
  <2>2. CASE s = r
    BY <1>0, <1>4, <2>2, FallBackFields DEF Explained, Explains, InFlight
  <2>3. QED
    BY <2>1, <2>2
<1>5. ASSUME NEW r \in Requests, CallAnswers(r) \/ EmbedAnswers(r)
      PROVE  Goal
  <2>1. UNCHANGED <<decisions, usage>>
    BY <1>5 DEF CallAnswers, EmbedAnswers
  <2>2. CASE s # r
    BY <1>1, <1>5, <2>1, <2>2, AnswerFields
  <2>3. CASE s = r
    BY <1>0, <1>5, <2>1, <2>3, AnswerFields DEF Explained, Explains, InFlight
  <2>4. QED
    BY <2>2, <2>3
<1>6. ASSUME NEW r \in Requests, request[r].phase = "deciding", WriteDecision(r),
             NEW phase \in {"metering", "aborted"}, Becomes(r, phase), usage' = usage
      PROVE  Goal
  <2>1. request[r].phase \in InFlight
    BY <1>6 DEF InFlight
  <2>2. CASE s # r
    <3>1. request'[s] = request[s]
      BY <1>6, <2>2 DEF Becomes, GatewayTypeOK
    <3>2. QED
      BY <1>1, <1>6, <2>1, <2>2, <3>1, DecisionWritten
  <2>3. CASE s = r
    <3>1. /\ request'[r].calls = request[r].calls /\ request'[r].phase = phase
          /\ request'[r].chain[request'[r].attempt] = Current(r)
      BY <1>6, BecomesFields DEF Current
    <3>2. Explains(decisions'[r], request'[r], Current(r))
      BY <1>0, <1>6, <2>1, <2>3, <3>1, DecisionWritten DEF Explained, Explains
    <3>3. \A i \in 1..Len(usage[r]) :
             usage[r][i][2] # "embed" => Explains(decisions'[r], request'[r], usage[r][i][1])
      BY <1>0, <1>6, <2>1, <2>3, <3>1, DecisionWritten DEF Explained, Explains
    <3>4. request[r].calls # 0
      BY <1>0, <2>1, <2>3 DEF Explained
    <3>5. QED
      BY <1>6, <2>3, <3>1, <3>2, <3>3, <3>4 DEF Explained
  <2>4. QED
    BY <2>2, <2>3
<1>7. ASSUME NEW r \in Requests, request[r].phase = "metering", WriteUsage(r),
             NEW phase \in {"done", "aborted"}, Becomes(r, phase), decisions' = decisions
      PROVE  Goal
  <2>1. CASE s # r
    BY <1>1, <1>7, <2>1 DEF Becomes, WriteUsage, GatewayTypeOK
  <2>2. CASE s = r
    <3>1. request'[r].calls = request[r].calls /\ request'[r].phase = phase
      BY <1>7, BecomesFields
    <3>2. request[r].ask.op # "embed" => Explains(decisions[r], request[r], Current(r))
      BY <1>0, <1>7, <2>2 DEF Explained, Current
    <3>3. ASSUME NEW i \in 1..Len(usage'[r]), usage'[r][i][2] # "embed"
          PROVE  Explains(decisions'[r], request'[r], usage'[r][i][1])
      <4>1. CASE i \in 1..Len(usage[r]) /\ usage'[r][i] = usage[r][i]
        BY <1>0, <1>7, <2>2, <3>1, <3>3, <4>1 DEF Explained, Explains
      <4>2. CASE usage'[r][i] = <<Current(r), request[r].ask.op>>
        BY <1>7, <3>1, <3>2, <3>3, <4>2 DEF Explains
      <4>3. QED
        BY <1>7, <4>1, <4>2, UsageWritten
    <3>4. QED
      BY <1>0, <1>7, <2>2, <3>1, <3>3 DEF Explained, InFlight
  <2>3. QED
    BY <2>1, <2>2
<1>8. ASSUME NEW r \in Requests, Backend(r)
      PROVE  Goal
  <2>1. ASSUME NEW retryable \in BOOLEAN, CallFails(r, retryable)
        PROVE  Goal
    <3> HIDE DEF Goal
    <3>1. QED
      BY <1>2, <1>4, <2>1 DEF CallFails
  <2>2. CASE CallBreaks(r) \/ StreamEnds(r) \/ StreamBreaks(r)
    <3> HIDE DEF Goal
    <3>1. QED
      BY <1>2, <2>2 DEF CallBreaks, StreamEnds, StreamBreaks
  <2>3. QED
    BY <1>5, <1>8, <2>1, <2>2 DEF Backend
<1>9. ASSUME NEW r \in Requests, ClientLeaves(r) \/ Telemetry(r)
      PROVE  Goal
  <2> HIDE DEF Goal
  <2>1. CASE ClientLeaves(r)
    BY <1>2, <2>1 DEF ClientLeaves
  <2>2. CASE RecordDecision(r)
    BY <1>6, <2>2 DEF RecordDecision
  <2>3. CASE RecordUsage(r)
    BY <1>7, <2>3 DEF RecordUsage
  <2>4. CASE TelemetryFails(r)
    BY <1>2, <1>6, <1>7, <2>4 DEF TelemetryFails
  <2>5. QED
    BY <1>9, <2>1, <2>2, <2>3, <2>4 DEF Telemetry
<1>10. CASE StartServing \/ NextProbe \/ UNCHANGED vars
                \/ \E snapshot \in Snapshots : Reload(snapshot)
  <2>1. UNCHANGED <<request, decisions, usage>>
    BY <1>10 DEF StartServing, NextProbe, NextPass, Ask, Report, Reload,
                 vars, gatewayVars
  <2>2. QED
    BY <1>1, <2>1
<1>11. QED
  BY <1>3, <1>8, <1>9, <1>10 DEF Next

\* A chat answer that was charged has its routing decision, and of an id presented
\* once it names the deployment that was charged: both transactions speak of the
\* candidate that answered, the decision's first (execution.py:377-402).
THEOREM UsageIsExplainedHolds == Spec => []UsageIsExplained
<1>1. Init => UsageInv
  BY DEF Init, UsageInv, Explained, InFlight
<1>2. GatewayTypeOK /\ UsageInv /\ [Next]_vars => UsageInv'
  BY UsageStep
<1>3. UsageInv => UsageIsExplained
  BY DEF UsageInv, UsageIsExplained, Explained, Explains
<1>4. QED
  BY <1>1, <1>2, <1>3, GatewayTypeCorrect, PTL DEF Spec

\* A decision row is written once: a second answer under the same request id
\* does not touch it (writer.py:101).
THEOREM DecisionsStayHolds == Spec => DecisionsStay
<1> DEFINE Stay == \A r \in Requests :
                      decisions[r] # NoDeployment => decisions'[r] = decisions[r]
<1>1. ASSUME GatewayTypeOK, [Next]_vars
      PROVE  [Stay]_vars
  <2>1. ASSUME NEW r \in Requests, WriteDecision(r), request[r].phase = "deciding"
        PROVE  Stay
    BY <1>1, <2>1, DecisionWritten DEF InFlight
  <2>2. ASSUME NEW r \in Requests, Backend(r) \/ ClientLeaves(r) \/ Telemetry(r)
        PROVE  Stay
    BY <2>1, <2>2 DEF Backend, CallFails, CallBreaks, CallAnswers, EmbedAnswers,
                      StreamEnds, StreamBreaks, ClientLeaves, Telemetry,
                      RecordDecision, RecordUsage, TelemetryFails
  <2>3. ASSUME NEW r \in Requests, NEW ask \in Asks, Arrive(r, ask)
        PROVE  Stay
    BY <2>3 DEF Arrive
  <2>4. CASE StartServing \/ NextProbe \/ UNCHANGED vars
                \/ \E snapshot \in Snapshots : Reload(snapshot)
    BY <2>4 DEF StartServing, NextProbe, NextPass, Ask, Report, Reload,
                vars, gatewayVars
  <2>5. QED
    BY <1>1, <2>2, <2>3, <2>4 DEF Next
<1>2. QED
  BY <1>1, GatewayTypeCorrect, PTL DEF Spec, DecisionsStay

-----------------------------------------------------------------------------
(***************************************************************************)
(* The gateway keeps its promise: each of its steps is a step of Answers   *)
(* or leaves what the caller sees as it was.                               *)
(***************************************************************************)
LEMMA OneMoved ==
    ASSUME NEW r \in Requests,
           \A s \in Requests : s # r => request'[s] = request[s]
    PROVE  /\ Stage' = [Stage EXCEPT ![r] = StageOf(request'[r])]
           /\ Wanted' = [Wanted EXCEPT ![r] = request'[r].ask]
           /\ Source' = [Source EXCEPT ![r] = SourceOf(request'[r])]
BY DEF Stage, Wanted, Source, StageOf, SourceOf

\* A step that changes only how far a request has got.
LEMMA BecomesMoves ==
    ASSUME GatewayTypeOK, NEW r \in Requests, NEW phase, Becomes(r, phase)
    PROVE  /\ Stage' = [Stage EXCEPT ![r] = StageOf([request[r] EXCEPT !.phase = phase])]
           /\ UNCHANGED <<Wanted, Source>>
<1>1. \A s \in Requests : s # r => request'[s] = request[s]
  BY DEF Becomes, GatewayTypeOK
<1>2. request'[r] = [request[r] EXCEPT !.phase = phase]
  BY DEF Becomes, GatewayTypeOK
<1>3. SourceOf(request'[r]) = SourceOf(request[r]) /\ request'[r].ask = request[r].ask
  BY BecomesFields DEF SourceOf
<1>4. /\ Wanted' = [Wanted EXCEPT ![r] = Wanted[r]]
      /\ Source' = [Source EXCEPT ![r] = Source[r]]
  BY <1>1, <1>3, OneMoved DEF Wanted, Source
<1>5. UNCHANGED <<Wanted, Source>>
  BY <1>4 DEF Wanted, Source
<1>6. QED
  BY <1>1, <1>2, <1>5, OneMoved

LEMMA PromiseStep ==
    ASSUME GatewayTypeOK, EveryRequestSound, EveryRequestSound', [Next]_vars
    PROVE  [Promise!AnswersNext]_(Promise!answerVars)
<1> DEFINE Unseen == UNCHANGED <<Stage, Wanted, Source, usage>>
<1>1. ASSUME Unseen
      PROVE  UNCHANGED Promise!answerVars
  BY <1>1 DEF Promise!answerVars
<1>2. ASSUME UNCHANGED <<request, usage>>
      PROVE  Unseen
  BY <1>2 DEF Stage, Wanted, Source, StageOf, SourceOf
<1>3. ASSUME NEW r \in Requests, NEW phase, Becomes(r, phase), usage' = usage,
             request[r].phase \in {"streaming", "deciding"},
             phase \in {"deciding", "metering"}
      PROVE  Unseen
  <2>1. StageOf([request[r] EXCEPT !.phase = phase]) = Stage[r]
    BY <1>3 DEF Stage, StageOf, GatewayTypeOK, RequestState
  <2>2. Stage' = [Stage EXCEPT ![r] = Stage[r]] /\ UNCHANGED <<Wanted, Source>>
    BY <1>3, <2>1, BecomesMoves
  <2>3. Stage = [s \in Requests |-> Stage[s]]
    BY DEF Stage
  <2>4. QED
    BY <1>3, <2>2, <2>3
<1>4. ASSUME NEW r \in Requests, NEW phase \in {"failed", "exhausted", "aborted"},
             Becomes(r, phase), usage' = usage, request[r].phase \in InFlight
      PROVE  Promise!Break(r)
  <2>1. StageOf([request[r] EXCEPT !.phase = phase]) = "broken"
    BY <1>4 DEF StageOf, GatewayTypeOK, RequestState
  <2>2. Stage[r] \in {"accepted", "answering"}
    BY <1>4 DEF Stage, StageOf, InFlight
  <2>3. QED
    BY <1>4, <2>1, <2>2, BecomesMoves DEF Promise!Break
<1>5. ASSUME NEW r \in Requests, FallBack(r), usage' = usage,
             request[r].phase = "calling"
      PROVE  Unseen \/ Promise!Break(r)
  <2>1. CASE request[r].attempt < Len(request[r].chain)
    <3>1. /\ \A s \in Requests : s # r => request'[s] = request[s]
          /\ request'[r].ask = request[r].ask /\ request'[r].sent = request[r].sent
          /\ request'[r].phase = "calling"
      BY <1>5, <2>1, FallBackFields DEF FallBack, GatewayTypeOK, RequestState
    <3>2. request[r].sent = {}
      BY <1>5 DEF EveryRequestSound, Sound
    <3>3. /\ StageOf(request'[r]) = Stage[r] /\ request'[r].ask = Wanted[r]
          /\ SourceOf(request'[r]) = Source[r]
      BY <1>5, <3>1, <3>2 DEF Stage, Wanted, Source, StageOf, SourceOf
    <3>4. UNCHANGED <<Stage, Wanted, Source>>
      BY <3>1, <3>3, OneMoved DEF Stage, Wanted, Source
    <3>5. QED
      BY <1>5, <3>4
  <2>2. CASE ~(request[r].attempt < Len(request[r].chain))
    BY <1>4, <1>5, <2>2 DEF FallBack, InFlight
  <2>3. QED
    BY <2>1, <2>2
<1>6. ASSUME NEW r \in Requests, NEW ask \in Asks, Arrive(r, ask)
      PROVE  Promise!Accept(r, ask)
  <2>1. Stage[r] \in {"free", "settled", "broken"}
    BY <1>6 DEF Arrive, Stage, StageOf, InFlight
  <2>2. /\ \A s \in Requests : s # r => request'[s] = request[s]
        /\ request'[r].ask = ask
        /\ SourceOf(request'[r]) = NoDeployment
        /\ StageOf(request'[r]) \in {"accepted", "broken"}
    BY <1>6, ArriveFields DEF StageOf, SourceOf
  <2>3. /\ Stage' = [Stage EXCEPT ![r] = StageOf(request'[r])]
        /\ Wanted' = [Wanted EXCEPT ![r] = ask]
        /\ Source' = [Source EXCEPT ![r] = NoDeployment]
    BY <2>2, OneMoved
  <2>4. usage' = usage
    BY <1>6 DEF Arrive
  <2>5. QED
    BY <2>1, <2>2, <2>3, <2>4 DEF Promise!Accept, Promise!Over
<1>7. ASSUME NEW r \in Requests, CallAnswers(r) \/ EmbedAnswers(r)
      PROVE  \E d \in Deployments : Promise!Speak(r, d)
  <2> DEFINE d == Current(r)
  <2>1. /\ \A s \in Requests : s # r => request'[s] = request[s]
        /\ request[r].phase = "calling"
        /\ request'[r].ask = request[r].ask
        /\ request'[r].sent # {}
        /\ request'[r].chain[request'[r].attempt] = d
        /\ request'[r].phase \in {"streaming", "deciding", "metering"}
    BY <1>7, AnswerFields DEF Current
  <2>2. d \in Deployments
    BY <2>1, CurrentType DEF InFlight
  <2>3. d \in PermittedTo(request[r].ask) /\ request[r].ask \in Asks
    BY <2>1 DEF EveryRequestSound, Sound, GatewayTypeOK, RequestState, InFlight, Current
  <2> HIDE DEF d
  <2>4. /\ Stage[r] = "accepted" /\ StageOf(request'[r]) = "answering"
        /\ SourceOf(request'[r]) = d /\ Wanted[r] = request[r].ask
    BY <2>1 DEF Stage, StageOf, SourceOf, Wanted
  <2>5. /\ Stage' = [Stage EXCEPT ![r] = "answering"]
        /\ Source' = [Source EXCEPT ![r] = d]
        /\ Wanted' = [Wanted EXCEPT ![r] = Wanted[r]]
    BY <2>1, <2>4, OneMoved
  <2>6. Wanted' = Wanted
    BY <2>5 DEF Wanted
  <2>7. usage' = usage
    BY <1>7 DEF CallAnswers, EmbedAnswers
  <2>8. Promise!Speak(r, d)
    BY <2>3, <2>4, <2>5, <2>6, <2>7 DEF Promise!Speak
  <2>9. QED
    BY <2>2, <2>8
<1>8. ASSUME NEW r \in Requests, request[r].phase = "metering", WriteUsage(r),
             NEW phase \in {"done", "aborted"}, Becomes(r, phase)
      PROVE  Promise!Settle(r)
  <2>1. Source[r] = Current(r) /\ Wanted[r] = request[r].ask /\ Stage[r] = "answering"
    BY <1>8 DEF EveryRequestSound, Sound, Answering, Stage, StageOf,
                Source, SourceOf, Wanted, Current
  <2>2. StageOf([request[r] EXCEPT !.phase = phase]) \in {"settled", "broken"}
    BY <1>8 DEF StageOf, GatewayTypeOK, RequestState
  <2>3. QED
    BY <1>8, <2>1, <2>2, BecomesMoves DEF WriteUsage, Promise!Settle
<1>9. ASSUME NEW r \in Requests, Backend(r)
      PROVE  \/ Unseen
             \/ Promise!Break(r)
             \/ \E d \in Deployments : Promise!Speak(r, d)
  <2>1. ASSUME NEW retryable \in BOOLEAN, CallFails(r, retryable)
        PROVE  Unseen \/ Promise!Break(r)
    BY <1>4, <1>5, <2>1 DEF CallFails, InFlight
  <2>2. CASE CallBreaks(r) \/ StreamBreaks(r)
    BY <1>4, <2>2 DEF CallBreaks, StreamBreaks, InFlight
  <2>3. CASE StreamEnds(r)
    BY <1>3, <2>3 DEF StreamEnds
  <2>4. QED
    BY <1>7, <1>9, <2>1, <2>2, <2>3 DEF Backend
<1>10. ASSUME NEW r \in Requests, ClientLeaves(r) \/ TelemetryFails(r)
       PROVE  Promise!Break(r) \/ Promise!Settle(r)
  BY <1>4, <1>8, <1>10 DEF ClientLeaves, TelemetryFails, InFlight
<1>11. ASSUME NEW r \in Requests, RecordDecision(r)
       PROVE  Unseen
  BY <1>3, <1>11 DEF RecordDecision
<1>12. ASSUME StartServing \/ NextProbe \/ UNCHANGED vars
                \/ \E snapshot \in Snapshots : Reload(snapshot)
       PROVE  Unseen
  BY <1>2, <1>12 DEF StartServing, NextProbe, NextPass, Ask, Report, Reload,
                     vars, gatewayVars
<1>13. ASSUME NEW r \in Requests,
              \/ \E ask \in Asks : Arrive(r, ask)
              \/ Backend(r) \/ ClientLeaves(r) \/ Telemetry(r)
       PROVE  Unseen \/ Promise!AnswersNext
  <2>1. ASSUME NEW ask \in Asks, Arrive(r, ask)
        PROVE  Promise!AnswersNext
    BY <1>6, <2>1 DEF Promise!AnswersNext
  <2>2. CASE Backend(r)
    BY <1>9, <2>2 DEF Promise!AnswersNext
  <2>3. CASE ClientLeaves(r) \/ TelemetryFails(r)
    BY <1>10, <2>3 DEF Promise!AnswersNext
  <2>4. CASE RecordDecision(r)
    BY <1>11, <2>4
  <2>5. CASE RecordUsage(r)
    BY <1>8, <2>5 DEF RecordUsage, Promise!AnswersNext
  <2>6. QED
    BY <1>13, <2>1, <2>2, <2>3, <2>4, <2>5 DEF Telemetry
<1> DEFINE Moves == \E r \in Requests : \/ \E ask \in Asks : Arrive(r, ask)
                                        \/ Backend(r) \/ ClientLeaves(r) \/ Telemetry(r)
           Idles == \/ StartServing \/ NextProbe \/ UNCHANGED vars
                    \/ \E snapshot \in Snapshots : Reload(snapshot)
<1>14. CASE Moves
  <2>1. PICK r \in Requests : \/ \E ask \in Asks : Arrive(r, ask)
                              \/ Backend(r) \/ ClientLeaves(r) \/ Telemetry(r)
    BY <1>14
  <2> HIDE DEF Unseen
  <2>2. Unseen \/ Promise!AnswersNext
    BY <1>13, <2>1
  <2>3. CASE Unseen
    BY <1>1, <2>3
  <2>4. CASE Promise!AnswersNext
    BY <2>4
  <2>5. QED
    BY <2>2, <2>3, <2>4
<1>15. CASE Idles
  <2> HIDE DEF Unseen
  <2>1. QED
    BY <1>1, <1>12, <1>15
<1>16. Moves \/ Idles
  <2>1. Next \/ UNCHANGED vars
    OBVIOUS
  <2>2. QED
    BY <2>1 DEF Next
<1> HIDE DEF Moves, Idles
<1>17. QED
  BY <1>14, <1>15, <1>16

\* The gateway implements Answers: one permitted deployment per answer, charged
\* once and after it answered, through every fallback, failure and reload.
THEOREM KeepsPromiseHolds == Spec => KeepsPromise
<1>1. GatewayTypeOK /\ Init => Promise!AnswersInit
  BY DEF Init, Promise!AnswersInit, Stage, StageOf, Wanted, Source, SourceOf,
         GatewayTypeOK, RequestState
<1>2. GatewayTypeOK /\ EveryRequestSound /\ EveryRequestSound' /\ [Next]_vars
         => [Promise!AnswersNext]_(Promise!answerVars)
  BY PromiseStep
<1>3. QED
  BY <1>1, <1>2, GatewayTypeCorrect, RequestsStaySound, PTL
     DEF Spec, KeepsPromise, Promise!AnswersSpec

-----------------------------------------------------------------------------
(***************************************************************************)
(* The first probe pass.  Before the instance serves there is no request,  *)
(* hence no failure to outweigh a report, and the catalog is the one it    *)
(* started with: what the pass has been through has a report for a state.  *)
(***************************************************************************)
FirstPass ==
    ~serving =>
        /\ \A r \in Requests : request[r].phase \notin InFlight
        /\ \A d \in Deployments : failures[d] = 0
        /\ HealthProbeEnabled =>
              \A d \in Probed : \/ d \in prober.todo \/ d = prober.asking
                                \/ entry[d] \in ProbeReport

\* Before the instance serves, only its start and the probes it awaits take steps.
LEMMA OnlyTheFirstPass ==
    ASSUME FirstPass, ~serving, Next
    PROVE  \/ StartServing
           \/ \E d \in Deployments :
                 Ask(d) \/ \E report \in ProbeReport : Report(d, report)
<1>1. \A r \in Requests : request[r].phase \notin InFlight
  BY DEF FirstPass
<1>2. ASSUME NEW r \in Requests
      PROVE  ~(Backend(r) \/ ClientLeaves(r) \/ Telemetry(r))
  BY <1>1 DEF InFlight, Backend, CallFails, CallBreaks, CallAnswers, EmbedAnswers,
              StreamEnds, StreamBreaks, ClientLeaves, Telemetry, RecordDecision,
              RecordUsage, TelemetryFails
<1>3. /\ \A r \in Requests, ask \in Asks : ~Arrive(r, ask)
      /\ \A snapshot \in Snapshots : ~Reload(snapshot)
      /\ ~NextPass
  BY DEF Arrive, Reload, NextPass
<1>4. QED
  BY <1>2, <1>3 DEF Next, NextProbe

LEMMA FirstPassStep ==
    ASSUME GatewayTypeOK, HealthTypeOK, FirstPass, [Next]_vars
    PROVE  FirstPass'
<1>1. CASE serving
  <2>1. serving'
    <3>1. CASE UNCHANGED vars
      BY <1>1, <3>1 DEF vars, gatewayVars
    <3>2. CASE StartServing \/ NextProbe \/ \E snapshot \in Snapshots : Reload(snapshot)
      BY <1>1, <3>2 DEF StartServing, NextProbe, NextPass, Ask, Report, Reload, gatewayVars
    <3>3. ASSUME NEW r \in Requests,
                 \/ \E ask \in Asks : Arrive(r, ask)
                 \/ Backend(r) \/ ClientLeaves(r) \/ Telemetry(r)
          PROVE  serving'
      BY <1>1, <3>3 DEF Arrive, Backend, CallFails, CallBreaks, CallAnswers, EmbedAnswers,
                        StreamEnds, StreamBreaks, ClientLeaves, Telemetry, RecordDecision,
                        RecordUsage, TelemetryFails
    <3>4. QED
      BY <3>1, <3>2, <3>3 DEF Next
  <2>2. QED
    BY <2>1 DEF FirstPass
<1>2. CASE ~serving /\ UNCHANGED vars
  BY <1>2 DEF FirstPass, vars, gatewayVars, healthVars, Probed
<1>3. CASE StartServing
  BY <1>3 DEF StartServing, FirstPass
<1>4. ASSUME ~serving, NEW d \in Deployments, Ask(d)
      PROVE  FirstPass'
  <2>1. /\ prober.asking = NoDeployment
        /\ prober' = [todo |-> prober.todo \ {d}, asking |-> d]
        /\ UNCHANGED <<entry, failures, registry, serving, request>>
    BY <1>4 DEF Ask, AskDeployment, gatewayVars
  <2>2. prober'.todo = prober.todo \ {d} /\ prober'.asking = d
    BY <2>1
  <2>3. \A e \in Probed : e \in Deployments /\ e # NoDeployment
    BY HealthAssumption DEF Probed
  <2>4. QED
    BY <1>4, <2>1, <2>2, <2>3 DEF FirstPass, Probed
<1>5. ASSUME ~serving, NEW d \in Deployments, NEW report \in ProbeReport, Report(d, report)
      PROVE  FirstPass'
  <2>1. /\ prober.asking = d /\ prober' = [prober EXCEPT !.asking = NoDeployment]
        /\ failures' = failures
        /\ entry' = [entry EXCEPT ![d] =
                        IF report = "ready" /\ failures[d] >= FailureThreshold
                        THEN state_for(d) ELSE report]
        /\ UNCHANGED <<registry, serving, request>>
    BY <1>5 DEF Report, ProbeAnswers, RecordProbe, gatewayVars
  <2>2. ~(failures[d] >= FailureThreshold)
    BY <1>5, HealthAssumption DEF FirstPass
  <2>3. entry'[d] = report /\ \A e \in Deployments : e # d => entry'[e] = entry[e]
    BY <2>1, <2>2 DEF HealthTypeOK
  <2>4. prober'.todo = prober.todo
    BY <2>1 DEF HealthTypeOK
  <2>5. \A e \in Probed : e \in Deployments
    BY DEF Probed
  <2>6. QED
    BY <1>5, <2>1, <2>3, <2>4, <2>5 DEF FirstPass, Probed
<1>6. QED
  BY <1>1, <1>2, <1>3, <1>4, <1>5, OnlyTheFirstPass

LEMMA ServesWhenProbed ==
    ASSUME FirstPass, [Next]_vars
    PROVE  [HealthProbeEnabled /\ ~serving /\ serving' =>
               /\ prober = [todo |-> {}, asking |-> NoDeployment]
               /\ \A d \in Probed : entry[d] \in ProbeReport]_vars
<1> SUFFICES ASSUME Next, HealthProbeEnabled, ~serving, serving'
             PROVE  /\ prober = [todo |-> {}, asking |-> NoDeployment]
                    /\ \A d \in Probed : entry[d] \in ProbeReport
  OBVIOUS
<1>1. StartServing
  <2>1. \A d \in Deployments :
           ~(Ask(d) \/ \E report \in ProbeReport : Report(d, report))
    BY DEF Ask, Report, gatewayVars
  <2>2. QED
    BY <2>1, OnlyTheFirstPass
<1>2. prober = [todo |-> {}, asking |-> NoDeployment]
  BY <1>1 DEF StartServing
<1>3. prober.todo = {} /\ prober.asking = NoDeployment
  BY <1>2
<1>4. \A d \in Probed : d # NoDeployment
  BY HealthAssumption DEF Probed
<1>5. QED
  BY <1>2, <1>3, <1>4 DEF FirstPass

\* An instance that probes accepts traffic only once every deployment it was started
\* with, but the disabled ones, has answered a probe (the lifespan of main.py).
THEOREM ProbedBeforeServingHolds == Spec => ProbedBeforeServing
<1>1. Init => FirstPass
  BY DEF Init, FirstPass, InFlight
<1>2. GatewayTypeOK /\ HealthTypeOK /\ FirstPass /\ [Next]_vars => FirstPass'
  BY FirstPassStep
<1>3. FirstPass /\ [Next]_vars
         => [HealthProbeEnabled /\ ~serving /\ serving' =>
                /\ prober = [todo |-> {}, asking |-> NoDeployment]
                /\ \A d \in Probed : entry[d] \in ProbeReport]_vars
  BY ServesWhenProbed
<1>4. Spec => []HealthTypeOK
  BY TracksHealthHolds, HealthTypeCorrect DEF TracksHealth
<1>5. QED
  BY <1>1, <1>2, <1>3, <1>4, GatewayTypeCorrect, PTL DEF Spec, ProbedBeforeServing

=============================================================================
