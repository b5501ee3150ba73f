------------------------------ MODULE Gateway -------------------------------
(***************************************************************************)
(* The model gateway (services/gateway): catalog snapshots, the resolver,  *)
(* the executor with its fallback, the health tracker and probe loop of    *)
(* module Health, and the telemetry tables it writes.                      *)
(*                                                                         *)
(* One process, one event loop.  A request is resolved in one step, which  *)
(* fixes its chain of candidates from the snapshot and the health of that  *)
(* moment; then every await of the executor is a point where other         *)
(* requests, the probe loop and catalog reloads run.  Each action below is *)
(* the code between two awaits.                                            *)
(***************************************************************************)
EXTENDS Health, Policy, Sequences, FiniteSets

CONSTANTS
    Catalog,             \* [Deployments -> deployment record], see Policy
    TieBreak,            \* an injective number: (priority, key), the sort's tie-break
    Snapshots,           \* the catalog snapshots that load
    Requests,            \* request ids
    Asks,                \* what callers may ask, see below
    HealthProbeEnabled,  \* health_probe_enabled
    MaxAttempts,         \* max_fallback_attempts
    MaxCalls             \* bound: how often one request id is presented

(***************************************************************************)
(* An ask is a record                                                      *)
(*   [op, held, asked, heldClass, askedClass, pool, pinned,                *)
(*    regions, providers, excluded, needs, score, weight]:                 *)
(* the mode and classification the gateway resolved for the caller (held), *)
(* the request's own ("auto" and "PUBLIC" when it names none), the         *)
(* candidate pool its model field names, and the scores its requirements   *)
(* and profile give each deployment: score[d] is score_candidate without   *)
(* its availability term, weight the weight of that term (both scaled).    *)
(* The model type is one of the needs.                                     *)
(***************************************************************************)
Listing == {"absent", "disabled", "inactive", "enabled"}
Operation == {"generate", "stream", "embed"}

InFlight == {"calling", "streaming", "deciding", "metering"}
Ended == {"refused", "done", "failed", "exhausted", "aborted"}

ASSUME GatewayAssumption ==
    /\ DOMAIN Catalog = Deployments
    /\ IsFiniteSet(Deployments)
    /\ TieBreak \in [Deployments -> Int]
    /\ \A d, e \in Deployments : TieBreak[d] = TieBreak[e] => d = e
    /\ Snapshots \subseteq [Deployments -> Listing]
    /\ Asks # {}
    /\ \A a \in Asks :
          /\ a.op \in Operation
          /\ {a.held, a.asked} \subseteq ExecutionMode
          /\ {a.heldClass, a.askedClass} \subseteq Classification
          /\ a.pool \subseteq Deployments
          /\ a.pinned => \E d \in Deployments : a.pool = {d}
          /\ a.score \in [Deployments -> Int] /\ a.weight \in Nat
    /\ HealthProbeEnabled \in BOOLEAN
    /\ MaxAttempts \in Nat \ {0}
    /\ MaxCalls \in Nat

VARIABLES
    registry,   \* RegistryService._registry
    serving,    \* the lifespan has reached its yield
    request,    \* each request id: [phase, ask, chain, attempt, sent, calls]
    decisions,  \* telemetry.routing_decisions: the deployment, per request id
    usage       \* telemetry.usage_records: <<deployment, operation>>, per request id

gatewayVars == <<registry, serving, request, decisions, usage>>
vars == <<healthVars, gatewayVars>>

RequestState ==
    [phase : {"idle"} \cup InFlight \cup Ended, ask : Asks,
     chain : Seq(Deployments), attempt : Nat, sent : SUBSET Deployments,
     calls : 0..MaxCalls]

(***************************************************************************)
(* The types of the gateway's state, with what makes a step well defined:  *)
(* a request in flight points into its chain of candidates.                *)
(***************************************************************************)
GatewayTypeOK ==
    /\ registry \in [Deployments -> Listing]
    /\ serving \in BOOLEAN
    /\ request \in [Requests -> RequestState]
    /\ \A r \in Requests :
          request[r].phase \in InFlight =>
             request[r].attempt \in 1..Len(request[r].chain)
    /\ decisions \in [Requests -> Deployments \cup {NoDeployment}]
    /\ usage \in [Requests -> Seq(Deployments \X Operation)]

-----------------------------------------------------------------------------
(***************************************************************************)
(* Resolution (router/resolver.py).                                        *)
(***************************************************************************)
\* What the caller's policy and the request's own ask come to.
Resolved(ask) ==
    [mode |-> EffectiveMode(ask.held, ask.asked),
     classification |-> EffectiveClassification(ask.heldClass, ask.askedClass),
     regions |-> ask.regions, providers |-> ask.providers,
     excluded |-> ask.excluded, needs |-> ask.needs]

\* _first_exclusion finds no reason to leave d out.
Eligible(ask, d) ==
    /\ registry[d] = "enabled"
    /\ PolicyAllows(Resolved(ask), Catalog[d])
    /\ Routable(d)

Candidates(ask) == {d \in ask.pool : Eligible(ask, d)}

\* _availability_score, times 100.
Availability(d) ==
    CASE state_for(d) = "ready"    -> 100
      [] state_for(d) = "degraded" -> 60
      [] state_for(d) = "warming"  -> 30
      [] OTHER                     -> 0

Score(ask, d) == ask.score[d] + ask.weight * Availability(d)

Precedes(ask, d, e) ==
    \/ Score(ask, d) > Score(ask, e)
    \/ Score(ask, d) = Score(ask, e) /\ TieBreak[d] < TieBreak[e]

\* The sorted list of a set of candidates (there is exactly one).
Rankings(ask, ds) ==
    {s \in [1..Cardinality(ds) -> ds] :
        \A i, j \in 1..Cardinality(ds) : i < j => Precedes(ask, s[i], s[j])}

\* Executor._attempts; embeddings try the primary alone.
Attempts(ask, ranked) ==
    LET n == IF ask.pinned \/ ask.op = "embed" THEN 1 ELSE MaxAttempts IN
    [i \in 1..(IF n < Len(ranked) THEN n ELSE Len(ranked)) |-> ranked[i]]

-----------------------------------------------------------------------------
Current(r) == request[r].chain[request[r].attempt]

Becomes(r, phase) == request' = [request EXCEPT ![r].phase = phase]

(***************************************************************************)
(* chat_completions / embeddings, from the caller to the first backend     *)
(* call.  The request-id header may name an id that was used before; the   *)
(* model leaves out that it may also name one that is still in flight.     *)
(***************************************************************************)
Arrive(r, ask) ==
    /\ serving
    /\ request[r].phase \notin InFlight
    /\ request[r].calls < MaxCalls
    /\ LET taken(phase, chain) ==
              [phase |-> phase, ask |-> ask, chain |-> chain, attempt |-> 1,
               sent |-> {}, calls |-> request[r].calls + 1]
       IN IF Candidates(ask) = {}
          THEN request' = [request EXCEPT ![r] = taken("refused", <<>>)]
          ELSE \E ranked \in Rankings(ask, Candidates(ask)) :
                  request' = [request EXCEPT
                                 ![r] = taken("calling", Attempts(ask, ranked))]
    /\ UNCHANGED <<healthVars, registry, serving, decisions, usage>>

FallBackPastTheEnd(r) ==
    request' = [request EXCEPT ![r].phase = "calling", ![r].attempt = @ + 1]

FallBackRetriesTheSame(r) == Becomes(r, "calling")

\* The next candidate, or UnavailableError once the chain is exhausted.
FallBack(r) ==
    IF request[r].attempt < Len(request[r].chain)
    THEN request' = [request EXCEPT ![r].phase = "calling", ![r].attempt = @ + 1]
    ELSE Becomes(r, "exhausted")

\* A backend raises a JanusError before it has answered anything.
CallFails(r, retryable) ==
    /\ request[r].phase = "calling"
    /\ request[r].ask.op # "embed"
    /\ RecordFailure(Current(r))
    /\ IF retryable THEN FallBack(r) ELSE Becomes(r, "failed")
    /\ UNCHANGED <<prober, registry, serving, decisions, usage>>

\* Any other exception (an answer that is not JSON, say) leaves the executor at
\* once, and so does every failure of an embedding call: no health record.
CallBreaks(r) ==
    /\ request[r].phase = "calling"
    /\ Becomes(r, "failed")
    /\ UNCHANGED <<healthVars, registry, serving, decisions, usage>>

\* generate: the backend's answer; stream: its first chunk (or a clean end
\* without one), sent to the client after the routing event.
CallAnswers(r) ==
    /\ request[r].phase = "calling"
    /\ request[r].ask.op # "embed"
    /\ RecordSuccess(Current(r))
    /\ request' = [request EXCEPT
          ![r].phase = IF request[r].ask.op = "stream" THEN "streaming" ELSE "deciding",
          ![r].sent = @ \cup {Current(r)}]
    /\ UNCHANGED <<prober, registry, serving, decisions, usage>>

\* embeddings: neither a health record nor a routing decision.
EmbedAnswers(r) ==
    /\ request[r].phase = "calling"
    /\ request[r].ask.op = "embed"
    /\ request' = [request EXCEPT ![r].phase = "metering",
                                  ![r].sent = @ \cup {Current(r)}]
    /\ UNCHANGED <<healthVars, registry, serving, decisions, usage>>

\* The backend's stream ends; the usage event goes to the client.
StreamEnds(r) ==
    /\ request[r].phase = "streaming"
    /\ Becomes(r, "deciding")
    /\ UNCHANGED <<healthVars, registry, serving, decisions, usage>>

StreamBreaksAndFallsBack(r) ==
    /\ request[r].phase = "streaming"
    /\ FallBack(r)
    /\ UNCHANGED <<healthVars, registry, serving, decisions, usage>>

\* The backend fails after the first chunk: janus.error, then [DONE].
StreamBreaks(r) ==
    /\ request[r].phase = "streaming"
    /\ Becomes(r, "failed")
    /\ UNCHANGED <<healthVars, registry, serving, decisions, usage>>

\* The client of a stream goes away: the generator is cancelled at its await.
\* (At the await of a telemetry transaction it is TelemetryFails.)
ClientLeaves(r) ==
    /\ request[r].phase \in {"calling", "streaming"}
    /\ request[r].ask.op = "stream"
    /\ Becomes(r, "aborted")
    /\ UNCHANGED <<healthVars, registry, serving, decisions, usage>>

-----------------------------------------------------------------------------
(***************************************************************************)
(* Telemetry (telemetry/writer.py, with a database configured): two        *)
(* transactions, one after the other.                                      *)
(***************************************************************************)
WriteDecisionAgain(r) ==
    decisions' = [decisions EXCEPT ![r] = Current(r)]

WriteDecisionOfThePrimary(r) ==
    decisions' = [decisions EXCEPT ![r] =
                     IF @ = NoDeployment THEN request[r].chain[1] ELSE @]

\* INSERT ... ON CONFLICT (request_id) DO NOTHING.
WriteDecision(r) ==
    decisions' = [decisions EXCEPT ![r] =
                     IF @ = NoDeployment THEN Current(r) ELSE @]

WriteUsage(r) ==
    usage' = [usage EXCEPT ![r] = Append(@, <<Current(r), request[r].ask.op>>)]

RecordDecision(r) ==
    /\ request[r].phase = "deciding"
    /\ WriteDecision(r)
    /\ Becomes(r, "metering")
    /\ UNCHANGED <<healthVars, registry, serving, usage>>

\* The usage row commits; the answer (or [DONE]) goes to the client.
RecordUsage(r) ==
    /\ request[r].phase = "metering"
    /\ WriteUsage(r)
    /\ Becomes(r, "done")
    /\ UNCHANGED <<healthVars, registry, serving, decisions>>

TelemetryFailsAndIsRetried(r) ==
    /\ request[r].phase = "metering"
    /\ WriteUsage(r)
    /\ UNCHANGED <<healthVars, registry, serving, request, decisions>>

(***************************************************************************)
(* The transaction of either row ends without the gateway hearing of a     *)
(* commit: it was refused, its connection was lost, or it was cancelled    *)
(* with the client's stream.  The row may be there all the same.  None of  *)
(* these is a JanusError, so the response breaks off.                      *)
(***************************************************************************)
TelemetryFails(r) ==
    /\ \/ /\ request[r].phase = "deciding"
          /\ WriteDecision(r) \/ UNCHANGED decisions
          /\ UNCHANGED usage
       \/ /\ request[r].phase = "metering"
          /\ WriteUsage(r) \/ UNCHANGED usage
          /\ UNCHANGED decisions
    /\ Becomes(r, "aborted")
    /\ UNCHANGED <<healthVars, registry, serving>>

-----------------------------------------------------------------------------
Listed == {d \in Deployments : registry[d] # "absent"}

\* probe_once skips disabled deployments, not those of inactive models.
Probed == {d \in Deployments : registry[d] \in {"inactive", "enabled"}}

StartServingUnprobed ==
    /\ ~serving
    /\ serving' = TRUE
    /\ UNCHANGED <<healthVars, registry, request, decisions, usage>>

\* The first probe pass (if any) is over: the instance accepts traffic.
StartServing ==
    /\ ~serving
    /\ prober = [todo |-> {}, asking |-> NoDeployment]
    /\ serving' = TRUE
    /\ UNCHANGED <<healthVars, registry, request, decisions, usage>>

ReloadForgetsHealth(snapshot) ==
    /\ serving
    /\ registry' = snapshot
    /\ entry' = Seeded({d \in Deployments : snapshot[d] # "absent"})
    /\ failures' = [d \in Deployments |-> 0]
    /\ UNCHANGED <<prober, serving, request, decisions, usage>>

\* POST /internal/registry/reload: a snapshot that loads is swapped in whole
\* (one that does not leaves everything as it was).  The tracker is not seeded.
Reload(snapshot) ==
    /\ serving
    /\ registry' = snapshot
    /\ UNCHANGED <<healthVars, serving, request, decisions, usage>>

NextPass ==
    /\ HealthProbeEnabled /\ serving
    /\ StartProbePass(Probed)
    /\ UNCHANGED gatewayVars

Ask(d) == AskDeployment(d) /\ UNCHANGED gatewayVars
Report(d, report) == ProbeAnswers(d, report) /\ UNCHANGED gatewayVars

NextProbe ==
    \/ NextPass
    \/ \E d \in Deployments :
          Ask(d) \/ \E report \in ProbeReport : Report(d, report)

Backend(r) ==
    \/ \E retryable \in BOOLEAN : CallFails(r, retryable)
    \/ CallBreaks(r) \/ CallAnswers(r) \/ EmbedAnswers(r)
    \/ StreamEnds(r) \/ StreamBreaks(r)

Telemetry(r) == RecordDecision(r) \/ RecordUsage(r) \/ TelemetryFails(r)

Init ==
    /\ registry \in Snapshots
    /\ serving = FALSE
    /\ entry = Seeded(Listed)
    /\ failures = [d \in Deployments |-> 0]
    /\ prober = [todo |-> IF HealthProbeEnabled THEN Probed ELSE {},
                 asking |-> NoDeployment]
    /\ request = [r \in Requests |->
          [phase |-> "idle", ask |-> CHOOSE ask \in Asks : TRUE, chain |-> <<>>,
           attempt |-> 1, sent |-> {}, calls |-> 0]]
    /\ decisions = [r \in Requests |-> NoDeployment]
    /\ usage = [r \in Requests |-> <<>>]

Next ==
    \/ StartServing
    \/ NextProbe
    \/ \E snapshot \in Snapshots : Reload(snapshot)
    \/ \E r \in Requests :
          \/ \E ask \in Asks : Arrive(r, ask)
          \/ Backend(r)
          \/ ClientLeaves(r)
          \/ Telemetry(r)

Spec == Init /\ [][Next]_vars

(***************************************************************************)
(* Fairness.  Every backend call ends (httpx read timeouts within the      *)
(* request's budget), every telemetry transaction commits or fails, and    *)
(* the probe loop, a task of its own whose probes have timeouts, goes on.  *)
(* Callers, clients and operators owe nothing.                             *)
(***************************************************************************)
Fairness ==
    /\ \A r \in Requests : WF_vars(Backend(r)) /\ WF_vars(Telemetry(r))
    /\ WF_vars(StartServing)
    /\ WF_vars(NextProbe)

FairSpec == Spec /\ Fairness

\* Every deployment is up often enough to answer some of its probes with ready.
UpOften == \A d \in Deployments : SF_vars(Report(d, "ready"))

RecoverySpec == FairSpec /\ UpOften

-----------------------------------------------------------------------------
\* The deployments whose backend has been called (given the prompt) for r.
Called(r) ==
    {request[r].chain[i] : i \in {j \in 1..Len(request[r].chain) :
                                     j <= request[r].attempt}}

\* Neither the caller's ceiling nor the request's own ask is open to providers.
KeepsPrivate(ask) ==
    \/ \E mode \in {ask.held, ask.asked} :
          mode \in {"private", "sovereign", "offline"}
    \/ \E class \in {ask.heldClass, ask.askedClass} :
          class \in {"CONFIDENTIAL", "RESTRICTED"}

(***************************************************************************)
(* A prompt that the caller's policy or the request itself wants kept off  *)
(* provider clouds is never given to one: not by the first choice, and not *)
(* by a fallback long after the policy was evaluated, whatever was         *)
(* reloaded or broke down since (chat.py:26-45, resolver.py:283-309).      *)
(***************************************************************************)
PrivateStaysPrivate ==
    \A r \in Requests :
        KeepsPrivate(request[r].ask) =>
            \A d \in Called(r) : Catalog[d].privacy # "provider"

(***************************************************************************)
(* Once the caller has seen words of one deployment, no other is called    *)
(* for that request: a half-streamed answer is never continued by another  *)
(* model (the rule stated at execution.py:3-6).                            *)
(***************************************************************************)
OneModelPerAnswer ==
    \A r \in Requests :
        request[r].sent # {} =>
            request[r].sent = {request[r].chain[request[r].attempt]}

(***************************************************************************)
(* A chat answer that was charged has its routing decision, and when its   *)
(* request id was presented once that decision names the very deployment   *)
(* that was charged: not the first choice that a fallback left behind, nor *)
(* one whose row was lost with its reply (execution.py:377-402).  An id    *)
(* presented again keeps its first decision, whoever answers the second    *)
(* time (ON CONFLICT DO NOTHING, writer.py:101), and explains no other.    *)
(***************************************************************************)
UsageIsExplained ==
    \A r \in Requests :
        \A i \in 1..Len(usage[r]) :
            usage[r][i][2] # "embed" =>
                /\ decisions[r] # NoDeployment
                /\ request[r].calls = 1 => decisions[r] = usage[r][i][1]

(***************************************************************************)
(* A routing decision is never rewritten, not even when the same request   *)
(* id is presented again and another deployment answers (writer.py:101).   *)
(***************************************************************************)
DecisionsStay ==
    [][\A r \in Requests :
          decisions[r] # NoDeployment => decisions'[r] = decisions[r]]_vars

(***************************************************************************)
(* No request is put on a deployment the first probe pass has not reached: *)
(* the instance is not serving while one it was started with is unprobed   *)
(* (main.py:72-76).                                                        *)
(***************************************************************************)
ProbedBeforeServing ==
    [][HealthProbeEnabled /\ ~serving /\ serving' =>
          /\ prober = [todo |-> {}, asking |-> NoDeployment]
          /\ \A d \in Probed : entry[d] \in ProbeReport]_vars

(***************************************************************************)
(* The gateway writes its tracker only as HealthSpec says: no reload,      *)
(* resolution or telemetry step touches it (so all that is shown of Health *)
(* holds of the gateway).                                                  *)
(***************************************************************************)
TracksHealth == HealthSpec

\* What a request looks like to its caller, see Answers.
StageOf(q) ==
    CASE q.phase = "idle" -> "free"
      [] q.phase = "calling" -> "accepted"
      [] q.phase \in {"streaming", "deciding", "metering"} -> "answering"
      [] q.phase = "done" -> "settled"
      [] OTHER -> "broken"

SourceOf(q) == IF q.sent = {} THEN NoDeployment ELSE q.chain[q.attempt]

Stage == [r \in Requests |-> StageOf(request[r])]
Wanted == [r \in Requests |-> request[r].ask]
Source == [r \in Requests |-> SourceOf(request[r])]

\* The candidate pool a model field names, filtered by policy alone.
PermittedTo(ask) ==
    {d \in ask.pool : PolicyAllows(Resolved(ask), Catalog[d])}

Promise == INSTANCE Answers WITH
    stage <- Stage, wanted <- Wanted, source <- Source, ledger <- usage,
    Nobody <- NoDeployment,
    Permitted <- [ask \in Asks |-> PermittedTo(ask)]

(***************************************************************************)
(* The gateway keeps the promise of Answers: one deployment per answer,    *)
(* one its policy permits, charged once and only when it has answered.     *)
(***************************************************************************)
KeepsPromise == Promise!AnswersSpec

(***************************************************************************)
(* Every request that was taken on comes to an end: whatever its backends  *)
(* do, it is answered, fails, or runs out of candidates.                   *)
(***************************************************************************)
EveryCallEnds ==
    \A r \in Requests :
        request[r].phase \in InFlight ~> request[r].phase \in Ended

(***************************************************************************)
(* A deployment that probes took out of rotation is put back by them when  *)
(* it is up often enough to answer one with ready, unless the failures of  *)
(* real requests reach the threshold meanwhile or the catalog drops it     *)
(* (health.py:113-131).                                                    *)
(***************************************************************************)
ProbesBringBack ==
    UpOften =>
        \A d \in Deployments :
            d \in Probed /\ ~Routable(d)
                ~> Routable(d) \/ failures[d] >= FailureThreshold \/ d \notin Probed

-----------------------------------------------------------------------------
(***************************************************************************)
(* docs/security.md:236 and 240 and chat.py:29-30, as they are written: a  *)
(* request narrows the caller's mode and never loosens it, so whatever is  *)
(* called is something the caller's own mode allows.                       *)
(***************************************************************************)
NeverLoosens ==
    \A r \in Requests :
        \A d \in Called(r) : ModeAllows(request[r].ask.held, Catalog[d])

=============================================================================
