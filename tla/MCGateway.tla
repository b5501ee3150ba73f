----------------------------- MODULE MCGateway ------------------------------
(***************************************************************************)
(* Small instances of Gateway: the catalogs, the callers and the snapshots *)
(* that the runs choose from.                                              *)
(***************************************************************************)
EXTENDS Gateway, TLC

CONSTANTS cloud, hosted, vpc, laptop, none, r1, r2

MCBoth == {cloud, hosted}
MCAll == {cloud, hosted, vpc, laptop}

Place(d) ==
    CASE d = cloud  -> [privacy |-> "provider", type |-> "provider_cloud",
                        provider |-> "openai", region |-> "us"]
      [] d = hosted -> [privacy |-> "private", type |-> "janus_gpu",
                        provider |-> "janus", region |-> "us"]
      [] d = vpc    -> [privacy |-> "private", type |-> "customer_vpc",
                        provider |-> "meta", region |-> "eu"]
      [] d = laptop -> [privacy |-> "local", type |-> "local_dev",
                        provider |-> "meta", region |-> "in"]

MCCatalog ==
    [d \in Deployments |->
        [privacy |-> Place(d).privacy, type |-> Place(d).type,
         provider |-> Place(d).provider, region |-> Place(d).region,
         offers |-> IF d = hosted THEN {"chat", "tools", "embedding"}
                    ELSE {"chat", "tools"}]]

\* The order of the deployment keys.
MCTieBreak ==
    [d \in Deployments |->
        CASE d = cloud -> 1 [] d = hosted -> 2 [] d = vpc -> 3 [] OTHER -> 4]

\* What janus-llama31-8b-hosted.yaml and the local models declare.
MCInitialHealth ==
    [d \in Deployments |-> IF d = hosted THEN "warming" ELSE "ready"]

MCAllReady == [d \in Deployments |-> "ready"]

\* The provider scores best while all are healthy; one degraded falls behind.
MCScore ==
    [d \in Deployments |-> CASE d = cloud -> 7000 [] d = hosted -> 6700 [] OTHER -> 6500]

Plain(op) ==
    [op |-> op, held |-> "auto", asked |-> "auto", heldClass |-> "INTERNAL",
     askedClass |-> "PUBLIC", pool |-> Deployments, pinned |-> FALSE,
     regions |-> {}, providers |-> {}, excluded |-> {}, needs |-> {"chat"},
     score |-> MCScore, weight |-> 15]

Pinned(op, d) == [Plain(op) EXCEPT !.pool = {d}, !.pinned = TRUE]
Embedding == [Plain("embed") EXCEPT !.needs = {"embedding"}]

\* The asks of the run on two deployments.
MCAsks == {Plain("generate"), Plain("stream"), Embedding}

\* Every combination of ceilings and asks, with and without constraints.
MCPolicyAsks ==
    {Pinned("stream", cloud), Pinned("stream", laptop)} \cup
    {[Plain("stream") EXCEPT !.held = held, !.asked = asked,
                             !.heldClass = class, !.askedClass = askedClass,
                             !.regions = regions, !.excluded = excluded] :
        held \in ExecutionMode, asked \in ExecutionMode,
        class \in {"INTERNAL", "CONFIDENTIAL"},
        askedClass \in {"PUBLIC", "RESTRICTED"},
        regions \in {{}, {"us", "in"}}, excluded \in {{}, {"meta"}}}

MCStreamAsks == {Plain("stream")}
MCFewAsks == {Plain("generate"), Plain("stream")}

Everything == [d \in Deployments |-> "enabled"]
MCOneSnapshot == {Everything}
MCSnapshots ==
    {Everything, [Everything EXCEPT ![hosted] = "inactive"],
     [Everything EXCEPT ![hosted] = "absent"]}

MCSymmetry == Permutations({r1, r2})
=============================================================================
