------------------------------- MODULE Policy -------------------------------
(***************************************************************************)
(* Where an inference request may run: the execution modes and data        *)
(* classifications of janus_schemas, the most-restrictive-wins rule of the *)
(* gateway's chat router, and the policy part of the resolver's            *)
(* eligibility filter.  Pure operators, used by Gateway and Chat.          *)
(*                                                                         *)
(* A deployment is a record of its catalog facts                           *)
(*   [privacy, type, provider, region, offers]                             *)
(* where offers is the set of capabilities, languages and context sizes it *)
(* satisfies, and an ask is what the resolver is given                     *)
(*   [mode, classification, regions, providers, excluded, needs].          *)
(***************************************************************************)
EXTENDS Integers

ExecutionMode == {"auto", "cloud", "private", "sovereign", "offline"}
Classification == {"PUBLIC", "INTERNAL", "CONFIDENTIAL", "RESTRICTED"}
PrivacyLevel == {"provider", "private", "local"}
DeploymentType ==
    {"provider_cloud", "janus_gpu", "janus_cpu", "local_dev", "customer_vpc"}

restrictiveness(mode) ==
    CASE mode = "auto"      -> 0
      [] mode = "cloud"     -> 1
      [] mode = "private"   -> 2
      [] mode = "sovereign" -> 3
      [] mode = "offline"   -> 4

rank(classification) ==
    CASE classification = "PUBLIC"       -> 0
      [] classification = "INTERNAL"     -> 1
      [] classification = "CONFIDENTIAL" -> 2
      [] classification = "RESTRICTED"   -> 3

MinimumMode(held, asked) ==
    IF restrictiveness(asked) < restrictiveness(held) THEN asked ELSE held

(***************************************************************************)
(* The most restrictive of two scopes.  Python's max returns its first     *)
(* argument on a tie, and no two modes tie.                                *)
(***************************************************************************)
EffectiveMode(held, asked) ==
    IF restrictiveness(asked) > restrictiveness(held) THEN asked ELSE held

EffectiveClassification(held, asked) ==
    IF rank(asked) > rank(held) THEN asked ELSE held

-----------------------------------------------------------------------------
JanusHosted == {"janus_gpu", "janus_cpu"}

ModeAllows(mode, d) ==
    CASE mode = "cloud"     -> d.privacy = "provider"
      [] mode = "private"   -> d.privacy \in {"private", "local"}
      [] mode = "sovereign" -> d.privacy = "private" /\ d.type \in JanusHosted
      [] mode = "offline"   -> d.privacy = "local"
      [] OTHER              -> TRUE

ClassificationAllows(classification, d) ==
    rank(classification) >= rank("CONFIDENTIAL") => d.privacy # "provider"

(***************************************************************************)
(* The request's own constraints; an empty set of regions or providers is  *)
(* no constraint.                                                          *)
(***************************************************************************)
ConstraintsAllow(ask, d) ==
    /\ ask.regions # {} => d.region \in ask.regions
    /\ ask.providers # {} => d.provider \in ask.providers
    /\ d.provider \notin ask.excluded

PolicyAllows(ask, d) ==
    /\ ModeAllows(ask.mode, d)
    /\ ClassificationAllows(ask.classification, d)
    /\ ConstraintsAllow(ask, d)
    /\ ask.needs \subseteq d.offers

=============================================================================
