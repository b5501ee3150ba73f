------------------------------ MODULE Answers -------------------------------
(***************************************************************************)
(* What the gateway promises the caller of one request, with no word about *)
(* health, probes, fallback or telemetry: an accepted request is answered  *)
(* by at most one deployment, one its policy permits; it is charged at     *)
(* most once, to the deployment that answered and only after it did; and   *)
(* once the request is over nothing more is said or charged for it until   *)
(* it is made again.  Module Gateway implements this specification.        *)
(***************************************************************************)
EXTENDS Sequences

CONSTANTS
    Requests,     \* request ids
    Deployments,  \* the deployments that may answer
    Asks,         \* what a caller may ask
    Permitted,    \* [Asks -> SUBSET Deployments]: what policy permits each ask
    Nobody        \* no deployment has answered

VARIABLES
    stage,   \* "free", "accepted", "answering", "settled" or "broken"
    wanted,  \* the ask of each request
    source,  \* the deployment whose words the caller has seen, or Nobody
    ledger   \* what was charged: <<deployment, operation>> rows

answerVars == <<stage, wanted, source, ledger>>

Over == {"free", "settled", "broken"}

\* The request is taken on, or turned away at once.
Accept(r, ask) ==
    /\ stage[r] \in Over
    /\ \E s \in {"accepted", "broken"} : stage' = [stage EXCEPT ![r] = s]
    /\ wanted' = [wanted EXCEPT ![r] = ask]
    /\ source' = [source EXCEPT ![r] = Nobody]
    /\ UNCHANGED ledger

\* The first words of the answer reach the caller.
Speak(r, d) ==
    /\ stage[r] = "accepted"
    /\ d \in Permitted[wanted[r]]
    /\ stage' = [stage EXCEPT ![r] = "answering"]
    /\ source' = [source EXCEPT ![r] = d]
    /\ UNCHANGED <<wanted, ledger>>

\* The answer is complete and charged; its last word may yet be lost.
Settle(r) ==
    /\ stage[r] = "answering"
    /\ \E s \in {"settled", "broken"} : stage' = [stage EXCEPT ![r] = s]
    /\ ledger' = [ledger EXCEPT ![r] = Append(@, <<source[r], wanted[r].op>>)]
    /\ UNCHANGED <<wanted, source>>

Break(r) ==
    /\ stage[r] \in {"accepted", "answering"}
    /\ stage' = [stage EXCEPT ![r] = "broken"]
    /\ UNCHANGED <<wanted, source, ledger>>

AnswersInit ==
    /\ stage = [r \in Requests |-> "free"]
    /\ wanted \in [Requests -> Asks]
    /\ source = [r \in Requests |-> Nobody]
    /\ ledger = [r \in Requests |-> <<>>]

AnswersNext ==
    \E r \in Requests :
        \/ \E ask \in Asks : Accept(r, ask)
        \/ \E d \in Deployments : Speak(r, d)
        \/ Settle(r)
        \/ Break(r)

AnswersSpec == AnswersInit /\ [][AnswersNext]_answerVars

=============================================================================
