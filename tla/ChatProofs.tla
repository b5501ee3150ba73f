----------------------------- MODULE ChatProofs -----------------------------
(***************************************************************************)
(* Theorems about Chat, for every set of requests and instances, every     *)
(* mode of the organization and every subset of the disturbances.          *)
(*                                                                         *)
(* The steps of a request outside its transaction (ChatRunner and what     *)
(* surrounds it) are alike for most invariants: they are gathered in       *)
(* RunnerStep, and what is proved of it holds of each of them.             *)
(***************************************************************************)
EXTENDS Chat, SequenceTheorems, TLAPS

\* A turn's row is there and nothing has ended it.
Unwritten == {"committed", "announced", "relaying", "closing", "detached"}

\* Nothing of a request is stored yet.
Unstored == {"idle", "waiting"} \cup InTransaction

\* Only r's local state moves.
OnlyOf(r) ==
    /\ handler' \in [Requests -> HandlerState]
    /\ \A q \in Requests \ {r} : handler'[q] = handler[q]

\* What r asks for and what it has reserved stay as they are.
KeepsItsTurn(r) ==
    /\ handler'[r].kind = handler[r].kind
    /\ handler'[r].instance = handler[r].instance
    /\ handler'[r].target = handler[r].target
    /\ handler'[r].prompt = handler[r].prompt
    /\ handler'[r].sequence = handler[r].sequence

\* A step of r that holds no lock, takes none and stores nothing.
RunnerStep(r) ==
    /\ OnlyOf(r) /\ KeepsItsTurn(r)
    /\ UNCHANGED <<thread, lock, message>>
    /\ handler[r].phase \in {"waiting", "committed"} \cup Running
    /\ handler'[r].phase \in {"over"} \cup Running
    /\ handler[r].phase = "waiting" => handler'[r].phase = "over"
    /\ handler'[r].phase \in Unwritten => handler[r].phase \in Unwritten
    /\ handler'[r].said # handler[r].said => handler[r].phase = "relaying"

\* An instance dies: some requests are over, and those that held the lock let go.
CrashStep(lost) ==
    /\ handler' \in [Requests -> HandlerState]
    /\ UNCHANGED <<thread, message>>
    /\ \A q \in Requests \ lost : handler'[q] = handler[q]
    /\ \A q \in lost : /\ KeepsItsTurn(q)
                       /\ handler'[q].said = handler[q].said
                       /\ handler'[q].phase = "over"
                       /\ handler[q].phase \notin {"idle", "over"}
    /\ lock' = IF lock \in lost THEN NoRequest ELSE lock

\* The steps of RunnerStep, by their names in Chat.
Runs(r) ==
    \/ FindsNothing(r) \/ Begin(r) \/ LeavesEarly(r) \/ Announce(r)
    \/ \E chunk \in {"words", "error", "other"} : Relay(r, chunk)
    \/ StreamEnds(r) \/ GatewayFails(r) \/ ClientLeaves(r)
    \/ WriteFails(r) \/ Finish(r)

\* Those of the registry alone.
Registers == \/ \E i \in Instances : Cancel(i)
             \/ \E r \in Requests : Age(r)

LEMMA RunsAreRunnerSteps ==
    ASSUME ChatTypeOK, NEW r \in Requests, Runs(r)
    PROVE  RunnerStep(r)
<1> USE DEF ChatTypeOK, RunnerStep, OnlyOf, KeepsItsTurn, Running, Unwritten
<1>1. handler \in [Requests -> HandlerState] /\ handler[r] \in HandlerState
  OBVIOUS
<1>2. CASE FindsNothing(r)
  BY <1>1, <1>2 DEF FindsNothing, Becomes, HandlerState, Phase
<1>3. CASE Begin(r)
  BY <1>1, <1>3 DEF Begin, Becomes, HandlerState, Phase
<1>4. CASE LeavesEarly(r)
  BY <1>1, <1>4 DEF LeavesEarly, Becomes, HandlerState, Phase
<1>5. CASE Announce(r)
  BY <1>1, <1>5 DEF Announce, Becomes, HandlerState, Phase
<1>6. ASSUME NEW chunk \in {"words", "error", "other"}, Relay(r, chunk)
      PROVE  RunnerStep(r)
  <2> DEFINE words == IF chunk = "words" THEN handler[r].said + 1 ELSE handler[r].said
             status == IF cancelled[r] # "no" THEN "cancelled"
                       ELSE IF chunk = "error" THEN "error" ELSE handler[r].status
             phase == IF cancelled[r] # "no" THEN "closing" ELSE handler[r].phase
  <2>1. words \in 0..MaxWords
    BY <1>1, <1>6, ChatAssumption DEF Relay, HandlerState
  <2>2. status \in Final /\ phase \in Phase /\ phase \in {"relaying", "closing"}
    BY <1>1, <1>6 DEF Relay, HandlerState, Final, Phase
  <2>3. handler' = [handler EXCEPT ![r].said = words, ![r].status = status,
                                   ![r].phase = phase]
    BY <1>6 DEF Relay
  <2> HIDE DEF words, status, phase
  <2>4. /\ handler' \in [Requests -> HandlerState]
        /\ \A q \in Requests \ {r} : handler'[q] = handler[q]
        /\ handler'[r] = [handler[r] EXCEPT !.said = words, !.status = status,
                                           !.phase = phase]
    BY <1>1, <2>1, <2>2, <2>3 DEF HandlerState
  <2>5. KeepsItsTurn(r) /\ handler'[r].phase = phase
    BY <1>1, <2>4 DEF HandlerState
  <2>6. UNCHANGED <<thread, lock, message>> /\ handler[r].phase = "relaying"
    BY <1>6 DEF Relay
  <2>7. QED
    BY <2>2, <2>4, <2>5, <2>6
<1>7. CASE StreamEnds(r)
  BY <1>1, <1>7 DEF StreamEnds, Becomes, HandlerState, Phase
<1>8. CASE GatewayFails(r)
  BY <1>1, <1>8 DEF GatewayFails, HandlerState, Phase, Final
<1>9. CASE ClientLeaves(r)
  BY <1>1, <1>9 DEF ClientLeaves, HandlerState, Phase, Final
<1>10. CASE WriteFails(r)
  BY <1>1, <1>10 DEF WriteFails, Becomes, HandlerState, Phase
<1>11. CASE Finish(r)
  BY <1>1, <1>11 DEF Finish, Becomes, HandlerState, Phase
<1>12. QED
  BY <1>2, <1>3, <1>4, <1>5, <1>6, <1>7, <1>8, <1>9, <1>10, <1>11 DEF Runs

LEMMA CrashesAreCrashSteps ==
    ASSUME ChatTypeOK, NEW i \in Instances, Crash(i)
    PROVE  \E lost \in SUBSET Requests : CrashStep(lost)
<1> DEFINE lost == {r \in Requests : /\ handler[r].instance = i
                                     /\ handler[r].phase \notin {"idle", "over"}}
<1>1. /\ handler' = [r \in Requests |->
             IF r \in lost THEN [handler[r] EXCEPT !.phase = "over"] ELSE handler[r]]
      /\ lock' = IF lock \in lost THEN NoRequest ELSE lock
      /\ UNCHANGED <<thread, message>>
  BY DEF Crash
<1>2. \A q \in lost : q \in Requests /\ handler[q].phase \notin {"idle", "over"}
  OBVIOUS
<1> HIDE DEF lost
<1>3. CrashStep(lost)
  BY <1>1, <1>2 DEF CrashStep, KeepsItsTurn, ChatTypeOK, HandlerState, Phase
<1>4. lost \in SUBSET Requests
  BY DEF lost
<1>5. QED
  BY <1>3, <1>4

\* Every step is of one of these kinds.
LEMMA StepKinds ==
    ASSUME ChatTypeOK, [Next]_chatVars
    PROVE  \/ \E r \in Requests :
                 \/ \E kind \in Kind, i \in Instances : Open(r, kind, i)
                 \/ \E m \in Messages, i \in Instances : Regenerate(r, i, m)
                 \/ Reserve(r) \/ Patch(r) \/ CommitTurn(r) \/ CommitPatch(r)
                 \/ Rollback(r) \/ Write(r) \/ Runs(r)
           \/ \E lost \in SUBSET Requests : CrashStep(lost)
           \/ Registers
           \/ UNCHANGED chatVars
<1>1. CASE \E i \in Instances : Crash(i)
  BY <1>1, CrashesAreCrashSteps
<1>2. CASE ~ \E i \in Instances : Crash(i)
  BY <1>2 DEF Next, Progress, Streaming, Runs, Registers
<1>3. QED
  BY <1>1, <1>2

-----------------------------------------------------------------------------
(***************************************************************************)
(* The row's lock.  Whoever is inside its transaction holds it, and what a *)
(* send or a regeneration has reserved is next in line for as long as it   *)
(* holds it (conversations.py:239-255).  The types are inductive only with *)
(* this: a send's own message is numbered one below what it reserved.      *)
(***************************************************************************)
RowHeld ==
    \A r \in Requests : lock = r <=> handler[r].phase \in InTransaction

Reserved ==
    \A r \in Requests :
        handler[r].phase = "retrieving" =>
            /\ ~thread.deleted
            /\ handler[r].kind \in {"send", "regenerate"}
            /\ handler[r].sequence =
                  thread.message_count + (IF handler[r].kind = "send" THEN 2 ELSE 1)

LockInv == ChatTypeOK /\ RowHeld /\ Reserved

\* The registry's types are kept by every step.
LEMMA RegistryType ==
    ASSUME ChatTypeOK, [Next]_chatVars
    PROVE  /\ active' \in SUBSET Requests
           /\ cancelled' \in [Requests -> {"no", "fresh", "stale"}]
<1> USE DEF ChatTypeOK
<1>1. ASSUME NEW r \in Requests, Begin(r) \/ Finish(r)
      PROVE  /\ active' \in SUBSET Requests
             /\ cancelled' \in [Requests -> {"no", "fresh", "stale"}]
  BY <1>1 DEF Begin, Finish
<1>2. ASSUME NEW i \in Instances, Cancel(i) \/ Crash(i)
      PROVE  /\ active' \in SUBSET Requests
             /\ cancelled' \in [Requests -> {"no", "fresh", "stale"}]
  BY <1>2 DEF Cancel, Crash
<1>3. ASSUME NEW r \in Requests, Age(r)
      PROVE  /\ active' \in SUBSET Requests
             /\ cancelled' \in [Requests -> {"no", "fresh", "stale"}]
  BY <1>3 DEF Age
<1> DEFINE Others(r) ==
      \/ \E kind \in Kind, i \in Instances : Open(r, kind, i)
      \/ \E m \in Messages, i \in Instances : Regenerate(r, i, m)
      \/ Reserve(r) \/ FindsNothing(r) \/ Patch(r) \/ CommitTurn(r)
      \/ CommitPatch(r) \/ Rollback(r) \/ Announce(r) \/ Write(r)
      \/ WriteFails(r) \/ Streaming(r) \/ LeavesEarly(r) \/ ClientLeaves(r)
<1>4. ASSUME NEW r \in Requests, Others(r)
      PROVE  UNCHANGED <<active, cancelled>>
  BY <1>4 DEF Open, Regenerate, Load, Reserve, FindsNothing, Patch, CommitTurn,
     CommitPatch, Rollback, Announce, Write, WriteFails, Streaming, Relay,
     StreamEnds, GatewayFails, LeavesEarly, ClientLeaves
<1>5. CASE UNCHANGED chatVars
  BY <1>5 DEF chatVars
<1>6. \/ \E r \in Requests : Begin(r) \/ Finish(r) \/ Age(r) \/ Others(r)
      \/ \E i \in Instances : Cancel(i) \/ Crash(i)
      \/ UNCHANGED chatVars
  BY DEF Next, Progress
<1> HIDE DEF Others
<1>7. QED
  BY <1>1, <1>2, <1>3, <1>4, <1>5, <1>6

\* What a loading handler becomes: waiting, with nothing of the others touched.
LEMMA LoadStep ==
    ASSUME ChatTypeOK, NEW r \in Requests, NEW kind \in Kind, NEW i \in Instances,
           NEW target \in Messages \cup {NoMessage}, NEW prompt \in SUBSET Messages,
           Load(r, kind, i, target, prompt)
    PROVE  /\ OnlyOf(r)
           /\ UNCHANGED <<thread, lock, message>>
           /\ handler[r].phase = "idle" /\ handler'[r].phase = "waiting"
           /\ handler'[r].kind = kind /\ handler'[r].target = target
           /\ handler'[r].prompt = prompt /\ handler'[r].said = handler[r].said
<1>1. handler'[r] = [handler[r] EXCEPT !.kind = kind, !.instance = i,
                       !.phase = "waiting", !.read = thread, !.target = target,
                       !.prompt = prompt]
  BY DEF Load, ChatTypeOK
<1>2. \A q \in Requests \ {r} : handler'[q] = handler[q]
  BY DEF Load, ChatTypeOK
<1>3. handler[r] \in HandlerState /\ thread \in Thread
  BY DEF ChatTypeOK
<1>4. handler'[r] \in HandlerState
  BY <1>1, <1>3 DEF HandlerState, Phase
<1>5. handler' \in [Requests -> HandlerState]
  BY <1>2, <1>4 DEF Load, ChatTypeOK
<1>6. QED
  BY <1>1, <1>2, <1>3, <1>5 DEF Load, OnlyOf, HandlerState

\* The prompt of a regeneration is made of messages, and what it replaces is one.
LEMMA RegenerateLoads ==
    ASSUME ChatTypeOK, NEW r \in Requests, NEW i \in Instances, NEW m \in Messages,
           Regenerate(r, i, m)
    PROVE  /\ Load(r, "regenerate", i, m, Replayable(Before(m)))
           /\ Replayable(Before(m)) \in SUBSET Messages
           /\ "regenerate" \in Kind
BY DEF Regenerate, Replayable, Before, Present, Kind

\* What Reserve, Patch, CommitTurn, CommitPatch, Rollback and Write do to the
\* handler of their request.
LEMMA ReserveStep ==
    ASSUME ChatTypeOK, NEW r \in Requests, Reserve(r)
    PROVE  /\ OnlyOf(r)
           /\ handler'[r].phase = "retrieving"
           /\ handler'[r].kind = handler[r].kind /\ handler'[r].target = handler[r].target
           /\ handler'[r].said = handler[r].said
           /\ handler'[r].sequence =
                 thread.message_count + (IF handler[r].kind = "send" THEN 2 ELSE 1)
           /\ handler'[r].prompt = IF handler[r].kind = "send"
                                   THEN Replayable(Present) \cup {User(r)}
                                   ELSE handler[r].prompt
<1> DEFINE sequence == NextSequence(r) + IF handler[r].kind = "send" THEN 1 ELSE 0
           prompt == IF handler[r].kind = "send"
                     THEN Replayable(Present) \cup {User(r)} ELSE handler[r].prompt
<1>1. handler[r] \in HandlerState /\ thread \in Thread
      /\ handler \in [Requests -> HandlerState]
  BY DEF ChatTypeOK
<1>2. /\ sequence \in Nat
      /\ sequence = thread.message_count + (IF handler[r].kind = "send" THEN 2 ELSE 1)
  BY <1>1 DEF NextSequence, Thread
<1>3. prompt \in SUBSET Messages
  BY <1>1 DEF HandlerState, Replayable, Present, Messages, User
<1>4. handler' = [handler EXCEPT ![r].phase = "retrieving",
                                 ![r].sequence = sequence, ![r].prompt = prompt]
  BY DEF Reserve
<1> HIDE DEF sequence, prompt
<1>5. /\ \A q \in Requests \ {r} : handler'[q] = handler[q]
      /\ handler'[r] = [handler[r] EXCEPT !.phase = "retrieving",
                                         !.sequence = sequence, !.prompt = prompt]
      /\ handler' \in [Requests -> HandlerState]
  BY <1>1, <1>2, <1>3, <1>4 DEF HandlerState, Phase, InTransaction
<1>6. /\ handler'[r].phase = "retrieving" /\ handler'[r].kind = handler[r].kind
      /\ handler'[r].target = handler[r].target /\ handler'[r].said = handler[r].said
      /\ handler'[r].sequence = sequence /\ handler'[r].prompt = prompt
  BY <1>1, <1>5 DEF HandlerState
<1>7. QED
  BY <1>2, <1>5, <1>6 DEF OnlyOf, prompt

LEMMA TransactionStep ==
    ASSUME ChatTypeOK, NEW r \in Requests,
           Patch(r) \/ CommitTurn(r) \/ CommitPatch(r) \/ Rollback(r) \/ Write(r)
    PROVE  /\ OnlyOf(r) /\ KeepsItsTurn(r)
           /\ handler'[r].said = handler[r].said
           /\ handler'[r].status = handler[r].status
           /\ Patch(r) => handler'[r].phase = "patching"
           /\ CommitTurn(r) => handler'[r].phase = "committed"
           /\ CommitPatch(r) \/ Rollback(r) => handler'[r].phase = "over"
           /\ Write(r) => handler'[r].phase = IF handler[r].phase = "closing"
                                             THEN "written" ELSE "over"
<1> USE DEF ChatTypeOK, OnlyOf, KeepsItsTurn
<1>1. handler \in [Requests -> HandlerState] /\ handler[r] \in HandlerState
  OBVIOUS
<1>2. ASSUME NEW phase \in Phase, handler' = [handler EXCEPT ![r].phase = phase]
      PROVE  /\ OnlyOf(r) /\ KeepsItsTurn(r)
             /\ handler'[r].said = handler[r].said
             /\ handler'[r].status = handler[r].status
             /\ handler'[r].phase = phase
  BY <1>1, <1>2 DEF HandlerState
<1>3. CASE Patch(r)
  <2>1. handler[r].phase = "waiting" /\ handler' = [handler EXCEPT ![r].phase = "patching"]
    BY <1>3 DEF Patch, Becomes
  <2>2. /\ ~CommitTurn(r) /\ ~CommitPatch(r) /\ ~Rollback(r) /\ ~Write(r)
    BY <2>1 DEF CommitTurn, CommitPatch, Rollback, Write, InTransaction
  <2>3. QED
    BY <1>2, <2>1, <2>2 DEF Phase, InTransaction
<1>4. CASE CommitTurn(r)
  <2>1. handler[r].phase = "retrieving" /\ handler' = [handler EXCEPT ![r].phase = "committed"]
    BY <1>4 DEF CommitTurn, Becomes
  <2>2. handler'[r].phase = "committed"
    BY <1>1, <2>1 DEF HandlerState
  <2>3. /\ ~Patch(r) /\ ~CommitPatch(r) /\ ~Write(r)
    BY <2>1 DEF Patch, CommitPatch, Write
  <2>4. ~Rollback(r)
    BY <1>1, <2>2 DEF Rollback, Becomes, HandlerState
  <2>5. QED
    BY <1>2, <2>1, <2>3, <2>4 DEF Phase
<1>5. CASE CommitPatch(r) \/ Rollback(r)
  <2>1. /\ handler[r].phase \in InTransaction
        /\ handler' = [handler EXCEPT ![r].phase = "over"]
    BY <1>5 DEF CommitPatch, Rollback, Becomes, InTransaction
  <2>2. handler'[r].phase = "over"
    BY <1>1, <2>1 DEF HandlerState
  <2>3. /\ ~Patch(r) /\ ~Write(r)
    BY <2>1 DEF Patch, Write, InTransaction
  <2>4. ~CommitTurn(r)
    BY <1>1, <2>2 DEF CommitTurn, Becomes, HandlerState
  <2>5. QED
    BY <1>2, <2>1, <2>3, <2>4 DEF Phase
<1>6. CASE Write(r)
  <2>1. /\ handler[r].phase \in {"closing", "detached"}
        /\ handler' = [handler EXCEPT
              ![r].phase = IF handler[r].phase = "closing" THEN "written" ELSE "over"]
    BY <1>6 DEF Write, Becomes
  <2>2. /\ ~Patch(r) /\ ~CommitTurn(r) /\ ~CommitPatch(r) /\ ~Rollback(r)
    BY <2>1 DEF Patch, CommitTurn, CommitPatch, Rollback, InTransaction
  <2>3. QED
    BY <1>2, <2>1, <2>2 DEF Phase, Running
<1>7. QED
  BY <1>3, <1>4, <1>5, <1>6

\* What a turn stores: its own rows, numbered as it reserved them.
LEMMA CommitTurnStep ==
    ASSUME LockInv, NEW r \in Requests, CommitTurn(r)
    PROVE  /\ thread' \in Thread /\ message' \in [Messages -> Row]
           /\ thread'.message_count = handler[r].sequence
           /\ thread'.deleted = thread.deleted
           /\ \A m \in Messages \ {User(r), Assistant(r)} : message'[m] = message[m]
           /\ message'[Assistant(r)].sequence = handler[r].sequence
           /\ message'[Assistant(r)].status = "streaming"
           /\ message'[Assistant(r)].text = 0
           /\ message'[Assistant(r)].parent = handler[r].target
           /\ handler[r].kind = "send" =>
                 /\ message'[User(r)].sequence = handler[r].sequence - 1
                 /\ message'[User(r)].status = "complete"
                 /\ message'[User(r)].text = 1
                 /\ message'[User(r)].parent = NoMessage
           /\ handler[r].kind # "send" => message'[User(r)] = message[User(r)]
<1> USE DEF LockInv, ChatTypeOK
<1>1. /\ handler[r] \in HandlerState /\ thread \in Thread
      /\ handler[r].phase = "retrieving"
      /\ handler[r].sequence \in Nat \ {0} /\ thread.message_count \in Nat
      /\ handler[r].target \in Messages \cup {NoMessage}
      /\ handler[r].kind = "send" => handler[r].sequence - 1 \in Nat
  BY DEF CommitTurn, Reserved, HandlerState, Thread
<1>2. /\ thread' \in Thread
      /\ thread'.message_count = handler[r].sequence
      /\ thread'.deleted = thread.deleted
  <2>1. TitleAfter(r) \in Requests \cup {"none", "chosen"}
    BY <1>1 DEF TitleAfter, Thread
  <2>2. QED
    BY <1>1, <2>1 DEF CommitTurn, Thread
<1>3. User(r) \in Messages /\ Assistant(r) \in Messages /\ User(r) # Assistant(r)
  BY DEF User, Assistant, Messages
<1>4. /\ \A m \in Messages \ {User(r), Assistant(r)} : message'[m] = message[m]
      /\ message'[Assistant(r)] = Inserted(r, "streaming", handler[r].sequence)
      /\ message'[User(r)] = IF handler[r].kind = "send"
                             THEN Inserted(r, "complete", handler[r].sequence - 1)
                             ELSE message[User(r)]
      /\ DOMAIN message' = Messages /\ message' = [m \in Messages |-> message'[m]]
  BY <1>3 DEF CommitTurn
<1>5. /\ Inserted(r, "streaming", handler[r].sequence) =
            [sequence |-> handler[r].sequence, status |-> "streaming", text |-> 0,
             parent |-> handler[r].target]
      /\ Inserted(r, "complete", handler[r].sequence - 1) =
            [sequence |-> handler[r].sequence - 1, status |-> "complete",
             text |-> 1, parent |-> NoMessage]
  BY DEF Inserted
<1>6. Inserted(r, "streaming", handler[r].sequence) \in Row
  BY <1>1, <1>5, ChatAssumption DEF Row, Final
<1>7. handler[r].kind = "send" => Inserted(r, "complete", handler[r].sequence - 1) \in Row
  BY <1>1, <1>5, ChatAssumption DEF Row, Final
<1>8. message' \in [Messages -> Row]
  BY <1>3, <1>4, <1>6, <1>7
<1>9. /\ message'[Assistant(r)].sequence = handler[r].sequence
      /\ message'[Assistant(r)].status = "streaming"
      /\ message'[Assistant(r)].text = 0
      /\ message'[Assistant(r)].parent = handler[r].target
  BY <1>4, <1>5
<1>10. CASE handler[r].kind = "send"
  <2>1. /\ message'[User(r)].sequence = handler[r].sequence - 1
        /\ message'[User(r)].status = "complete"
        /\ message'[User(r)].text = 1
        /\ message'[User(r)].parent = NoMessage
    BY <1>4, <1>5, <1>10
  <2>2. QED
    BY <1>2, <1>4, <1>8, <1>9, <1>10, <2>1
<1>11. CASE handler[r].kind # "send"
  BY <1>2, <1>4, <1>8, <1>9, <1>11
<1>12. QED
  BY <1>10, <1>11

\* What ends an answer: its own row, which keeps its place.
LEMMA WriteStep ==
    ASSUME ChatTypeOK, NEW r \in Requests, Write(r)
    PROVE  /\ message' \in [Messages -> Row] /\ UNCHANGED <<thread, lock>>
           /\ \A m \in Messages \ {Assistant(r)} : message'[m] = message[m]
           /\ message[Assistant(r)].status # "streaming" => message' = message
           /\ message[Assistant(r)].status = "streaming" =>
                 /\ message'[Assistant(r)].sequence = message[Assistant(r)].sequence
                 /\ message'[Assistant(r)].parent = message[Assistant(r)].parent
                 /\ message'[Assistant(r)].status = handler[r].status
                 /\ message'[Assistant(r)].text = handler[r].said
<1> USE DEF ChatTypeOK
<1>1. /\ Assistant(r) \in Messages /\ message[Assistant(r)] \in Row
      /\ message \in [Messages -> Row]
      /\ handler[r].status \in Final /\ handler[r].said \in 0..MaxWords
  BY DEF Assistant, Messages, HandlerState
<1>2. CASE message[Assistant(r)].status = "streaming"
  <2>1. message' = [message EXCEPT ![Assistant(r)].status = handler[r].status,
                                   ![Assistant(r)].text = handler[r].said]
    BY <1>2 DEF Write
  <2>2. /\ \A m \in Messages \ {Assistant(r)} : message'[m] = message[m]
        /\ message'[Assistant(r)] = [message[Assistant(r)] EXCEPT
              !.status = handler[r].status, !.text = handler[r].said]
        /\ DOMAIN message' = Messages
    BY <1>1, <2>1
  <2>3. message'[Assistant(r)] \in Row
    BY <1>1, <2>2 DEF Row
  <2>4. message' \in [Messages -> Row]
    BY <1>1, <2>1, <2>2, <2>3
  <2>5. QED
    BY <1>1, <1>2, <2>2, <2>4 DEF Write, Row
<1>3. CASE message[Assistant(r)].status # "streaming"
  BY <1>1, <1>3 DEF Write
<1>4. QED
  BY <1>2, <1>3

LEMMA LockStep ==
    ASSUME LockInv, [Next]_chatVars
    PROVE  LockInv'
<1> USE DEF LockInv
<1>1. /\ handler \in [Requests -> HandlerState] /\ NoRequest \notin Requests
      /\ message \in [Messages -> Row] /\ thread \in Thread
      /\ lock \in Requests \cup {NoRequest}
  BY ChatAssumption DEF ChatTypeOK
<1>2. /\ active' \in SUBSET Requests
      /\ cancelled' \in [Requests -> {"no", "fresh", "stale"}]
  BY RegistryType
<1>3. ASSUME NEW r \in Requests, OnlyOf(r), UNCHANGED <<thread, lock, message>>,
             handler[r].phase \notin InTransaction, handler'[r].phase \notin InTransaction
      PROVE  LockInv'
  BY <1>1, <1>2, <1>3 DEF ChatTypeOK, OnlyOf, RowHeld, Reserved, InTransaction
<1>4. ASSUME NEW r \in Requests, NEW kind \in Kind, NEW i \in Instances,
             NEW target \in Messages \cup {NoMessage}, NEW prompt \in SUBSET Messages,
             Load(r, kind, i, target, prompt)
      PROVE  LockInv'
  BY <1>3, <1>4, LoadStep DEF InTransaction
<1>5. ASSUME NEW r \in Requests, Reserve(r)
      PROVE  LockInv'
  <2>1. /\ OnlyOf(r) /\ handler'[r].phase = "retrieving"
        /\ handler'[r].kind = handler[r].kind
        /\ handler'[r].sequence =
              thread.message_count + (IF handler[r].kind = "send" THEN 2 ELSE 1)
    BY <1>5, ReserveStep
  <2>2. /\ UNCHANGED <<thread, message>> /\ lock = NoRequest /\ lock' = r
        /\ ~thread.deleted /\ handler[r].kind \in {"send", "regenerate"}
    BY <1>5 DEF Reserve
  <2>3. ChatTypeOK'
    BY <1>1, <1>2, <2>1, <2>2 DEF ChatTypeOK, OnlyOf
  <2>4. RowHeld'
    BY <1>1, <2>1, <2>2 DEF RowHeld, OnlyOf, InTransaction
  <2>5. Reserved'
    BY <1>1, <2>1, <2>2 DEF Reserved, OnlyOf
  <2>6. QED
    BY <2>3, <2>4, <2>5
<1>6. ASSUME NEW r \in Requests, Patch(r)
      PROVE  LockInv'
  <2>1. OnlyOf(r) /\ handler'[r].phase = "patching"
    BY <1>6, TransactionStep
  <2>2. UNCHANGED <<thread, message>> /\ lock = NoRequest /\ lock' = r
    BY <1>6 DEF Patch
  <2>3. QED
    BY <1>1, <1>2, <2>1, <2>2 DEF ChatTypeOK, OnlyOf, RowHeld, Reserved, InTransaction
<1>7. ASSUME NEW r \in Requests, OnlyOf(r), lock' = NoRequest,
             thread' \in Thread, message' \in [Messages -> Row],
             handler[r].phase \in InTransaction, handler'[r].phase \notin InTransaction
      PROVE  LockInv'
  <2>1. \A q \in Requests \ {r} : handler[q].phase \notin InTransaction
    BY <1>1, <1>7 DEF RowHeld
  <2>2. QED
    BY <1>1, <1>2, <1>7, <2>1 DEF ChatTypeOK, OnlyOf, RowHeld, Reserved, InTransaction
<1>8. ASSUME NEW r \in Requests, CommitTurn(r)
      PROVE  LockInv'
  <2>1. thread' \in Thread /\ message' \in [Messages -> Row]
    BY <1>8, CommitTurnStep
  <2>2. /\ OnlyOf(r) /\ handler[r].phase = "retrieving" /\ handler'[r].phase = "committed"
        /\ lock' = NoRequest
    BY <1>8, TransactionStep DEF CommitTurn
  <2>3. QED
    BY <1>7, <2>1, <2>2 DEF InTransaction
<1>9. ASSUME NEW r \in Requests, CommitPatch(r)
      PROVE  LockInv'
  <2>1. thread' \in Thread
    BY <1>1, <1>9 DEF CommitPatch, Thread, ExecutionMode
  <2>2. /\ OnlyOf(r) /\ handler[r].phase = "patching" /\ handler'[r].phase = "over"
        /\ lock' = NoRequest /\ message' = message
    BY <1>9, TransactionStep DEF CommitPatch
  <2>3. QED
    BY <1>1, <1>7, <2>1, <2>2 DEF InTransaction
<1>10. ASSUME NEW r \in Requests, Rollback(r)
       PROVE  LockInv'
  <2>1. /\ OnlyOf(r) /\ handler[r].phase \in InTransaction /\ handler'[r].phase = "over"
        /\ lock' = NoRequest /\ message' = message /\ thread' = thread
    BY <1>10, TransactionStep DEF Rollback
  <2>2. QED
    BY <1>1, <1>7, <2>1 DEF InTransaction
<1>11. ASSUME NEW r \in Requests, Write(r)
       PROVE  LockInv'
  <2>1. /\ OnlyOf(r) /\ handler[r].phase \in {"closing", "detached"}
        /\ handler'[r].phase \in {"written", "over"}
    BY <1>11, TransactionStep DEF Write
  <2>2. UNCHANGED <<thread, lock>> /\ message' \in [Messages -> Row]
    BY <1>11, WriteStep
  <2>3. QED
    BY <1>1, <1>2, <2>1, <2>2 DEF ChatTypeOK, OnlyOf, RowHeld, Reserved, InTransaction
<1>12. ASSUME NEW r \in Requests, Runs(r)
       PROVE  LockInv'
  BY <1>3, <1>12, RunsAreRunnerSteps DEF RunnerStep, InTransaction, Running
<1>13. ASSUME NEW lost \in SUBSET Requests, CrashStep(lost)
       PROVE  LockInv'
  <2>1. ChatTypeOK'
    BY <1>1, <1>2, <1>13 DEF ChatTypeOK, CrashStep
  <2>2. \A q \in Requests : \/ handler'[q] = handler[q]
                            \/ q \in lost /\ handler'[q].phase = "over"
    BY <1>13 DEF CrashStep
  <2>3. RowHeld'
    BY <1>1, <1>13, <2>2 DEF RowHeld, CrashStep, InTransaction
  <2>4. Reserved'
    BY <1>13, <2>2 DEF Reserved, CrashStep
  <2>5. QED
    BY <2>1, <2>3, <2>4
<1>14. CASE Registers \/ UNCHANGED chatVars
  <2>1. UNCHANGED <<thread, lock, message, handler>>
    BY <1>14 DEF Registers, Cancel, Age, chatVars
  <2>2. QED
    BY <1>1, <1>2, <2>1 DEF ChatTypeOK, RowHeld, Reserved
<1>15. ASSUME NEW r \in Requests, NEW kind \in Kind, NEW i \in Instances, Open(r, kind, i)
       PROVE  LockInv'
  BY <1>4, <1>15 DEF Open
<1>16. ASSUME NEW r \in Requests, NEW m \in Messages, NEW i \in Instances,
              Regenerate(r, i, m)
       PROVE  LockInv'
  BY <1>4, <1>16, RegenerateLoads
<1> HIDE DEF LockInv
<1>17. ChatTypeOK
  BY DEF LockInv
<1>18. QED
  BY <1>5, <1>6, <1>8, <1>9, <1>10, <1>11, <1>12, <1>13, <1>14, <1>15, <1>16, <1>17,
     StepKinds

\* At first nobody holds the lock.
LEMMA LockInit ==
    ASSUME Init
    PROVE  LockInv
<1> USE DEF Init
<1>1. thread \in Thread
  BY DEF Thread, ExecutionMode
<1>2. message \in [Messages -> Row]
  BY ChatAssumption DEF Row
<1>3. /\ handler \in [Requests -> HandlerState]
      /\ \A r \in Requests : handler[r].phase = "idle"
  BY <1>1, ChatAssumption DEF HandlerState, Kind, Phase, Final
<1>4. lock = NoRequest /\ active = {} /\ cancelled = [r \in Requests |-> "no"]
  OBVIOUS
<1> HIDE DEF Init
<1>5. QED
  BY <1>1, <1>2, <1>3, <1>4, ChatAssumption
     DEF LockInv, ChatTypeOK, RowHeld, Reserved, InTransaction

\* The row's lock is held by whoever is inside its transaction, and only by it.
THEOREM LockDiscipline == Spec => []LockInv
<1>1. Init => LockInv
  BY LockInit
<1>2. LockInv /\ [Next]_chatVars => LockInv'
  BY LockStep
<1>3. QED
  BY <1>1, <1>2, PTL DEF Spec

\* The conversation, its messages and its handlers are well typed in every
\* reachable state.
THEOREM ChatTypeCorrect == Spec => []ChatTypeOK
<1>1. LockInv => ChatTypeOK
  BY DEF LockInv
<1>2. QED
  BY <1>1, LockDiscipline, PTL

-----------------------------------------------------------------------------
(***************************************************************************)
(* The rows.  Before its commit a request has none; from then until its    *)
(* write its answer is open; and all of them are numbered without a gap.   *)
(***************************************************************************)
NothingStored ==
    \A r \in Requests :
        handler[r].phase \in Unstored =>
            message[User(r)].status = "absent" /\ message[Assistant(r)].status = "absent"

StillOpen ==
    \A r \in Requests :
        handler[r].phase \in Unwritten => message[Assistant(r)].status = "streaming"

RowInv == NothingStored /\ StillOpen /\ Numbered /\ KeepsEveryWord

\* A step that stores nothing and moves its handlers within the same stretch.
SteadyFor(q) ==
    /\ handler'[q].phase \in Unstored => handler[q].phase \in Unstored
    /\ handler'[q].phase \in Unwritten => handler[q].phase \in Unwritten
    /\ handler'[q].said # handler[q].said => handler[q].phase = "relaying"

Steady ==
    /\ message' = message
    /\ thread'.message_count = thread.message_count
    /\ \A q \in Requests : SteadyFor(q)

LEMMA SteadyRows ==
    ASSUME RowInv, Steady
    PROVE  RowInv'
<1> USE DEF RowInv, Steady, SteadyFor
<1>1. NothingStored' /\ StillOpen'
  BY DEF NothingStored, StillOpen
<1>2. Numbered'
  BY DEF Numbered, Present
<1>3. KeepsEveryWord'
  BY DEF KeepsEveryWord, StillOpen, Unwritten, Final
<1>4. QED
  BY <1>1, <1>2, <1>3

\* All but the commit of a turn and the writing of an answer are steady.
LEMMA SteadySteps ==
    ASSUME LockInv, [Next]_chatVars
    PROVE  Steady \/ \E r \in Requests : CommitTurn(r) \/ Write(r)
<1> USE DEF LockInv
<1>1. ASSUME NEW r \in Requests, OnlyOf(r), SteadyFor(r), message' = message,
             thread'.message_count = thread.message_count
      PROVE  Steady
  BY <1>1 DEF Steady, SteadyFor, OnlyOf
<1>2. ASSUME NEW r \in Requests, NEW kind \in Kind, NEW i \in Instances,
             NEW target \in Messages \cup {NoMessage}, NEW prompt \in SUBSET Messages,
             Load(r, kind, i, target, prompt)
      PROVE  Steady
  BY <1>1, <1>2, LoadStep DEF SteadyFor, Unstored, Unwritten, InTransaction
<1>3. ASSUME NEW r \in Requests, Reserve(r) \/ Patch(r) \/ CommitPatch(r) \/ Rollback(r)
      PROVE  Steady
  <2>1. /\ OnlyOf(r) /\ handler'[r].said = handler[r].said
        /\ handler[r].phase \in Unstored
        /\ handler'[r].phase \in InTransaction \cup {"over"}
    BY <1>3, ReserveStep, TransactionStep
       DEF Reserve, Patch, CommitPatch, Rollback, Unstored, InTransaction
  <2>2. message' = message /\ thread'.message_count = thread.message_count
    BY <1>3 DEF Reserve, Patch, CommitPatch, Rollback, ChatTypeOK, Thread
  <2>3. QED
    BY <1>1, <2>1, <2>2 DEF SteadyFor, Unwritten, InTransaction
<1>4. ASSUME NEW r \in Requests, Runs(r)
      PROVE  Steady
  BY <1>1, <1>4, RunsAreRunnerSteps
     DEF RunnerStep, SteadyFor, Unstored, InTransaction, Running
<1>5. ASSUME NEW lost \in SUBSET Requests, CrashStep(lost)
      PROVE  Steady
  BY <1>5 DEF CrashStep, Steady, SteadyFor, Unstored, Unwritten, InTransaction
<1>6. CASE Registers \/ UNCHANGED chatVars
  BY <1>6 DEF Registers, Cancel, Age, chatVars, Steady, SteadyFor
<1>7. ASSUME NEW r \in Requests, NEW kind \in Kind, NEW i \in Instances, Open(r, kind, i)
      PROVE  Steady
  BY <1>2, <1>7 DEF Open
<1>8. ASSUME NEW r \in Requests, NEW m \in Messages, NEW i \in Instances,
             Regenerate(r, i, m)
      PROVE  Steady
  BY <1>2, <1>8, RegenerateLoads
<1> HIDE DEF Steady
<1>9. QED
  BY <1>3, <1>4, <1>5, <1>6, <1>7, <1>8, StepKinds

\* The rows a turn adds are the next ones.
LEMMA CommitNumbers ==
    ASSUME LockInv, RowInv, NEW r \in Requests, CommitTurn(r)
    PROVE  /\ Numbered'
           /\ Present' = Present \cup {Assistant(r)}
                 \cup (IF handler[r].kind = "send" THEN {User(r)} ELSE {})
           /\ User(r) \notin Present /\ Assistant(r) \notin Present
           /\ handler[r].sequence =
                 thread.message_count + (IF handler[r].kind = "send" THEN 2 ELSE 1)
           /\ thread.message_count \in Nat
<1> DEFINE n == thread.message_count
           old == Present
<1>1. /\ n \in Nat /\ n' = handler[r].sequence
      /\ handler[r].sequence = n + (IF handler[r].kind = "send" THEN 2 ELSE 1)
      /\ handler[r].phase = "retrieving"
  BY CommitTurnStep DEF CommitTurn, LockInv, Reserved, ChatTypeOK, Thread
<1>2. /\ User(r) \in Messages /\ Assistant(r) \in Messages /\ User(r) # Assistant(r)
      /\ User(r) \notin old /\ Assistant(r) \notin old
  BY <1>1 DEF User, Assistant, Messages, Present, RowInv, NothingStored, Unstored, InTransaction
<1>3. /\ \A m \in Messages \ {User(r), Assistant(r)} : message'[m] = message[m]
      /\ message'[Assistant(r)].sequence = handler[r].sequence
      /\ message'[Assistant(r)].status = "streaming"
      /\ handler[r].kind = "send" =>
            /\ message'[User(r)].sequence = handler[r].sequence - 1
            /\ message'[User(r)].status = "complete"
      /\ handler[r].kind # "send" => message'[User(r)] = message[User(r)]
  BY CommitTurnStep
<1>4. Present' = old \cup {Assistant(r)}
                     \cup (IF handler[r].kind = "send" THEN {User(r)} ELSE {})
  BY <1>2, <1>3 DEF Present
<1>5. /\ \A m \in old : message'[m].sequence = message[m].sequence /\ message[m].sequence \in 1..n
      /\ \A m, k \in old : message[m].sequence = message[k].sequence => m = k
      /\ \A j \in 1..n : \E m \in old : message[m].sequence = j
  BY <1>2, <1>3 DEF RowInv, Numbered, Present
<1> HIDE DEF n, old
<1>6. \A m, k \in Present' : message'[m].sequence = message'[k].sequence => m = k
  BY <1>1, <1>2, <1>3, <1>4, <1>5
<1>7. ASSUME NEW j \in 1..n'
      PROVE  \E m \in Present' : message'[m].sequence = j
  <2>1. CASE j = n'
    BY <1>1, <1>3, <1>4, <2>1
  <2>2. CASE handler[r].kind = "send" /\ j = n' - 1
    BY <1>1, <1>3, <1>4, <2>2
  <2>3. CASE j \in 1..n
    BY <1>4, <1>5, <2>3
  <2>4. QED
    BY <1>1, <1>7, <2>1, <2>2, <2>3
<1>8. \A m \in Present' : message'[m].sequence \in 1..n'
  BY <1>1, <1>3, <1>4, <1>5
<1>9. {message'[m].sequence : m \in Present'} = 1..n'
  BY <1>7, <1>8
<1>10. QED
  BY <1>1, <1>2, <1>4, <1>6, <1>9 DEF Numbered, n, old

LEMMA RowStep ==
    ASSUME LockInv, RowInv, [Next]_chatVars
    PROVE  RowInv'
<1>1. ASSUME NEW r \in Requests, CommitTurn(r)
      PROVE  RowInv'
  <2>1. Numbered'
    BY <1>1, CommitNumbers
  <2>2. /\ OnlyOf(r) /\ handler'[r].phase = "committed" /\ handler[r].phase = "retrieving"
    BY <1>1, TransactionStep DEF CommitTurn, LockInv
  <2>3. /\ \A m \in Messages \ {User(r), Assistant(r)} : message'[m] = message[m]
        /\ message'[Assistant(r)].status = "streaming"
    BY <1>1, CommitTurnStep
  <2>4. \A q \in Requests \ {r} :
           /\ handler'[q] = handler[q]
           /\ message'[User(q)] = message[User(q)]
           /\ message'[Assistant(q)] = message[Assistant(q)]
    BY <2>2, <2>3 DEF OnlyOf, User, Assistant, Messages
  <2>5. NothingStored' /\ StillOpen'
    BY <2>2, <2>3, <2>4 DEF RowInv, NothingStored, StillOpen, Unstored, Unwritten, InTransaction
  <2>6. KeepsEveryWord'
    BY <2>3, <2>4 DEF RowInv, KeepsEveryWord, Final
  <2>7. QED
    BY <2>1, <2>5, <2>6 DEF RowInv
<1>2. ASSUME NEW r \in Requests, Write(r)
      PROVE  RowInv'
  <2>1. /\ OnlyOf(r) /\ handler[r].phase \in {"closing", "detached"}
        /\ handler'[r].phase \in {"written", "over"}
        /\ handler'[r].said = handler[r].said
    BY <1>2, TransactionStep DEF Write, LockInv
  <2>2. message[Assistant(r)].status = "streaming"
    BY <2>1 DEF RowInv, StillOpen, Unwritten
  <2>3. /\ \A m \in Messages \ {Assistant(r)} : message'[m] = message[m]
        /\ message'[Assistant(r)].sequence = message[Assistant(r)].sequence
        /\ message'[Assistant(r)].status = handler[r].status
        /\ message'[Assistant(r)].text = handler[r].said
        /\ thread' = thread
    BY <1>2, <2>2, WriteStep DEF LockInv
  <2>4. handler[r].status \in Final
    BY DEF LockInv, ChatTypeOK, HandlerState
  <2>5. \A q \in Requests \ {r} :
           /\ handler'[q] = handler[q]
           /\ message'[User(q)] = message[User(q)]
           /\ message'[Assistant(q)] = message[Assistant(q)]
    BY <2>1, <2>3 DEF OnlyOf, User, Assistant, Messages
  <2>6. /\ Present' = Present
        /\ \A m \in Messages : message'[m].sequence = message[m].sequence
    BY <2>2, <2>3, <2>4 DEF Present, Final, Messages, Assistant
  <2>7. Numbered'
    BY <2>3, <2>6 DEF RowInv, Numbered, Present
  <2>8. NothingStored' /\ StillOpen'
    BY <2>1, <2>3, <2>5
       DEF RowInv, NothingStored, StillOpen, Unstored, Unwritten, InTransaction
  <2>9. KeepsEveryWord'
    BY <2>1, <2>3, <2>5 DEF RowInv, KeepsEveryWord
  <2>10. QED
    BY <2>7, <2>8, <2>9 DEF RowInv
<1>3. QED
  BY <1>1, <1>2, SteadyRows, SteadySteps

\* At first there are no messages and no turns.
LEMMA RowInit ==
    ASSUME Init
    PROVE  RowInv
<1>1. /\ \A m \in Messages : message[m].status = "absent"
      /\ thread.message_count = 0
      /\ \A r \in Requests : handler[r].phase = "idle"
  BY DEF Init
<1>2. \A r \in Requests : User(r) \in Messages /\ Assistant(r) \in Messages
  BY DEF User, Assistant, Messages
<1>3. Present = {} /\ 1..thread.message_count = {}
  BY <1>1 DEF Present
<1>4. Numbered
  BY <1>3 DEF Numbered
<1>5. NothingStored /\ StillOpen /\ KeepsEveryWord
  BY <1>1, <1>2 DEF NothingStored, StillOpen, KeepsEveryWord, Unwritten, Final
<1>6. QED
  BY <1>4, <1>5 DEF RowInv

LEMMA Rows == Spec => []RowInv
<1>1. Init => RowInv
  BY RowInit
<1>2. LockInv /\ RowInv /\ [Next]_chatVars => RowInv'
  BY RowStep
<1>3. QED
  BY <1>1, <1>2, LockDiscipline, PTL DEF Spec

\* Whoever sends at the same time, rolls back or dies, the messages are numbered
\* 1, 2, 3, ... without a gap or a repetition.
THEOREM MessagesAreNumbered == Spec => []Numbered
<1>1. RowInv => Numbered
  BY DEF RowInv
<1>2. QED
  BY <1>1, Rows, PTL

\* An answer that has ended holds all the text that was relayed to its client.
THEOREM NoWordIsLost == Spec => []KeepsEveryWord
<1>1. RowInv => KeepsEveryWord
  BY DEF RowInv
<1>2. QED
  BY <1>1, Rows, PTL

-----------------------------------------------------------------------------
(***************************************************************************)
(* The registry.  A turn is registered from the moment its stream is first *)
(* asked for until it is written, and only a registered turn is cancelled. *)
(***************************************************************************)
Registered == {"announced", "relaying", "closing", "written"}

RegistryInv ==
    \A r \in Requests :
        /\ handler[r].phase \in Registered => r \in active
        /\ cancelled[r] # "no" => r \in active

LEMMA RegistryStep ==
    ASSUME ChatTypeOK, RegistryInv, [Next]_chatVars
    PROVE  RegistryInv'
<1> USE DEF ChatTypeOK, RegistryInv
<1>1. handler \in [Requests -> HandlerState] /\ cancelled \in [Requests -> {"no", "fresh", "stale"}]
  OBVIOUS
<1>2. ASSUME NEW r \in Requests, OnlyOf(r), UNCHANGED <<active, cancelled>>,
             handler'[r].phase \in Registered => handler[r].phase \in Registered
      PROVE  RegistryInv'
  BY <1>2 DEF OnlyOf
<1>3. ASSUME NEW r \in Requests, Begin(r)
      PROVE  RegistryInv'
  <2>1. \A q \in Requests \ {r} : handler'[q] = handler[q]
    BY <1>1, <1>3 DEF Begin, Becomes
  <2>2. r \in active' /\ active \subseteq active'
    BY <1>3 DEF Begin
  <2>3. \A q \in Requests : cancelled'[q] # "no" => cancelled[q] # "no"
    BY <1>3 DEF Begin
  <2>4. QED
    BY <2>1, <2>2, <2>3
<1>4. ASSUME NEW r \in Requests, Finish(r)
      PROVE  RegistryInv'
  <2>1. \A q \in Requests \ {r} : handler'[q] = handler[q] /\ cancelled'[q] = cancelled[q]
    BY <1>1, <1>4 DEF Finish, Becomes
  <2>2. handler'[r].phase \in {"over", "detached"} /\ cancelled'[r] = "no"
    BY <1>1, <1>4 DEF Finish, Becomes, HandlerState
  <2>3. active' = active \ {r}
    BY <1>4 DEF Finish
  <2>4. QED
    BY <2>1, <2>2, <2>3 DEF Registered
<1>5. ASSUME NEW i \in Instances, Crash(i)
      PROVE  RegistryInv'
  <2>1. \A q \in Requests :
           handler[q].instance = i =>
               handler'[q].phase \in {"idle", "over"} /\ cancelled'[q] = "no"
    BY <1>1, <1>5 DEF Crash, HandlerState
  <2>2. \A q \in Requests :
           handler[q].instance # i =>
               /\ handler'[q] = handler[q] /\ cancelled'[q] = cancelled[q]
               /\ q \in active' <=> q \in active
    BY <1>1, <1>5 DEF Crash
  <2>3. QED
    BY <2>1, <2>2 DEF Registered
<1>6. CASE Registers
  BY <1>6 DEF Registers, Cancel, Age
<1>7. ASSUME NEW r \in Requests,
             \/ FindsNothing(r) \/ LeavesEarly(r) \/ Announce(r)
             \/ \E chunk \in {"words", "error", "other"} : Relay(r, chunk)
             \/ StreamEnds(r) \/ GatewayFails(r) \/ ClientLeaves(r) \/ WriteFails(r)
      PROVE  RegistryInv'
  <2>1. OnlyOf(r)
    BY <1>7, RunsAreRunnerSteps DEF Runs, RunnerStep
  <2>2. handler'[r].phase \in Registered => handler[r].phase \in Registered
    BY <1>1, <1>7 DEF FindsNothing, LeavesEarly, Announce, Relay, StreamEnds, GatewayFails,
       ClientLeaves, WriteFails, Becomes, Registered, HandlerState
  <2>3. UNCHANGED <<active, cancelled>>
    BY <1>7 DEF FindsNothing, LeavesEarly, Announce, Relay, StreamEnds, GatewayFails,
       ClientLeaves, WriteFails
  <2>4. QED
    BY <1>2, <2>1, <2>2, <2>3
<1>8. ASSUME NEW r \in Requests,
             Reserve(r) \/ Patch(r) \/ CommitTurn(r) \/ CommitPatch(r) \/ Rollback(r) \/ Write(r)
      PROVE  RegistryInv'
  <2>1. /\ OnlyOf(r)
        /\ handler'[r].phase \in Registered => handler[r].phase \in Registered
    BY <1>8, ReserveStep, TransactionStep DEF Registered, InTransaction, Write
  <2>2. UNCHANGED <<active, cancelled>>
    BY <1>8 DEF Reserve, Patch, CommitTurn, CommitPatch, Rollback, Write
  <2>3. QED
    BY <1>2, <2>1, <2>2
<1>9. ASSUME NEW r \in Requests, NEW kind \in Kind, NEW i \in Instances,
             NEW target \in Messages \cup {NoMessage}, NEW prompt \in SUBSET Messages,
             Load(r, kind, i, target, prompt)
      PROVE  RegistryInv'
  BY <1>2, <1>9, LoadStep DEF Load, Registered
<1>10. ASSUME NEW r \in Requests, NEW kind \in Kind, NEW i \in Instances, Open(r, kind, i)
       PROVE  RegistryInv'
  <2>1. /\ Load(r, kind, i, NoMessage, {})
        /\ NoMessage \in Messages \cup {NoMessage} /\ {} \in SUBSET Messages
    BY <1>10 DEF Open
  <2> HIDE DEF RegistryInv, ChatTypeOK
  <2>2. QED
    BY <1>9, <2>1
<1>11. ASSUME NEW r \in Requests, NEW m \in Messages, NEW i \in Instances,
              Regenerate(r, i, m)
       PROVE  RegistryInv'
  BY <1>9, <1>11, RegenerateLoads
<1>12. CASE UNCHANGED chatVars
  BY <1>12 DEF chatVars
<1> HIDE DEF RegistryInv
<1>13. QED
  BY <1>3, <1>4, <1>5, <1>6, <1>7, <1>8, <1>10, <1>11, <1>12
     DEF Next, Progress, Streaming, Registers

\* A turn that is being relayed can be cancelled, and a cancellation does not
\* outlive the registration of the turn it is for.
THEOREM CancellationsArrive == Spec => []CancelsReachTheRunning
<1>1. Init => RegistryInv
  BY DEF Init, RegistryInv, Registered
<1>2. LockInv /\ RegistryInv /\ [Next]_chatVars => RegistryInv'
  BY RegistryStep DEF LockInv
<1>3. RegistryInv => CancelsReachTheRunning
  BY DEF RegistryInv, CancelsReachTheRunning, Registered
<1>4. QED
  BY <1>1, <1>2, <1>3, LockDiscipline, PTL DEF Spec

-----------------------------------------------------------------------------
(***************************************************************************)
(* The history.  A regeneration keeps, from the moment it is loaded, a     *)
(* target that has ended and a prompt from before it; ended messages never *)
(* change, so both are still what they were when the lock is obtained.     *)
(***************************************************************************)
Alive == Phase \ {"idle", "over"}
Answering == {"retrieving", "committed"} \cup Running

Settled(m) == message[m].status = "complete" /\ message[m].text > 0

Targeted ==
    \A r \in Requests :
        handler[r].phase \in Alive =>
            /\ handler[r].kind # "regenerate" => handler[r].target = NoMessage
            /\ handler[r].kind = "regenerate" =>
                  /\ handler[r].target \in Messages /\ handler[r].target[2] = "assistant"
                  /\ message[handler[r].target].status \in Final
                  /\ \A m \in handler[r].prompt :
                        /\ Settled(m)
                        /\ message[m].sequence < message[handler[r].target].sequence

HistoryInv == Targeted /\ PromptsAreSettled /\ ReplacesWhatEnded

LEMMA PhasesOfTheAlive ==
    /\ Answering \subseteq Alive /\ InTransaction \subseteq Alive
    /\ "waiting" \in Alive /\ "waiting" \notin Answering /\ "patching" \notin Answering
    /\ "idle" \notin Alive /\ "over" \notin Alive
BY DEF Answering, Alive, Phase, InTransaction, Running

\* A message that has ended never changes again.
LEMMA EndedStays ==
    ASSUME LockInv, RowInv, [Next]_chatVars, NEW m \in Messages,
           message[m].status \in Final
    PROVE  message'[m] = message[m]
<1>1. ASSUME NEW r \in Requests, CommitTurn(r)
      PROVE  message'[m] = message[m]
  <2>1. message[User(r)].status = "absent" /\ message[Assistant(r)].status = "absent"
    BY <1>1 DEF CommitTurn, RowInv, NothingStored, Unstored, InTransaction
  <2>2. QED
    BY <1>1, <2>1, CommitTurnStep DEF Final
<1>2. ASSUME NEW r \in Requests, Write(r)
      PROVE  message'[m] = message[m]
  <2>1. ChatTypeOK
    BY DEF LockInv
  <2>2. QED
    BY <1>2, <2>1, WriteStep DEF Final
<1>3. QED
  BY <1>1, <1>2, SteadySteps DEF Steady

\* What is given to a handler that has gone on keeps its meaning.
KeepsCourse(q) ==
    \/ handler'[q].phase \notin Alive
    \/ /\ KeepsItsTurn(q) /\ handler[q].phase \in Alive
       /\ handler'[q].phase \in Answering => handler[q].phase \in Answering

\* Every step but a load and a reservation.
LEMMA CourseSteps ==
    ASSUME LockInv, [Next]_chatVars
    PROVE  \/ \A q \in Requests : handler'[q] = handler[q] \/ KeepsCourse(q)
           \/ \E r \in Requests :
                 \/ Reserve(r)
                 \/ \E kind \in Kind, i \in Instances : Open(r, kind, i)
                 \/ \E m \in Messages, i \in Instances : Regenerate(r, i, m)
<1>1. ChatTypeOK
  BY DEF LockInv
<1>2. ASSUME NEW r \in Requests, OnlyOf(r), KeepsCourse(r)
      PROVE  \A q \in Requests : handler'[q] = handler[q] \/ KeepsCourse(q)
  BY <1>2 DEF OnlyOf
<1>3. ASSUME NEW r \in Requests, Runs(r)
      PROVE  \A q \in Requests : handler'[q] = handler[q] \/ KeepsCourse(q)
  <2>1. RunnerStep(r)
    BY <1>1, <1>3, RunsAreRunnerSteps
  <2>2. KeepsCourse(r)
    BY <2>1 DEF RunnerStep, KeepsCourse, Alive, Answering, Phase, Running
  <2>3. QED
    BY <1>2, <2>1, <2>2 DEF RunnerStep
<1>4. ASSUME NEW r \in Requests,
             Patch(r) \/ CommitTurn(r) \/ CommitPatch(r) \/ Rollback(r) \/ Write(r)
      PROVE  \A q \in Requests : handler'[q] = handler[q] \/ KeepsCourse(q)
  <2>1. OnlyOf(r) /\ KeepsItsTurn(r)
    BY <1>1, <1>4, TransactionStep
  <2>2. \/ handler'[r].phase = "over"
        \/ handler[r].phase = "waiting" /\ handler'[r].phase = "patching"
        \/ handler[r].phase = "retrieving" /\ handler'[r].phase = "committed"
        \/ handler[r].phase = "closing" /\ handler'[r].phase = "written"
    BY <1>1, <1>4, TransactionStep DEF Patch, CommitTurn, Write
  <2>3. KeepsCourse(r)
    BY <2>1, <2>2 DEF KeepsCourse, Alive, Answering, Phase, InTransaction, Running
  <2>4. QED
    BY <1>2, <2>1, <2>3
<1>5. ASSUME NEW lost \in SUBSET Requests, CrashStep(lost)
      PROVE  \A q \in Requests : handler'[q] = handler[q] \/ KeepsCourse(q)
  BY <1>5 DEF CrashStep, KeepsCourse, Alive
<1>6. CASE Registers \/ UNCHANGED chatVars
  BY <1>6 DEF Registers, Cancel, Age, chatVars
<1>7. QED
  BY <1>1, <1>3, <1>4, <1>5, <1>6, StepKinds

\* The ended rows of a prompt and of a target outlive every step.
LEMMA CourseKept ==
    ASSUME LockInv, RowInv, HistoryInv, [Next]_chatVars,
           \A q \in Requests : handler'[q] = handler[q] \/ KeepsCourse(q)
    PROVE  Targeted' /\ PromptsAreSettled'
<1>1. \A m \in Messages : message[m].status \in Final => message'[m] = message[m]
  BY EndedStays
<1>2. \A r \in Requests : handler[r].prompt \subseteq Messages
  BY DEF LockInv, ChatTypeOK, HandlerState
<1>3. "complete" \in Final
  BY DEF Final
<1>4. ASSUME NEW q \in Requests
      PROVE  /\ handler'[q].phase \in Alive =>
                   /\ handler[q].phase \in Alive /\ handler'[q].kind = handler[q].kind
                   /\ handler'[q].target = handler[q].target
                   /\ handler'[q].prompt = handler[q].prompt
                   /\ handler'[q].sequence = handler[q].sequence
             /\ handler'[q].phase \in Answering => handler[q].phase \in Answering
  BY PhasesOfTheAlive DEF KeepsCourse, KeepsItsTurn
<1>5. Targeted'
  BY <1>1, <1>2, <1>3, <1>4 DEF HistoryInv, Targeted, Settled
<1>6. ASSUME NEW q \in Requests, handler'[q].phase \in Answering,
             NEW m \in handler'[q].prompt \ {User(q)}
      PROVE  /\ message'[m].status = "complete" /\ message'[m].text > 0
             /\ message'[m].sequence < handler'[q].sequence
             /\ handler'[q].kind = "regenerate" =>
                   message'[m].sequence < message'[handler'[q].target].sequence
  <2>1. /\ handler[q].phase \in Answering /\ handler[q].phase \in Alive
        /\ handler'[q].kind = handler[q].kind /\ handler'[q].target = handler[q].target
        /\ handler'[q].sequence = handler[q].sequence
        /\ m \in handler[q].prompt \ {User(q)} /\ m \in Messages
    BY <1>2, <1>4, <1>6, PhasesOfTheAlive
  <2>2. /\ message[m].status = "complete" /\ message[m].text > 0
        /\ message[m].sequence < handler[q].sequence
        /\ handler[q].kind = "regenerate" =>
              message[m].sequence < message[handler[q].target].sequence
    BY <2>1 DEF HistoryInv, PromptsAreSettled, Answering
  <2>3. handler[q].kind = "regenerate" =>
           /\ handler[q].target \in Messages
           /\ message[handler[q].target].status \in Final
    BY <2>1 DEF HistoryInv, Targeted
  <2>4. QED
    BY <1>1, <1>3, <2>1, <2>2, <2>3
<1>7. PromptsAreSettled'
  BY <1>6 DEF PromptsAreSettled, Answering
<1>8. QED
  BY <1>5, <1>7

\* The numbers of the rows that are there do not exceed the count.
LEMMA NumbersAreCounted ==
    ASSUME RowInv, NEW m \in Present
    PROVE  message[m].sequence \in 1..thread.message_count
BY DEF RowInv, Numbered

\* A reservation reads the history of a send under the lock, and numbers its
\* answer above all of it.
LEMMA ReserveKeepsHistory ==
    ASSUME LockInv, RowInv, HistoryInv, NEW r \in Requests, Reserve(r)
    PROVE  Targeted' /\ PromptsAreSettled'
<1>1. ChatTypeOK /\ message' = message /\ thread.message_count \in Nat
  BY DEF LockInv, ChatTypeOK, Reserve, Thread
<1>2. /\ OnlyOf(r) /\ handler[r].phase = "waiting" /\ handler'[r].phase = "retrieving"
      /\ handler'[r].kind = handler[r].kind /\ handler'[r].target = handler[r].target
      /\ handler'[r].sequence =
            thread.message_count + (IF handler[r].kind = "send" THEN 2 ELSE 1)
      /\ handler'[r].prompt = IF handler[r].kind = "send"
                              THEN Replayable(Present) \cup {User(r)}
                              ELSE handler[r].prompt
      /\ handler[r].kind \in {"send", "regenerate"}
  BY <1>1, ReserveStep DEF Reserve
<1>3. handler[r].phase \in Alive
  BY <1>2, PhasesOfTheAlive
<1>4. handler'[r].kind = "regenerate" => handler'[r].prompt = handler[r].prompt
  BY <1>2
<1>5. Targeted'
  BY <1>1, <1>2, <1>3, <1>4 DEF HistoryInv, Targeted, OnlyOf, Settled
<1>6. ASSUME NEW m \in handler'[r].prompt \ {User(r)}
      PROVE  /\ m \in Present /\ message[m].status = "complete" /\ message[m].text > 0
             /\ handler[r].kind = "regenerate" =>
                   message[m].sequence < message[handler[r].target].sequence
  <2>1. handler[r].prompt \subseteq Messages
    BY <1>1 DEF ChatTypeOK, HandlerState
  <2>2. CASE handler[r].kind = "send"
    BY <1>2, <1>6, <2>2 DEF Replayable
  <2>3. CASE handler[r].kind = "regenerate"
    BY <1>2, <1>3, <1>6, <2>1, <2>3 DEF HistoryInv, Targeted, Settled, Present
  <2>4. QED
    BY <1>2, <2>2, <2>3
<1>7. ASSUME NEW m \in handler'[r].prompt \ {User(r)}
      PROVE  message[m].sequence < handler'[r].sequence
  <2>1. message[m].sequence \in 1..thread.message_count
    BY <1>6, <1>7, NumbersAreCounted
  <2>2. QED
    BY <1>1, <1>2, <2>1
<1>8. PromptsAreSettled'
  BY <1>1, <1>2, <1>6, <1>7 DEF HistoryInv, PromptsAreSettled, OnlyOf
<1>9. QED
  BY <1>5, <1>8

\* A load: nothing is answered yet, and what a regeneration takes has ended.
LEMMA LoadKeepsHistory ==
    ASSUME LockInv, HistoryInv, NEW r \in Requests, NEW i \in Instances,
           \/ \E kind \in Kind : Open(r, kind, i)
           \/ \E m \in Messages : Regenerate(r, i, m)
    PROVE  /\ Targeted' /\ PromptsAreSettled'
           /\ message' = message /\ thread' = thread
<1>1. ChatTypeOK /\ NoMessage \in Messages \cup {NoMessage} /\ {} \in SUBSET Messages
  BY DEF LockInv
<1>2. ASSUME OnlyOf(r), UNCHANGED <<thread, message>>, handler'[r].phase = "waiting",
             handler'[r].kind # "regenerate" => handler'[r].target = NoMessage,
             handler'[r].kind = "regenerate" =>
                /\ handler'[r].target \in Messages /\ handler'[r].target[2] = "assistant"
                /\ message[handler'[r].target].status \in Final
                /\ \A m \in handler'[r].prompt :
                      /\ Settled(m)
                      /\ message[m].sequence < message[handler'[r].target].sequence
      PROVE  Targeted' /\ PromptsAreSettled'
  <2>1. Targeted'
    BY <1>2 DEF HistoryInv, Targeted, OnlyOf, Settled
  <2>2. PromptsAreSettled'
    BY <1>2 DEF HistoryInv, PromptsAreSettled, OnlyOf, Running
  <2>3. QED
    BY <2>1, <2>2
<1>3. ASSUME NEW kind \in Kind, Open(r, kind, i)
      PROVE  /\ Targeted' /\ PromptsAreSettled'
             /\ message' = message /\ thread' = thread
  <2>1. Load(r, kind, i, NoMessage, {}) /\ kind # "regenerate"
    BY <1>3 DEF Open
  <2>2. /\ OnlyOf(r) /\ UNCHANGED <<thread, message>> /\ handler'[r].phase = "waiting"
        /\ handler'[r].kind = kind /\ handler'[r].target = NoMessage
    BY <1>1, <2>1, LoadStep
  <2>3. QED
    BY <1>2, <2>1, <2>2
<1>4. ASSUME NEW m \in Messages, Regenerate(r, i, m)
      PROVE  /\ Targeted' /\ PromptsAreSettled'
             /\ message' = message /\ thread' = thread
  <2>1. /\ Load(r, "regenerate", i, m, Replayable(Before(m)))
        /\ Replayable(Before(m)) \in SUBSET Messages /\ "regenerate" \in Kind
    BY <1>1, <1>4, RegenerateLoads
  <2>2. /\ OnlyOf(r) /\ UNCHANGED <<thread, message>> /\ handler'[r].phase = "waiting"
        /\ handler'[r].kind = "regenerate" /\ handler'[r].target = m
        /\ handler'[r].prompt = Replayable(Before(m))
    BY <1>1, <2>1, LoadStep
  <2>3. m[2] = "assistant" /\ message[m].status \in Final
    BY <1>1, <1>4 DEF Regenerate, Present, ChatTypeOK, Row
  <2>4. \A k \in Replayable(Before(m)) :
           Settled(k) /\ message[k].sequence < message[m].sequence
    BY DEF Replayable, Before, Settled
  <2>5. QED
    BY <1>2, <2>2, <2>3, <2>4
<1>5. QED
  BY <1>3, <1>4

\* What replaces an answer is stored after it, and a replaced answer has ended.
LEMMA ReplacesStep ==
    ASSUME LockInv, RowInv, HistoryInv, [Next]_chatVars
    PROVE  ReplacesWhatEnded'
<1>1. /\ message \in [Messages -> Row] /\ NoMessage \notin Messages
      /\ handler \in [Requests -> HandlerState]
  BY ChatAssumption DEF LockInv, ChatTypeOK, NoMessage, Messages
<1>2. \A m \in Messages : message[m].status \in Final => message'[m] = message[m]
  BY EndedStays
<1>3. \A m \in Present :
         /\ m \in Messages /\ message[m].parent \in Messages \cup {NoMessage}
         /\ message[m].parent # NoMessage =>
               /\ message[m].parent[2] = "assistant"
               /\ message[message[m].parent].status \in Final
               /\ message[message[m].parent].sequence < message[m].sequence
  BY <1>1 DEF HistoryInv, ReplacesWhatEnded, Present, Row
<1>4. ASSUME NEW m \in Present, message'[m].parent = message[m].parent,
             message'[m].sequence = message[m].sequence
      PROVE  message'[m].parent # NoMessage =>
                /\ message'[m].parent[2] = "assistant"
                /\ message'[message'[m].parent].status \in Final
                /\ message'[message'[m].parent].sequence < message'[m].sequence
  <2>1. CASE message[m].parent # NoMessage
    <3>1. message'[message[m].parent] = message[message[m].parent]
      BY <1>2, <1>3, <2>1
    <3>2. QED
      BY <1>3, <1>4, <3>1
  <2>2. CASE message[m].parent = NoMessage
    BY <1>4, <2>2
  <2>3. QED
    BY <2>1, <2>2
<1>5. CASE Steady
  BY <1>4, <1>5 DEF Steady, ReplacesWhatEnded, Present
<1>6. ASSUME NEW r \in Requests, Write(r)
      PROVE  ReplacesWhatEnded'
  <2>1. ChatTypeOK /\ handler[r].status \in Final
    BY DEF LockInv, ChatTypeOK, HandlerState
  <2>2. Assistant(r) \in Messages
    BY DEF Assistant, Messages
  <2>3. CASE message[Assistant(r)].status = "streaming"
    <3>1. \A m \in Messages : /\ message'[m].parent = message[m].parent
                              /\ message'[m].sequence = message[m].sequence
                              /\ message'[m].status # "absent" => m \in Present
      BY <1>6, <2>1, <2>2, <2>3, WriteStep DEF Present
    <3>2. QED
      BY <1>4, <3>1 DEF ReplacesWhatEnded, Present
  <2>4. CASE message[Assistant(r)].status # "streaming"
    BY <1>4, <1>6, <2>1, <2>4, WriteStep DEF ReplacesWhatEnded, Present
  <2>5. QED
    BY <2>3, <2>4
<1>7. ASSUME NEW r \in Requests, CommitTurn(r)
      PROVE  ReplacesWhatEnded'
  <2>1. /\ Present' = Present \cup {Assistant(r)}
                      \cup (IF handler[r].kind = "send" THEN {User(r)} ELSE {})
        /\ User(r) \notin Present /\ Assistant(r) \notin Present
        /\ handler[r].sequence =
              thread.message_count + (IF handler[r].kind = "send" THEN 2 ELSE 1)
        /\ thread.message_count \in Nat
    BY <1>7, CommitNumbers
  <2>2. /\ \A m \in Messages \ {User(r), Assistant(r)} : message'[m] = message[m]
        /\ message'[Assistant(r)].sequence = handler[r].sequence
        /\ message'[Assistant(r)].parent = handler[r].target
        /\ handler[r].kind = "send" => message'[User(r)].parent = NoMessage
    BY <1>7, CommitTurnStep
  <2>3. ASSUME handler[r].target # NoMessage
        PROVE  /\ handler[r].target[2] = "assistant"
               /\ message'[handler[r].target].status \in Final
               /\ message'[handler[r].target].sequence < handler[r].sequence
    <3>1. handler[r].phase \in Alive
      BY <1>7, PhasesOfTheAlive DEF CommitTurn, Answering
    <3>2. /\ handler[r].target \in Messages /\ handler[r].target[2] = "assistant"
          /\ message[handler[r].target].status \in Final
      BY <2>3, <3>1 DEF HistoryInv, Targeted
    <3>3. handler[r].target \in Present
      BY <3>2 DEF Present, Final
    <3>4. message[handler[r].target].sequence \in 1..thread.message_count
      BY <3>3, NumbersAreCounted
    <3>5. message'[handler[r].target] = message[handler[r].target]
      BY <1>2, <3>2
    <3>6. QED
      BY <2>1, <3>2, <3>4, <3>5
  <2>4. \A m \in Present : message'[m] = message[m]
    BY <1>3, <2>1, <2>2
  <2>5. ASSUME NEW m \in Present', message'[m].parent # NoMessage
        PROVE  /\ message'[m].parent[2] = "assistant"
               /\ message'[message'[m].parent].status \in Final
               /\ message'[message'[m].parent].sequence < message'[m].sequence
    <3>1. CASE m \in Present
      BY <1>4, <2>4, <2>5, <3>1
    <3>2. CASE m = Assistant(r)
      BY <2>2, <2>3, <2>5, <3>2
    <3>3. CASE handler[r].kind = "send" /\ m = User(r)
      BY <2>2, <2>5, <3>3
    <3>4. QED
      BY <2>1, <2>5, <3>1, <3>2, <3>3
  <2>6. QED
    BY <2>5 DEF ReplacesWhatEnded
<1>8. QED
  BY <1>5, <1>6, <1>7, SteadySteps

LEMMA HistoryStep ==
    ASSUME LockInv, RowInv, HistoryInv, [Next]_chatVars
    PROVE  HistoryInv'
<1>1. Targeted' /\ PromptsAreSettled'
  BY CourseSteps, CourseKept, ReserveKeepsHistory, LoadKeepsHistory
<1>2. ReplacesWhatEnded'
  BY ReplacesStep
<1>3. QED
  BY <1>1, <1>2 DEF HistoryInv

LEMMA HistoryInit ==
    ASSUME Init
    PROVE  HistoryInv
<1>1. /\ \A m \in Messages : message[m].status = "absent"
      /\ \A r \in Requests : handler[r].phase = "idle"
  BY DEF Init
<1>2. Targeted
  BY <1>1, PhasesOfTheAlive DEF Targeted
<1>3. PromptsAreSettled
  BY <1>1 DEF PromptsAreSettled, Running
<1>4. ReplacesWhatEnded
  BY <1>1 DEF ReplacesWhatEnded, Present
<1>5. QED
  BY <1>2, <1>3, <1>4 DEF HistoryInv

LEMMA History == Spec => []HistoryInv
<1>1. Init => HistoryInv
  BY HistoryInit
<1>2. LockInv /\ RowInv /\ HistoryInv /\ [Next]_chatVars => HistoryInv'
  BY HistoryStep
<1>3. QED
  BY <1>1, <1>2, LockDiscipline, Rows, PTL DEF Spec

\* A model is only ever given settled history, from before its own answer and from
\* before what it replaces.
THEOREM PromptsStaySettled == Spec => []PromptsAreSettled
<1>1. HistoryInv => PromptsAreSettled
  BY DEF HistoryInv
<1>2. QED
  BY <1>1, History, PTL

\* What an answer replaces is an answer that had ended and comes before it.
THEOREM ReplacedAnswersHaveEnded == Spec => []ReplacesWhatEnded
<1>1. HistoryInv => ReplacesWhatEnded
  BY DEF HistoryInv
<1>2. QED
  BY <1>1, History, PTL

-----------------------------------------------------------------------------
(***************************************************************************)
(* Chat implements Transcript: what its reader is promised holds for every *)
(* value of the constants.                                                 *)
(*                                                                         *)
(* The log is a function of the rows and of the count of them; the lemmas  *)
(* about it are stated for any rows that are numbered, so that they can be *)
(* used of the state before a step and of the one after it.                *)
(***************************************************************************)
Entry == [role : {"user", "assistant"}, status : Final \cup {"streaming"},
          text : 0..MaxWords]

There(rows) == {m \in Messages : rows[m].status # "absent"}

NumberedRows(rows, count) ==
    /\ \A m, n \in There(rows) : rows[m].sequence = rows[n].sequence => m = n
    /\ \A m \in There(rows) : rows[m].sequence \in 1..count
    /\ \A i \in 1..count : \E m \in There(rows) : rows[m].sequence = i

EntryIn(rows, m) == [role |-> m[2], status |-> rows[m].status, text |-> rows[m].text]

LogOf(rows, count) ==
    [i \in 1..count |-> EntryIn(rows, CHOOSE m \in There(rows) : rows[m].sequence = i)]

\* The log of a state, before a step and after it.
LEMMA LogIsLogOf ==
    /\ Log = LogOf(message, thread.message_count)
    /\ Log' = LogOf(message', thread'.message_count)
    /\ There(message) = Present /\ There(message') = Present'
BY DEF Log, LogOf, EntryOf, EntryIn, MessageAt, Present, There

\* Each entry of the log is the row with its number.
LEMMA LogEntries ==
    ASSUME NEW rows \in [Messages -> Row], NEW count \in Nat, NumberedRows(rows, count)
    PROVE  /\ LogOf(rows, count) \in Seq(Entry) /\ Len(LogOf(rows, count)) = count
           /\ DOMAIN LogOf(rows, count) = 1..count
           /\ \A m \in There(rows) :
                 LogOf(rows, count)[rows[m].sequence] = EntryIn(rows, m)
<1> DEFINE At(i) == CHOOSE m \in There(rows) : rows[m].sequence = i
<1>1. \A i \in 1..count : At(i) \in There(rows) /\ rows[At(i)].sequence = i
  BY DEF NumberedRows
<1>2. \A m \in There(rows) : At(rows[m].sequence) = m
  BY <1>1 DEF NumberedRows
<1>3. \A m \in There(rows) : EntryIn(rows, m) \in Entry
  BY DEF EntryIn, Entry, There, Row, Messages
<1>4. LogOf(rows, count) = [i \in 1..count |-> EntryIn(rows, At(i))]
  BY DEF LogOf
<1> HIDE DEF At
<1>5. LogOf(rows, count) \in [1..count -> Entry]
  BY <1>1, <1>3, <1>4
<1>6. LogOf(rows, count) \in Seq(Entry)
  BY <1>5, SeqDef
<1>7. Len(LogOf(rows, count)) = count
  BY <1>5, <1>6, LenProperties
<1>8. \A m \in There(rows) : LogOf(rows, count)[rows[m].sequence] = EntryIn(rows, m)
  BY <1>2, <1>4 DEF NumberedRows
<1>9. QED
  BY <1>5, <1>6, <1>7, <1>8

\* Numbered, of the rows as they are.
LEMMA NumberedIsNumberedRows ==
    ASSUME Numbered
    PROVE  NumberedRows(message, thread.message_count)
BY DEF Numbered, NumberedRows, Present, There

LEMMA NumberedIsNumberedRowsNext ==
    ASSUME Numbered'
    PROVE  NumberedRows(message', thread'.message_count)
BY DEF Numbered, NumberedRows, Present, There

-----------------------------------------------------------------------------
\* An answer that is being written has no stored text.
OpenIsEmpty ==
    \A m \in Messages : message[m].status = "streaming" => message[m].text = 0

LEMMA OpenStep ==
    ASSUME LockInv, OpenIsEmpty, [Next]_chatVars
    PROVE  OpenIsEmpty'
<1>1. CASE Steady
  BY <1>1 DEF Steady, OpenIsEmpty
<1>2. ASSUME NEW r \in Requests, CommitTurn(r)
      PROVE  OpenIsEmpty'
  BY <1>2, CommitTurnStep DEF OpenIsEmpty
<1>3. ASSUME NEW r \in Requests, Write(r)
      PROVE  OpenIsEmpty'
  <2>1. ChatTypeOK /\ handler[r].status \in Final
    BY DEF LockInv, ChatTypeOK, HandlerState
  <2>2. QED
    BY <1>3, <2>1, WriteStep DEF OpenIsEmpty, Final
<1>4. QED
  BY <1>1, <1>2, <1>3, SteadySteps

LEMMA OpenAnswersAreEmpty == Spec => []OpenIsEmpty
<1>1. Init => OpenIsEmpty
  BY DEF Init, OpenIsEmpty
<1>2. LockInv /\ OpenIsEmpty /\ [Next]_chatVars => OpenIsEmpty'
  BY OpenStep
<1>3. QED
  BY <1>1, <1>2, LockDiscipline, PTL DEF Spec

-----------------------------------------------------------------------------
\* The commit of a turn writes its question, if it has one, and an open answer.
LEMMA CommitWrites ==
    ASSUME LockInv, RowInv, NEW r \in Requests, CommitTurn(r)
    PROVE  Kept!TranscriptNext
<1> DEFINE n == thread.message_count
           asks == handler[r].kind = "send"
           entries == IF asks THEN <<Kept!Question, Kept!OpenAnswer>>
                              ELSE <<Kept!OpenAnswer>>
<1>1. /\ Numbered /\ Numbered' /\ n \in Nat
      /\ Present' = Present \cup {Assistant(r)} \cup (IF asks THEN {User(r)} ELSE {})
      /\ User(r) \notin Present /\ Assistant(r) \notin Present
      /\ handler[r].sequence = n + (IF asks THEN 2 ELSE 1)
  BY CommitNumbers DEF RowInv
<1>2. /\ thread' \in Thread /\ message' \in [Messages -> Row]
      /\ thread'.message_count = handler[r].sequence /\ thread'.deleted = thread.deleted
      /\ \A m \in Messages \ {User(r), Assistant(r)} : message'[m] = message[m]
      /\ message'[Assistant(r)].sequence = handler[r].sequence
      /\ message'[Assistant(r)].status = "streaming"
      /\ message'[Assistant(r)].text = 0
      /\ asks => /\ message'[User(r)].sequence = handler[r].sequence - 1
                 /\ message'[User(r)].status = "complete"
                 /\ message'[User(r)].text = 1
  BY CommitTurnStep
<1>3. /\ ~thread.deleted /\ message \in [Messages -> Row]
  BY DEF LockInv, Reserved, CommitTurn, ChatTypeOK
<1>4. /\ Log \in Seq(Entry) /\ Len(Log) = n
      /\ \A m \in Present : Log[message[m].sequence] = EntryIn(message, m)
  BY <1>1, <1>3, LogEntries, LogIsLogOf, NumberedIsNumberedRows
<1>5. /\ Log' \in Seq(Entry) /\ Len(Log') = n + (IF asks THEN 2 ELSE 1)
      /\ \A m \in Present' : Log'[message'[m].sequence] = EntryIn(message', m)
  BY <1>1, <1>2, LogEntries, LogIsLogOf, NumberedIsNumberedRowsNext
<1>6. /\ Kept!Question \in Entry /\ Kept!OpenAnswer \in Entry
  BY ChatAssumption DEF Kept!Question, Kept!OpenAnswer, Entry, Final
<1>7. /\ entries \in Seq(Entry) /\ Len(entries) = IF asks THEN 2 ELSE 1
      /\ asks => entries[1] = Kept!Question /\ entries[2] = Kept!OpenAnswer
      /\ ~asks => entries[1] = Kept!OpenAnswer
  BY <1>6
<1>8. /\ EntryIn(message', Assistant(r)) = Kept!OpenAnswer
      /\ asks => EntryIn(message', User(r)) = Kept!Question
  BY <1>2 DEF EntryIn, Assistant, User, Kept!OpenAnswer, Kept!Question
<1>9. \A i \in 1..n : Log'[i] = Log[i]
  <2>1. SUFFICES ASSUME NEW i \in 1..n PROVE Log'[i] = Log[i]
    OBVIOUS
  <2>2. PICK m \in Present : message[m].sequence = i
    BY <1>1 DEF Numbered
  <2>3. message'[m] = message[m] /\ m \in Present'
    BY <1>1, <1>2 DEF Present
  <2>4. Log[i] = EntryIn(message, m)
    BY <1>4, <2>2
  <2>5. Log'[i] = EntryIn(message', m)
    BY <1>5, <2>2, <2>3
  <2>6. EntryIn(message', m) = EntryIn(message, m)
    BY <2>3 DEF EntryIn
  <2>7. QED
    BY <2>4, <2>5, <2>6
<1>10. /\ Log'[handler[r].sequence] = Kept!OpenAnswer
       /\ asks => Log'[handler[r].sequence - 1] = Kept!Question
  BY <1>1, <1>2, <1>5, <1>8
<1> HIDE DEF n, entries
<1>11. Log' = Log \o entries
  <2>1. /\ Log \o entries \in Seq(Entry)
        /\ Len(Log \o entries) = n + (IF asks THEN 2 ELSE 1)
        /\ \A i \in 1..(n + (IF asks THEN 2 ELSE 1)) :
              (Log \o entries)[i] = IF i <= n THEN Log[i] ELSE entries[i - n]
    <3>1. /\ Log \o entries \in Seq(Entry)
          /\ Len(Log \o entries) = Len(Log) + Len(entries)
          /\ \A i \in 1..(Len(Log) + Len(entries)) :
                (Log \o entries)[i] =
                    IF i <= Len(Log) THEN Log[i] ELSE entries[i - Len(Log)]
      <4>1. Log \in Seq(Entry) /\ entries \in Seq(Entry)
        BY <1>4, <1>7
      <4>2. QED
        BY ONLY <4>1, ConcatProperties
    <3>2. Len(Log) = n /\ Len(entries) = IF asks THEN 2 ELSE 1
      BY <1>4, <1>7
    <3>3. QED
      BY <3>1, <3>2
  <2>2. \A i \in 1..(n + (IF asks THEN 2 ELSE 1)) : Log'[i] = (Log \o entries)[i]
    BY <1>1, <1>7, <1>9, <1>10, <2>1
  <2>3. QED
    BY <1>5, <2>1, <2>2, SeqEqual
<1>12. Kept!Write(entries)
  BY <1>2, <1>3, <1>11 DEF Kept!Write
<1>13. QED
  BY <1>12 DEF Kept!TranscriptNext, entries

\* The writing of an open answer concludes it, and of another changes nothing.
LEMMA WriteConcludes ==
    ASSUME LockInv, RowInv, RowInv', OpenIsEmpty, NEW r \in Requests, Write(r)
    PROVE  Kept!TranscriptNext \/ UNCHANGED Kept!transcriptVars
<1> DEFINE n == thread.message_count
           own == Assistant(r)
<1>1. /\ Numbered /\ Numbered' /\ n \in Nat /\ ChatTypeOK
      /\ message \in [Messages -> Row] /\ own \in Messages
  BY DEF RowInv, LockInv, ChatTypeOK, Thread, Assistant, Messages
<1>2. CASE message[own].status # "streaming"
  <2>1. message' = message /\ thread' = thread
    BY <1>1, <1>2, WriteStep
  <2>2. QED
    BY <2>1, LogIsLogOf DEF Kept!transcriptVars
<1>3. CASE message[own].status = "streaming"
  <2>1. /\ message' \in [Messages -> Row] /\ thread' = thread
        /\ \A m \in Messages \ {own} : message'[m] = message[m]
        /\ message'[own].sequence = message[own].sequence
        /\ message'[own].status = handler[r].status
        /\ message'[own].text = handler[r].said
        /\ handler[r].status \in Final /\ handler[r].said \in 0..MaxWords
    BY <1>1, <1>3, WriteStep DEF ChatTypeOK, HandlerState
  <2>2. own \in Present /\ own \in Present' /\ Present' = Present
    BY <1>1, <1>3, <2>1 DEF Present, Final
  <2>3. /\ Log \in Seq(Entry) /\ Len(Log) = n
        /\ \A m \in Present : Log[message[m].sequence] = EntryIn(message, m)
    BY <1>1, LogEntries, LogIsLogOf, NumberedIsNumberedRows
  <2>4. /\ Log' \in Seq(Entry) /\ Len(Log') = n
        /\ \A m \in Present' : Log'[message'[m].sequence] = EntryIn(message', m)
    BY <1>1, <2>1, LogEntries, LogIsLogOf, NumberedIsNumberedRowsNext
  <2> DEFINE at == message[own].sequence
             answer == EntryIn(message', own)
  <2>5. at \in 1..n
    BY <1>1, <2>2 DEF Numbered
  <2>6. Log[at] = Kept!OpenAnswer
    <3>1. message[own].text = 0
      BY <1>1, <1>3 DEF OpenIsEmpty
    <3>2. EntryIn(message, own) = Kept!OpenAnswer
      BY <1>3, <3>1 DEF EntryIn, Kept!OpenAnswer, Assistant
    <3>3. QED
      BY <2>2, <2>3, <3>2
  <2>7. answer \in Kept!Closings /\ answer \in Entry
    BY <2>1, ChatAssumption DEF EntryIn, Entry, Kept!Closings, Final, Assistant
  <2>8. ASSUME NEW i \in 1..n
        PROVE  Log'[i] = IF i = at THEN answer ELSE Log[i]
    <3>1. PICK m \in Present : message[m].sequence = i
      BY <1>1 DEF Numbered
    <3>2. CASE m = own
      BY <2>1, <2>2, <2>4, <3>1, <3>2
    <3>3. CASE m # own
      <4>1. i # at
        BY <1>1, <2>2, <3>1, <3>3 DEF Numbered
      <4>2. message'[m] = message[m] /\ m \in Present'
        BY <2>1, <2>2, <3>3 DEF Present
      <4>3. Log[i] = EntryIn(message, m) /\ Log'[i] = EntryIn(message', m)
        BY <2>3, <2>4, <3>1, <4>2
      <4>4. EntryIn(message', m) = EntryIn(message, m)
        BY <4>2 DEF EntryIn
      <4>5. QED
        BY <4>1, <4>3, <4>4
    <3>4. QED
      BY <3>2, <3>3
  <2> HIDE DEF n, own, at, answer
  <2>9. Log' = [Log EXCEPT ![at] = answer]
    <3>1. /\ [Log EXCEPT ![at] = answer] \in Seq(Entry)
          /\ Len([Log EXCEPT ![at] = answer]) = n
          /\ \A i \in 1..n :
                [Log EXCEPT ![at] = answer][i] = IF i = at THEN answer ELSE Log[i]
      BY <2>3, <2>5, <2>7, ExceptSeq
    <3>2. \A i \in 1..n : Log'[i] = [Log EXCEPT ![at] = answer][i]
      BY <2>8, <3>1
    <3>3. QED
      BY <2>4, <3>1, <3>2, SeqEqual
  <2>10. Kept!Conclude(at, answer)
    BY <2>1, <2>6, <2>9 DEF Kept!Conclude
  <2>11. QED
    BY <2>3, <2>5, <2>7, <2>10 DEF Kept!TranscriptNext
<1>4. QED
  BY <1>2, <1>3

\* Other steps leave the log alone, or close it.
LEMMA SteadyKeeps ==
    ASSUME LockInv, Steady, [Next]_chatVars
    PROVE  Kept!TranscriptNext \/ UNCHANGED Kept!transcriptVars
<1>1. Log' = Log
  BY LogIsLogOf DEF Steady
<1>2. thread'.deleted = thread.deleted \/ thread'.deleted = TRUE
  <2>1. ChatTypeOK
    BY DEF LockInv
  <2>2. ASSUME NEW r \in Requests, CommitTurn(r)
        PROVE  thread'.deleted = thread.deleted
    BY <2>2, CommitTurnStep
  <2>3. ASSUME NEW r \in Requests, CommitPatch(r)
        PROVE  thread'.deleted = thread.deleted \/ thread'.deleted = TRUE
    BY <2>1, <2>3 DEF CommitPatch, ChatTypeOK, Thread
  <2>4. ASSUME NEW r \in Requests,
               \/ Reserve(r) \/ Patch(r) \/ Rollback(r) \/ Write(r) \/ Runs(r)
               \/ \E kind \in Kind, i \in Instances : Open(r, kind, i)
               \/ \E m \in Messages, i \in Instances : Regenerate(r, i, m)
        PROVE  thread' = thread
    <3>1. Runs(r) => thread' = thread
      BY <2>1, RunsAreRunnerSteps DEF RunnerStep
    <3>2. QED
      BY <2>4, <3>1 DEF Reserve, Patch, Rollback, Write, Open, Regenerate, Load
  <2>5. ASSUME NEW lost \in SUBSET Requests, CrashStep(lost)
        PROVE  thread' = thread
    BY <2>5 DEF CrashStep
  <2>6. CASE Registers \/ UNCHANGED chatVars
    BY <2>6 DEF Registers, Cancel, Age, chatVars
  <2>7. QED
    BY <2>1, <2>2, <2>3, <2>4, <2>5, <2>6, StepKinds
<1>3. CASE thread'.deleted = thread.deleted
  BY <1>1, <1>3 DEF Kept!transcriptVars
<1>4. CASE thread'.deleted = TRUE
  BY <1>1, <1>4 DEF Kept!TranscriptNext, Kept!Close
<1>5. QED
  BY <1>2, <1>3, <1>4

\* A conversation is a transcript: questions with their answers right behind them,
\* each answer closed once and unchanged ever after, nothing added once deleted.
THEOREM ChatKeepsTranscript == Spec => KeepsTranscript
<1>1. Init => Kept!TranscriptInit
  <2>1. SUFFICES ASSUME Init PROVE Kept!TranscriptInit
    OBVIOUS
  <2>2. thread.message_count = 0 /\ thread.deleted = FALSE
    BY <2>1 DEF Init
  <2>3. Log = <<>>
    <3>1. Log \in Seq(Entry) /\ Len(Log) = 0
      BY <2>1, <2>2, LockInit, RowInit, LogEntries, LogIsLogOf, NumberedIsNumberedRows
         DEF LockInv, ChatTypeOK, RowInv
    <3>2. <<>> \in Seq(Entry) /\ Len(<<>>) = 0
      BY EmptySeq
    <3>3. QED
      BY <3>1, <3>2, SeqEqual
  <2>4. QED
    BY <2>2, <2>3 DEF Kept!TranscriptInit
<1>2. LockInv /\ RowInv /\ RowInv' /\ OpenIsEmpty /\ [Next]_chatVars
         => [Kept!TranscriptNext]_Kept!transcriptVars
  BY SteadySteps, CommitWrites, WriteConcludes, SteadyKeeps
<1>3. QED
  BY <1>1, <1>2, LockDiscipline, Rows, OpenAnswersAreEmpty, PTL
     DEF Spec, KeepsTranscript, Kept!TranscriptSpec

=============================================================================
