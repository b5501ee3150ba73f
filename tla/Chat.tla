-------------------------------- MODULE Chat --------------------------------
(***************************************************************************)
(* One conversation of the control plane (services/api): the send,         *)
(* regenerate, patch, delete and cancel handlers, ChatRunner, which        *)
(* relays the gateway's stream and writes the answer down, and the         *)
(* CancellationRegistry of each API instance.                              *)
(*                                                                         *)
(* Handlers of any number of instances share the conversation only through *)
(* Postgres, at READ COMMITTED: a handler reads the conversation, waits    *)
(* for the lock on its row, and what it wrote is seen by others when it    *)
(* commits.  Within an instance handlers interleave at every await, and an *)
(* instance may die at any of them.  The gateway is the environment here.  *)
(*                                                                         *)
(* The organization has a knowledge base that is ready, so that a send     *)
(* really asks the gateway to embed its text.  The reads that follow one   *)
(* another before a wait (the conversation and, for a regeneration, its    *)
(* history; the history of a send, read under the lock) are one step.      *)
(***************************************************************************)
EXTENDS Policy, Sequences, FiniteSets

CONSTANTS
    Requests,          \* the requests made for the conversation
    Kinds,             \* what they may ask for
    NoRequest,         \* nobody holds the lock on the conversation's row
    Instances,         \* API instances
    Disturbances,      \* which of "crash", "database", "leave", "cancel" may happen
    MaxWords           \* bound: chunks of text in one answer

Kind == {"send", "regenerate", "rename", "restrict", "delete"}
Final == {"complete", "error", "cancelled"}

\* A message is named after the request that adds it and its role.
Messages == Requests \X {"user", "assistant"}
User(r) == <<r, "user">>
Assistant(r) == <<r, "assistant">>
NoMessage == <<NoRequest, "assistant">>

ASSUME ChatAssumption ==
    /\ IsFiniteSet(Requests)
    /\ NoRequest \notin Requests
    /\ Kinds \subseteq Kind
    /\ Disturbances \subseteq {"crash", "database", "leave", "cancel"}
    /\ MaxWords \in Nat \ {0}

VARIABLES
    thread,     \* the conversation's row [message_count, title, mode, deleted]
    lock,       \* who holds the lock on it
    message,    \* chat.messages: [sequence, status, text, parent] of each
    handler,    \* each request, see HandlerState
    active,     \* CancellationRegistry._active of all instances, by request
    cancelled   \* CancellationRegistry._cancelled: "no", "fresh" or "stale"

chatVars == <<thread, lock, message, handler, active, cancelled>>

(***************************************************************************)
(* The title is the derived one of a request's text (named by the          *)
(* request), one a user chose, or none.                                    *)
(***************************************************************************)
Thread == [message_count : Nat, title : Requests \cup {"none", "chosen"},
           mode : ExecutionMode,   \* "auto" when it has none of its own
           deleted : BOOLEAN]

Row == [sequence : Nat, status : Final \cup {"absent", "streaming"},
        text : 0..MaxWords, parent : Messages \cup {NoMessage}]

(***************************************************************************)
(* The phases of a request: waiting for the lock; retrieving (its rows     *)
(* inserted, the gateway asked to embed the text) or patching, in its      *)
(* transaction; committed; announced (the first events on their way to the *)
(* client); relaying; closing (the answer being written); written; and     *)
(* detached (written after its client left).                               *)
(***************************************************************************)
InTransaction == {"retrieving", "patching"}
Running == {"announced", "relaying", "closing", "written", "detached"}
Phase == {"idle", "waiting", "committed", "over"} \cup InTransaction \cup Running

HandlerState ==
    [kind : Kind, instance : Instances, phase : Phase,
     read : Thread,             \* the conversation as it was loaded
     target : Messages \cup {NoMessage},
     prompt : SUBSET Messages,
     sequence : Nat,            \* of its assistant message
     said : 0..MaxWords,        \* _TurnCollector.text
     status : Final]            \* _TurnCollector.status

ChatTypeOK ==
    /\ thread \in Thread
    /\ lock \in Requests \cup {NoRequest}
    /\ message \in [Messages -> Row]
    /\ handler \in [Requests -> HandlerState]
    /\ active \in SUBSET Requests
    /\ cancelled \in [Requests -> {"no", "fresh", "stale"}]

-----------------------------------------------------------------------------
Present == {m \in Messages : message[m].status # "absent"}

ReplayableIfWritten(history) == {m \in history : message[m].text > 0}

\* prompt_messages: what of the history is replayed to a model.
Replayable(history) ==
    {m \in history : message[m].status = "complete" /\ message[m].text > 0}

\* The history before a message that is to be answered again.
Before(m) == {n \in Present : message[n].sequence < message[m].sequence}

Becomes(r, phase) == handler' = [handler EXCEPT ![r].phase = phase]

\* The handler loads the conversation (a deleted one is not found).
Load(r, kind, i, target, prompt) ==
    /\ handler[r].phase = "idle"
    /\ kind \in Kinds
    /\ ~thread.deleted
    /\ handler' = [handler EXCEPT ![r] =
          [@ EXCEPT !.kind = kind, !.instance = i, !.phase = "waiting",
                    !.read = thread, !.target = target, !.prompt = prompt]]
    /\ UNCHANGED <<thread, lock, message, active, cancelled>>

Open(r, kind, i) ==
    /\ kind # "regenerate"
    /\ Load(r, kind, i, NoMessage, {})

RegenerateAnything(r, i, m) ==
    /\ m \in Present /\ m[2] = "assistant"
    /\ Load(r, "regenerate", i, m, Replayable(Before(m)))

\* regenerate_message: an answer that has ended, with something before it to
\* answer.  The prompt is fixed here, before the lock is waited for.
Regenerate(r, i, m) ==
    /\ m \in Present /\ m[2] = "assistant"
    /\ message[m].status # "streaming"
    /\ Replayable(Before(m)) # {}
    /\ Load(r, "regenerate", i, m, Replayable(Before(m)))

-----------------------------------------------------------------------------
NextSequenceOfTheLoaded(r) == handler[r].read.message_count + 1

\* next_sequence, under the lock it takes: the count as last committed.
NextSequence(r) == thread.message_count + 1

(***************************************************************************)
(* append_user_message (of a send) and start_assistant_message, with the   *)
(* history of a send read behind them.  The UPDATE that reserves the       *)
(* number waits for the row and rechecks that it is not deleted.           *)
(***************************************************************************)
Reserve(r) ==
    /\ handler[r].phase = "waiting" /\ lock = NoRequest
    /\ handler[r].kind \in {"send", "regenerate"}
    /\ ~thread.deleted
    /\ lock' = r
    /\ handler' = [handler EXCEPT
          ![r].phase = "retrieving",
          ![r].sequence = NextSequence(r) + IF handler[r].kind = "send" THEN 1 ELSE 0,
          ![r].prompt = IF handler[r].kind = "send"
                        THEN Replayable(Present) \cup {User(r)} ELSE @]
    /\ UNCHANGED <<thread, message, active, cancelled>>

\* Deleted while it waited: conversation_not_found.
FindsNothing(r) ==
    /\ handler[r].phase = "waiting" /\ lock = NoRequest
    /\ handler[r].kind \in {"send", "regenerate"}
    /\ thread.deleted
    /\ Becomes(r, "over")
    /\ UNCHANGED <<thread, lock, message, active, cancelled>>

\* The UPDATE of a patch or of a soft delete.
Patch(r) ==
    /\ handler[r].phase = "waiting" /\ lock = NoRequest
    /\ handler[r].kind \in {"rename", "restrict", "delete"}
    /\ lock' = r
    /\ Becomes(r, "patching")
    /\ UNCHANGED <<thread, message, active, cancelled>>

\* The title is written only when the conversation was loaded without one.
TitleAfter(r) ==
    IF handler[r].kind = "send" /\ handler[r].read.title = "none"
    THEN r ELSE thread.title

Inserted(r, status, sequence) ==
    [sequence |-> sequence, status |-> status,
     text |-> IF status = "complete" THEN 1 ELSE 0,
     parent |-> IF status = "complete" THEN NoMessage ELSE handler[r].target]

CommitTurn(r) ==
    /\ handler[r].phase = "retrieving"
    /\ thread' = [thread EXCEPT !.message_count = handler[r].sequence,
                                !.title = TitleAfter(r)]
    /\ message' = [m \in Messages |->
          IF m = Assistant(r) THEN Inserted(r, "streaming", handler[r].sequence)
          ELSE IF m = User(r) /\ handler[r].kind = "send"
          THEN Inserted(r, "complete", handler[r].sequence - 1)
          ELSE message[m]]
    /\ lock' = NoRequest
    /\ Becomes(r, "committed")
    /\ UNCHANGED <<active, cancelled>>

CommitPatch(r) ==
    /\ handler[r].phase = "patching"
    /\ thread' = [thread EXCEPT
          !.title = IF handler[r].kind = "rename" THEN "chosen" ELSE @,
          !.mode = IF handler[r].kind = "restrict" THEN "private" ELSE @,
          !.deleted = @ \/ handler[r].kind = "delete"]
    /\ lock' = NoRequest
    /\ Becomes(r, "over")
    /\ UNCHANGED <<message, active, cancelled>>

RollbackKeepsTheLock(r) ==
    /\ handler[r].phase \in InTransaction
    /\ handler[r].kind = "send" \/ "database" \in Disturbances
    /\ Becomes(r, "over")
    /\ UNCHANGED <<thread, lock, message, active, cancelled>>

\* An attachment of a send that is not available, or a database error.
Rollback(r) ==
    /\ handler[r].phase \in InTransaction
    /\ handler[r].kind = "send" \/ "database" \in Disturbances
    /\ lock' = NoRequest
    /\ Becomes(r, "over")
    /\ UNCHANGED <<thread, message, active, cancelled>>

-----------------------------------------------------------------------------
(***************************************************************************)
(* ChatRunner.run.                                                         *)
(***************************************************************************)
\* The stream is first asked for: begin() registers the turn and forgets the
\* cancellations older than CANCEL_TTL_SECONDS.
Begin(r) ==
    /\ handler[r].phase = "committed"
    /\ Becomes(r, "announced")
    /\ active' = active \cup {r}
    /\ cancelled' = [q \in Requests |->
          IF cancelled[q] = "stale" /\ handler[q].instance = handler[r].instance
          THEN "no" ELSE cancelled[q]]
    /\ UNCHANGED <<thread, lock, message>>

\* The client is gone before the first events (which are sent outside the try)
\* have reached it: nothing finalizes the turn.
LeavesEarly(r) ==
    /\ "leave" \in Disturbances
    /\ handler[r].phase \in {"committed", "announced"}
    /\ Becomes(r, "over")
    /\ UNCHANGED <<thread, lock, message, active, cancelled>>

\* janus.message and janus.citations are out: the gateway is called.
Announce(r) ==
    /\ handler[r].phase = "announced"
    /\ Becomes(r, "relaying")
    /\ UNCHANGED <<thread, lock, message, active, cancelled>>

(***************************************************************************)
(* A chunk of the gateway's stream is observed and relayed: words of the   *)
(* answer, a janus.error event, or anything else (routing, usage, [DONE]). *)
(* Then the registry is asked, and a cancelled turn stops.                 *)
(***************************************************************************)
Relay(r, chunk) ==
    /\ handler[r].phase = "relaying"
    /\ chunk = "words" => handler[r].said < MaxWords
    /\ handler' = [handler EXCEPT
          ![r].said = IF chunk = "words" THEN @ + 1 ELSE @,
          ![r].status = IF cancelled[r] # "no" THEN "cancelled"
                        ELSE IF chunk = "error" THEN "error" ELSE @,
          ![r].phase = IF cancelled[r] # "no" THEN "closing" ELSE @]
    /\ UNCHANGED <<thread, lock, message, active, cancelled>>

StreamEnds(r) ==
    /\ handler[r].phase = "relaying"
    /\ Becomes(r, "closing")
    /\ UNCHANGED <<thread, lock, message, active, cancelled>>

GatewayFailsUnnamed(r) ==
    /\ handler[r].phase = "relaying"
    /\ handler' = [handler EXCEPT ![r].phase = "closing", ![r].status = "failed"]
    /\ UNCHANGED <<thread, lock, message, active, cancelled>>

\* The gateway cannot be reached, refuses, or breaks off.
GatewayFails(r) ==
    /\ handler[r].phase = "relaying"
    /\ handler' = [handler EXCEPT ![r].phase = "closing", ![r].status = "error"]
    /\ UNCHANGED <<thread, lock, message, active, cancelled>>

ClientLeaves(r) ==
    /\ "leave" \in Disturbances
    /\ handler[r].phase = "relaying"
    /\ handler' = [handler EXCEPT ![r].phase = "closing", ![r].status = "cancelled"]
    /\ UNCHANGED <<thread, lock, message, active, cancelled>>

WriteOverTheOld(r) ==
    /\ handler[r].phase \in {"closing", "detached"}
    /\ LET m == IF handler[r].kind = "regenerate" THEN handler[r].target ELSE Assistant(r)
       IN message' = [message EXCEPT ![m].status = handler[r].status,
                                     ![m].text = handler[r].said]
    /\ Becomes(r, IF handler[r].phase = "closing" THEN "written" ELSE "over")
    /\ UNCHANGED <<thread, lock, active, cancelled>>

WriteDropsTheWords(r) ==
    /\ handler[r].phase \in {"closing", "detached"}
    /\ message' = [message EXCEPT
          ![Assistant(r)].status = handler[r].status,
          ![Assistant(r)].text = IF handler[r].status = "error" THEN 0 ELSE handler[r].said]
    /\ Becomes(r, IF handler[r].phase = "closing" THEN "written" ELSE "over")
    /\ UNCHANGED <<thread, lock, active, cancelled>>

\* _write commits: finalize_assistant_message, on a row still streaming.
Write(r) ==
    /\ handler[r].phase \in {"closing", "detached"}
    /\ message' = IF message[Assistant(r)].status = "streaming"
                  THEN [message EXCEPT ![Assistant(r)].status = handler[r].status,
                                       ![Assistant(r)].text = handler[r].said]
                  ELSE message
    /\ Becomes(r, IF handler[r].phase = "closing" THEN "written" ELSE "over")
    /\ UNCHANGED <<thread, lock, active, cancelled>>

\* The database refuses: logged, and the row stays as it is.
WriteFails(r) ==
    /\ "database" \in Disturbances
    /\ handler[r].phase \in {"closing", "detached"}
    /\ Becomes(r, IF handler[r].phase = "closing" THEN "written" ELSE "over")
    /\ UNCHANGED <<thread, lock, message, active, cancelled>>

FinishAbandonsTheWrite(r) ==
    /\ \/ handler[r].phase = "written"
       \/ handler[r].phase = "closing" /\ "leave" \in Disturbances
    /\ Becomes(r, "over")
    /\ active' = active \ {r}
    /\ cancelled' = [cancelled EXCEPT ![r] = "no"]
    /\ UNCHANGED <<thread, lock, message>>

FinishDropsTheConversation(r) ==
    /\ handler[r].phase = "written"
    /\ Becomes(r, "over")
    /\ active' = {q \in active : handler[q].instance # handler[r].instance}
    /\ cancelled' = [cancelled EXCEPT ![r] = "no"]
    /\ UNCHANGED <<thread, lock, message>>

(***************************************************************************)
(* The registry forgets the turn, once it is written or, when its client   *)
(* has left and the shielded write is no longer waited for, before.        *)
(***************************************************************************)
Finish(r) ==
    /\ \/ handler[r].phase = "written"
       \/ handler[r].phase = "closing" /\ "leave" \in Disturbances
    /\ Becomes(r, IF handler[r].phase = "written" THEN "over" ELSE "detached")
    /\ active' = active \ {r}
    /\ cancelled' = [cancelled EXCEPT ![r] = "no"]
    /\ UNCHANGED <<thread, lock, message>>

-----------------------------------------------------------------------------
\* cancel_generation, on the instance the request happens to reach.
Cancel(i) ==
    /\ "cancel" \in Disturbances
    /\ ~thread.deleted
    /\ cancelled' = [r \in Requests |->
          IF r \in active /\ handler[r].instance = i THEN "fresh" ELSE cancelled[r]]
    /\ UNCHANGED <<thread, lock, message, handler, active>>

\* CANCEL_TTL_SECONDS pass after a cancellation.
Age(r) ==
    /\ cancelled[r] = "fresh"
    /\ cancelled' = [cancelled EXCEPT ![r] = "stale"]
    /\ UNCHANGED <<thread, lock, message, handler, active>>

\* An instance dies: its transactions roll back, its registry and its pending
\* writes are gone.
Crash(i) ==
    /\ "crash" \in Disturbances
    /\ LET lost == {r \in Requests : /\ handler[r].instance = i
                                     /\ handler[r].phase \notin {"idle", "over"}}
       IN /\ lost # {}
          /\ handler' = [r \in Requests |->
                IF r \in lost THEN [handler[r] EXCEPT !.phase = "over"] ELSE handler[r]]
          /\ lock' = IF lock \in lost THEN NoRequest ELSE lock
    /\ active' = {r \in active : handler[r].instance # i}
    /\ cancelled' = [r \in Requests |->
          IF handler[r].instance = i THEN "no" ELSE cancelled[r]]
    /\ UNCHANGED <<thread, message>>

-----------------------------------------------------------------------------
\* What the database and the handlers of a request do on their own.
Progress(r) ==
    \/ Reserve(r) \/ FindsNothing(r) \/ Patch(r)
    \/ CommitTurn(r) \/ CommitPatch(r) \/ Rollback(r)
    \/ Begin(r) \/ Announce(r)
    \/ Write(r) \/ WriteFails(r) \/ Finish(r)

Streaming(r) ==
    \/ \E chunk \in {"words", "error", "other"} : Relay(r, chunk)
    \/ StreamEnds(r) \/ GatewayFails(r)

Init ==
    /\ thread = [message_count |-> 0, title |-> "none", mode |-> "auto",
                 deleted |-> FALSE]
    /\ lock = NoRequest
    /\ message = [m \in Messages |-> [sequence |-> 0, status |-> "absent",
                                      text |-> 0, parent |-> NoMessage]]
    /\ \E i \in Instances : handler = [r \in Requests |->
          [kind |-> "send", instance |-> i, phase |-> "idle", read |-> thread,
           target |-> NoMessage, prompt |-> {}, sequence |-> 0, said |-> 0,
           status |-> "complete"]]
    /\ active = {}
    /\ cancelled = [r \in Requests |-> "no"]

Next ==
    \/ \E r \in Requests :
          \/ \E i \in Instances :
                \/ \E kind \in Kind : Open(r, kind, i)
                \/ \E m \in Messages : Regenerate(r, i, m)
          \/ Progress(r) \/ Streaming(r)
          \/ LeavesEarly(r) \/ ClientLeaves(r) \/ Age(r)
    \/ \E i \in Instances : Cancel(i) \/ Crash(i)

Spec == Init /\ [][Next]_chatVars

(***************************************************************************)
(* Fairness.  Handlers, transactions and pending writes go on while their  *)
(* instance lives; a request to the gateway ends (it has a timeout).  Who  *)
(* waits for the row's lock gets it, for Postgres queues the waiters.      *)
(***************************************************************************)
Fairness ==
    \A r \in Requests :
        /\ WF_chatVars(Progress(r)) /\ WF_chatVars(Streaming(r))
        /\ SF_chatVars(Reserve(r) \/ FindsNothing(r) \/ Patch(r))

FairSpec == Spec /\ Fairness

-----------------------------------------------------------------------------
(***************************************************************************)
(* The messages of a conversation are numbered 1, 2, 3, ... without a gap  *)
(* or a repetition, whoever writes at the same time, rolls back or dies    *)
(* (conversations.py:239-255; the UNIQUE constraint never has to step in). *)
(***************************************************************************)
Numbered ==
    /\ \A m, n \in Present : message[m].sequence = message[n].sequence => m = n
    /\ {message[m].sequence : m \in Present} = 1..thread.message_count

(***************************************************************************)
(* A model is only ever given settled history: what it is prompted with is *)
(* complete, stays so for as long as the request lives, comes before its   *)
(* own answer and, when it answers again, before what it replaces; never   *)
(* half an answer, a failed or a cancelled one (conversations.py:359-374). *)
(***************************************************************************)
PromptsAreSettled ==
    \A r \in Requests :
        handler[r].phase \in {"retrieving", "committed"} \cup Running =>
            \A m \in handler[r].prompt \ {User(r)} :
                /\ message[m].status = "complete" /\ message[m].text > 0
                /\ message[m].sequence < handler[r].sequence
                /\ handler[r].kind = "regenerate" =>
                      message[m].sequence < message[handler[r].target].sequence

(***************************************************************************)
(* What an answer replaces is an answer that had ended and comes before    *)
(* it, however long the regeneration waited for the lock                   *)
(* (routers/conversations.py:345-370).                                     *)
(***************************************************************************)
ReplacesWhatEnded ==
    \A m \in Present :
        LET old == message[m].parent IN
        old # NoMessage =>
            /\ old[2] = "assistant" /\ message[old].status \in Final
            /\ message[old].sequence < message[m].sequence

(***************************************************************************)
(* An answer that has ended, however it ended, holds all the text that was *)
(* relayed to its client (test_conversations.py:5, chat_stream.py:10-13).  *)
(***************************************************************************)
KeepsEveryWord ==
    \A r \in Requests :
        message[Assistant(r)].status \in Final =>
            message[Assistant(r)].text = handler[r].said

(***************************************************************************)
(* A turn that is being relayed can be cancelled by who reaches its        *)
(* instance, though other turns of the conversation end meanwhile; and a   *)
(* cancellation does not outlive the registration of the turn it is for,   *)
(* so it never stops another (cancellation.py:27-58).                      *)
(***************************************************************************)
CancelsReachTheRunning ==
    \A r \in Requests :
        /\ handler[r].phase = "relaying" => r \in active
        /\ cancelled[r] # "no" => r \in active

-----------------------------------------------------------------------------
\* The message with a number, as the reader of the transcript sees it.
MessageAt(i) == CHOOSE m \in Present : message[m].sequence = i

EntryOf(m) ==
    [role |-> m[2], status |-> message[m].status, text |-> message[m].text]

Log == [i \in 1..thread.message_count |-> EntryOf(MessageAt(i))]

Kept == INSTANCE Transcript WITH
    log <- Log, closed <- thread.deleted, Words <- 0..MaxWords

(***************************************************************************)
(* The conversation is an append-only log: an answer right behind its      *)
(* question, closed once and unchanged ever after, and nothing added once  *)
(* the conversation is deleted.                                            *)
(***************************************************************************)
KeepsTranscript == Kept!TranscriptSpec

(***************************************************************************)
(* Where no instance dies and the database answers, a turn whose stream    *)
(* was begun to be relayed is written down as ended, whatever the gateway, *)
(* the client and the other handlers do (chat_stream.py:157-173).          *)
(***************************************************************************)
RelayedTurnsEnd ==
    \A r \in Requests :
        handler[r].phase = "relaying" ~> message[Assistant(r)].status \in Final

(***************************************************************************)
(* No handler waits for the conversation's row forever: who holds the lock *)
(* commits, rolls back or dies.                                            *)
(***************************************************************************)
NobodyWaitsForever ==
    \A r \in Requests :
        handler[r].phase = "waiting" ~> handler[r].phase # "waiting"

-----------------------------------------------------------------------------
(***************************************************************************)
(* chat_stream.py:10-13, as it is written: a turn is always finalized,     *)
(* also when the user closes the tab.                                      *)
(***************************************************************************)
AlwaysFinalized ==
    \A m \in Messages : message[m].status = "streaming" ~> message[m].status \in Final

=============================================================================
