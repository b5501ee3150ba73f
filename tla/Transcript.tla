----------------------------- MODULE Transcript -----------------------------
(***************************************************************************)
(* What a conversation promises its reader, with no word about rows,       *)
(* locks, requests or instances: a numbered log that only grows, by a      *)
(* question with its answer right behind it or by another answer; an       *)
(* answer is closed at most once and then never changes; and nothing is    *)
(* added to a conversation that has been deleted.  Module Chat implements  *)
(* this specification.                                                     *)
(***************************************************************************)
EXTENDS Sequences, Naturals

CONSTANT Words   \* how much text an answer may hold

VARIABLES
    log,     \* the entries [role, status, text]
    closed   \* the conversation has been deleted

transcriptVars == <<log, closed>>

Question == [role |-> "user", status |-> "complete", text |-> 1]
OpenAnswer == [role |-> "assistant", status |-> "streaming", text |-> 0]
Closings ==
    [role : {"assistant"}, status : {"complete", "error", "cancelled"}, text : Words]

Write(entries) ==
    /\ ~closed
    /\ log' = log \o entries
    /\ UNCHANGED closed

Conclude(i, answer) ==
    /\ log[i] = OpenAnswer
    /\ log' = [log EXCEPT ![i] = answer]
    /\ UNCHANGED closed

Close ==
    /\ closed' = TRUE
    /\ UNCHANGED log

TranscriptInit == log = <<>> /\ closed = FALSE

TranscriptNext ==
    \/ \E entries \in {<<Question, OpenAnswer>>, <<OpenAnswer>>} : Write(entries)
    \/ \E i \in 1..Len(log), answer \in Closings : Conclude(i, answer)
    \/ Close

TranscriptSpec == TranscriptInit /\ [][TranscriptNext]_transcriptVars

=============================================================================
