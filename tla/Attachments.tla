---------------------------- MODULE Attachments -----------------------------
(***************************************************************************)
(* The attachments of the control plane (services/api): the handlers that  *)
(* upload, download and delete a file, the part of a send that binds files *)
(* to its message, and the object store, which no transaction covers.      *)
(*                                                                         *)
(* Rows are what Postgres has committed; what a handler has written and    *)
(* not committed is in its own state, and keeps the lock on the row.       *)
(* Handlers run on any number of instances and interleave at every await.  *)
(* An instance that dies, a lost connection and a failed commit all roll a *)
(* handler's transaction back; what it did to the object store stays.  The *)
(* dependency that owns the transaction commits it after the answer has    *)
(* been sent.                                                              *)
(*                                                                         *)
(* Every handler acts for the user who owns the conversations and the      *)
(* files: another user's are not found, which changes nothing.  A request  *)
(* that is refused before it has written anything changes nothing either.  *)
(***************************************************************************)
EXTENDS Naturals, FiniteSets

CONSTANTS
    Threads,        \* conversations
    Files,          \* uploads; each has an id and a storage key of its own
    Messages,       \* sends that name files, by their user message
    Deletes,        \* requests to delete a file
    Downloads,      \* requests to download a file
    ThreadOf,       \* the conversation each file and message is for
    Nobody,         \* no message: the file has not been sent
    NoFile,         \* no file yet
    Limit,          \* attachment_max_per_message
    Disturbances    \* which of "database", "store" may fail

ASSUME AttachmentsAssumption ==
    /\ ThreadOf \in [Files \cup Messages -> Threads]
    /\ IsFiniteSet(Files)
    /\ Nobody \notin Messages
    /\ NoFile \notin Files
    /\ Limit \in Nat \ {0}
    /\ Disturbances \subseteq {"database", "store"}

VARIABLES
    deleted,    \* the conversations whose deleted_at is set
    row,        \* chat.attachments, as committed
    object,     \* the files whose object is in the store
    upload,     \* the phase of each upload
    send,       \* each send: its phase and the files it names
    removal,    \* each delete: its phase, its file, and whether it has the row
    download    \* each download: its phase and its file

attachmentVars == <<deleted, row, object, upload, send, removal, download>>

Attachment == [stored : BOOLEAN, message : Messages \cup {Nobody}]

UploadPhase == {"idle", "counted", "put", "answered", "done", "failed"}
SendState == [phase : {"idle", "bound", "sent", "failed"}, files : SUBSET Files]
RemovalState ==
    [phase : {"idle", "read", "removed", "wiped", "done", "failed"},
     file : Files \cup {NoFile}, holds : BOOLEAN]
DownloadState == [phase : {"idle", "found", "whole", "missing"}, file : Files \cup {NoFile}]

\* Types: rows, objects and handlers are what the schema and the handlers allow.
AttachmentsTypeOK ==
    /\ deleted \in SUBSET Threads
    /\ row \in [Files -> Attachment]
    /\ object \in SUBSET Files
    /\ upload \in [Files -> UploadPhase]
    /\ send \in [Messages -> SendState]
    /\ removal \in [Deletes -> RemovalState]
    /\ \A d \in Deletes : removal[d].phase # "idle" => removal[d].file \in Files
    /\ download \in [Downloads -> DownloadState]

-----------------------------------------------------------------------------
Pending(t) ==
    {f \in Files : row[f].stored /\ row[f].message = Nobody /\ ThreadOf[f] = t}

\* Who holds the lock on a file's row: a delete, or a send that has bound it.
Locked(f) ==
    \/ \E d \in Deletes : /\ removal[d].phase \in {"removed", "wiped"}
                          /\ removal[d].file = f /\ removal[d].holds
    \/ \E m \in Messages : send[m].phase = "bound" /\ f \in send[m].files

\* The lock on the conversation's row, which a send takes before it binds.
ThreadLocked(t) ==
    \E m \in Messages : send[m].phase = "bound" /\ ThreadOf[m] = t

-----------------------------------------------------------------------------
\* upload_attachment: the conversation is loaded and its pending files are
\* counted, without a lock.
Count(f) ==
    /\ upload[f] = "idle"
    /\ ThreadOf[f] \notin deleted
    /\ Cardinality(Pending(ThreadOf[f])) < Limit
    /\ upload' = [upload EXCEPT ![f] = "counted"]
    /\ UNCHANGED <<deleted, row, object, send, removal, download>>

\* The body is not acceptable (validate_upload), or the store cannot keep it.
Refuse(f) ==
    /\ upload[f] = "counted"
    /\ upload' = [upload EXCEPT ![f] = "failed"]
    /\ UNCHANGED <<deleted, row, object, send, removal, download>>

\* store.put: a temporary file renamed, so the object is there whole or not.
Put(f) ==
    /\ upload[f] = "counted"
    /\ object' = object \cup {f}
    /\ upload' = [upload EXCEPT ![f] = "put"]
    /\ UNCHANGED <<deleted, row, send, removal, download>>

AnswerWithoutBytes(f) ==
    /\ upload[f] \in {"counted", "put"}
    /\ upload' = [upload EXCEPT ![f] = "answered"]
    /\ UNCHANGED <<deleted, row, object, send, removal, download>>

\* The row is inserted, and the client has its id.
Answer(f) ==
    /\ upload[f] = "put"
    /\ upload' = [upload EXCEPT ![f] = "answered"]
    /\ UNCHANGED <<deleted, row, object, send, removal, download>>

CommitUpload(f) ==
    /\ upload[f] = "answered"
    /\ row' = [row EXCEPT ![f] = [stored |-> TRUE, message |-> Nobody]]
    /\ upload' = [upload EXCEPT ![f] = "done"]
    /\ UNCHANGED <<deleted, object, send, removal, download>>

LoseUpload(f) ==
    /\ "database" \in Disturbances
    /\ upload[f] \in {"put", "answered"}
    /\ upload' = [upload EXCEPT ![f] = "failed"]
    /\ UNCHANGED <<deleted, row, object, send, removal, download>>

-----------------------------------------------------------------------------
AvailableAnywhere(m, f) == row[f].stored /\ row[f].message = Nobody

\* A file a send may bind: pending, and of the conversation of the message.
Available(m, f) ==
    row[f].stored /\ row[f].message = Nobody /\ ThreadOf[f] = ThreadOf[m]

BindWhatItFinds(m, named) ==
    /\ send[m].phase = "idle"
    /\ named # {}
    /\ \A f \in named : upload[f] \in {"answered", "done"}
    /\ ThreadOf[m] \notin deleted
    /\ ~ThreadLocked(ThreadOf[m])
    /\ \E f \in named : Available(m, f)
    /\ \A f \in named : ~Locked(f)
    /\ send' = [send EXCEPT ![m] = [phase |-> "bound", files |-> named]]
    /\ UNCHANGED <<deleted, row, object, upload, removal, download>>

\* append_user_message, which holds the conversation's row, and _attach: the
\* UPDATE waits for the rows that others have locked, and unless it finds every
\* file named, the send is rolled back.
Bind(m, named) ==
    /\ send[m].phase = "idle"
    /\ named # {}
    /\ \A f \in named : upload[f] \in {"answered", "done"}
    /\ ThreadOf[m] \notin deleted
    /\ ~ThreadLocked(ThreadOf[m])
    /\ \A f \in named : Available(m, f) /\ ~Locked(f)
    /\ send' = [send EXCEPT ![m] = [phase |-> "bound", files |-> named]]
    /\ UNCHANGED <<deleted, row, object, upload, removal, download>>

CommitSend(m) ==
    /\ send[m].phase = "bound"
    /\ row' = [f \in Files |->
                  IF f \in send[m].files THEN [row[f] EXCEPT !.message = m]
                  ELSE row[f]]
    /\ send' = [send EXCEPT ![m].phase = "sent"]
    /\ UNCHANGED <<deleted, object, upload, removal, download>>

LoseSend(m) ==
    /\ "database" \in Disturbances
    /\ send[m].phase = "bound"
    /\ send' = [send EXCEPT ![m].phase = "failed"]
    /\ UNCHANGED <<deleted, row, object, upload, removal, download>>

\* soft_delete: the conversation is marked; its files and objects stay.
DeleteThread(t) ==
    /\ t \notin deleted
    /\ ~ThreadLocked(t)
    /\ deleted' = deleted \cup {t}
    /\ UNCHANGED <<row, object, upload, send, removal, download>>

-----------------------------------------------------------------------------
\* delete_attachment: the row is read, and refused if it has been sent.
ReadForDelete(d, f) ==
    /\ removal[d].phase = "idle"
    /\ row[f].stored
    /\ row[f].message = Nobody
    /\ removal' = [removal EXCEPT ![d] =
                      [phase |-> "read", file |-> f, holds |-> FALSE]]
    /\ UNCHANGED <<deleted, row, object, upload, send, download>>

\* DELETE ... WHERE id = ..., which waits for the row, and does not look at
\* message_id again.  A row that is gone by then is no error.
DeleteRow(d) ==
    LET f == removal[d].file IN
    /\ removal[d].phase = "read"
    /\ ~Locked(f)
    /\ removal' = [removal EXCEPT ![d] =
                      [@ EXCEPT !.phase = "removed", !.holds = row[f].stored]]
    /\ UNCHANGED <<deleted, row, object, upload, send, download>>

\* store.delete, before the commit.
Wipe(d) ==
    /\ removal[d].phase = "removed"
    /\ object' = object \ {removal[d].file}
    /\ removal' = [removal EXCEPT ![d].phase = "wiped"]
    /\ UNCHANGED <<deleted, row, upload, send, download>>

WipeFailsUnnoticed(d) ==
    /\ "store" \in Disturbances
    /\ removal[d].phase = "removed"
    /\ removal' = [removal EXCEPT ![d].phase = "wiped"]
    /\ UNCHANGED <<deleted, row, object, upload, send, download>>

WipeFails(d) ==
    /\ "store" \in Disturbances
    /\ removal[d].phase = "removed"
    /\ removal' = [removal EXCEPT ![d].phase = "failed"]
    /\ UNCHANGED <<deleted, row, object, upload, send, download>>

CommitDelete(d) ==
    LET f == removal[d].file IN
    /\ removal[d].phase = "wiped"
    /\ row' = IF removal[d].holds
              THEN [row EXCEPT ![f] = [stored |-> FALSE, message |-> Nobody]]
              ELSE row
    /\ removal' = [removal EXCEPT ![d].phase = "done"]
    /\ UNCHANGED <<deleted, object, upload, send, download>>

LoseDeleteUnnoticed(d) ==
    /\ "database" \in Disturbances
    /\ removal[d].phase \in {"removed", "wiped"}
    /\ removal' = [removal EXCEPT ![d].phase = "lost"]
    /\ UNCHANGED <<deleted, row, object, upload, send, download>>

LoseDelete(d) ==
    /\ "database" \in Disturbances
    /\ removal[d].phase \in {"removed", "wiped"}
    /\ removal' = [removal EXCEPT ![d].phase = "failed"]
    /\ UNCHANGED <<deleted, row, object, upload, send, download>>

-----------------------------------------------------------------------------
\* download_attachment finds the row; the object is opened when the body is
\* streamed, after the status has been sent.
Find(g, f) ==
    /\ download[g].phase = "idle"
    /\ row[f].stored
    /\ download' = [download EXCEPT ![g] = [phase |-> "found", file |-> f]]
    /\ UNCHANGED <<deleted, row, object, upload, send, removal>>

OpenObject(g) ==
    /\ download[g].phase = "found"
    /\ download' = [download EXCEPT ![g].phase =
                       IF download[g].file \in object THEN "whole" ELSE "missing"]
    /\ UNCHANGED <<deleted, row, object, upload, send, removal>>

-----------------------------------------------------------------------------
Init ==
    /\ deleted = {}
    /\ row = [f \in Files |-> [stored |-> FALSE, message |-> Nobody]]
    /\ object = {}
    /\ upload = [f \in Files |-> "idle"]
    /\ send = [m \in Messages |-> [phase |-> "idle", files |-> {}]]
    /\ removal = [d \in Deletes |-> [phase |-> "idle", file |-> NoFile, holds |-> FALSE]]
    /\ download = [g \in Downloads |-> [phase |-> "idle", file |-> NoFile]]

UploadStep(f) ==
    Refuse(f) \/ Put(f) \/ Answer(f) \/ CommitUpload(f) \/ LoseUpload(f)

SendStep(m) == CommitSend(m) \/ LoseSend(m)

DeleteStep(d) ==
    DeleteRow(d) \/ Wipe(d) \/ WipeFails(d) \/ CommitDelete(d) \/ LoseDelete(d)

Next ==
    \/ \E f \in Files : Count(f) \/ UploadStep(f)
    \/ \E m \in Messages, named \in SUBSET Files : Bind(m, named)
    \/ \E m \in Messages : SendStep(m)
    \/ \E t \in Threads : DeleteThread(t)
    \/ \E d \in Deletes, f \in Files : ReadForDelete(d, f)
    \/ \E d \in Deletes : DeleteStep(d)
    \/ \E g \in Downloads : (\E f \in Files : Find(g, f)) \/ OpenObject(g)

Spec == Init /\ [][Next]_attachmentVars

-----------------------------------------------------------------------------
(***************************************************************************)
(* Bytes behind rows: a file that has a row has its bytes, unless a delete *)
(* has wiped them and was lost before its commit, or is about to commit.   *)
(* Nothing else (a failed upload, a send, a rollback) parts the two.       *)
(* (routers/attachments.py: put before insert, delete before commit)       *)
(***************************************************************************)
BytesBehindRows ==
    \A f \in Files : row[f].stored /\ f \notin object =>
        \E d \in Deletes : removal[d].file = f /\ removal[d].phase \in {"wiped", "failed"}

(***************************************************************************)
(* Nothing left behind: once a delete has committed, neither the row nor   *)
(* the bytes of its file are there or come back, whatever other deletes    *)
(* and sends of the file were under way.  (delete_attachment)              *)
(***************************************************************************)
NothingLeftBehind ==
    \A d \in Deletes : removal[d].phase = "done" =>
        ~row[removal[d].file].stored /\ removal[d].file \notin object

(***************************************************************************)
(* Sent whole: a message that has been sent carries every file it named,   *)
(* but for those that a racing delete took; no other message carries any.  *)
(* (conversations.py, _attach)                                             *)
(***************************************************************************)
SentWhole ==
    \A m \in Messages : send[m].phase = "sent" => \A f \in send[m].files :
        \/ row[f] = [stored |-> TRUE, message |-> m]
        \/ \E d \in Deletes : removal[d].file = f /\ removal[d].phase = "done"

(***************************************************************************)
(* The files of a conversation are a cabinet: filed once, taken by a       *)
(* message of their own conversation all together, removed for good.  All  *)
(* else, among it every failure, is invisible to whoever reads the rows.   *)
(***************************************************************************)
Place ==
    [f \in Files |-> IF row[f].stored THEN "filed"
                     ELSE IF upload[f] = "done" THEN "gone" ELSE "nowhere"]

Abstract == INSTANCE Cabinet WITH
    place <- Place, carrier <- [f \in Files |-> row[f].message]

KeepsCabinet == Abstract!CabinetSpec

=============================================================================
