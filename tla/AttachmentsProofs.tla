------------------------- MODULE AttachmentsProofs --------------------------
(***************************************************************************)
(* Theorems about module Attachments, for every set of conversations,      *)
(* files, messages, deletes and downloads, and whatever fails.             *)
(***************************************************************************)
EXTENDS Attachments, TLAPS

\* A delete that has written to the row, or to the store.
Removing == {"removed", "wiped"}

\* The life of a file: its object is there when its row is about to be, and only
\* a file that has been filed is deleted.
FileInv ==
    /\ \A f \in Files : upload[f] \in {"put", "answered"} => f \in object
    /\ \A f \in Files : row[f].stored => upload[f] = "done"
    /\ \A f \in Files : ~row[f].stored => row[f].message = Nobody
    /\ \A d \in Deletes : removal[d].phase # "idle" => upload[removal[d].file] = "done"

\* A delete that did not find the row will not find it later, and one that has
\* wiped the object will not find that.
DeleteInv ==
    \A d \in Deletes :
        /\ removal[d].phase \in Removing /\ ~removal[d].holds =>
              ~row[removal[d].file].stored
        /\ removal[d].phase \in {"wiped", "done"} => removal[d].file \notin object
        /\ removal[d].phase = "done" => ~row[removal[d].file].stored

\* A send that has bound its files has them to itself until it ends.
BoundFiles ==
    \A m \in Messages, f \in Files : send[m].phase = "bound" /\ f \in send[m].files =>
        row[f] = [stored |-> TRUE, message |-> Nobody] /\ ThreadOf[f] = ThreadOf[m]

BoundAlone ==
    \A m \in Messages, f \in Files : send[m].phase = "bound" /\ f \in send[m].files =>
        /\ \A d \in Deletes : removal[d].file = f /\ removal[d].holds =>
              removal[d].phase \notin Removing
        /\ \A n \in Messages : n # m /\ send[n].phase = "bound" => f \notin send[n].files

CarriedBySent ==
    \A m \in Messages, f \in Files : row[f].message = m => send[m].phase = "sent"

BindInv == BoundFiles /\ BoundAlone /\ CarriedBySent

(***************************************************************************)
(* Types: no handler leaves a row, a request or an object in a state that  *)
(* the schema does not know.                                               *)
(***************************************************************************)
THEOREM AttachmentsTypeCorrect == Spec => []AttachmentsTypeOK
<1>1. Init => AttachmentsTypeOK
  BY DEF Init, AttachmentsTypeOK, Attachment, UploadPhase, SendState, RemovalState, DownloadState
<1>2. AttachmentsTypeOK /\ [Next]_attachmentVars => AttachmentsTypeOK'
  <2> SUFFICES ASSUME AttachmentsTypeOK, [Next]_attachmentVars PROVE AttachmentsTypeOK'
    OBVIOUS
  <2> USE DEF AttachmentsTypeOK, Attachment, UploadPhase, SendState, RemovalState, DownloadState
  <2>1. ASSUME NEW f \in Files, Count(f) \/ UploadStep(f) PROVE AttachmentsTypeOK'
    <3>1. CASE CommitUpload(f)
      <4>1. row' \in [Files -> Attachment]
        BY <3>1 DEF CommitUpload
      <4> QED BY <3>1, <4>1 DEF CommitUpload
    <3> QED BY <2>1, <3>1 DEF Count, UploadStep, Refuse, Put, Answer, LoseUpload
  <2>2. ASSUME NEW m \in Messages, NEW named \in SUBSET Files, Bind(m, named)
        PROVE AttachmentsTypeOK'
    <3>1. send' \in [Messages -> SendState]
      BY <2>2 DEF Bind
    <3> QED BY <2>2, <3>1 DEF Bind
  <2>3. ASSUME NEW m \in Messages, CommitSend(m) PROVE AttachmentsTypeOK'
    <3>1. row' \in [Files -> Attachment]
      <4> SUFFICES ASSUME NEW f \in Files
                   PROVE [row[f] EXCEPT !.message = m] \in Attachment
        BY <2>3 DEF CommitSend
      <4> QED OBVIOUS
    <3>2. [send[m] EXCEPT !.phase = "sent"] \in SendState
      OBVIOUS
    <3>3. send' = [send EXCEPT ![m] = [send[m] EXCEPT !.phase = "sent"]]
      BY <2>3 DEF CommitSend
    <3>4. send' \in [Messages -> SendState]
      <4> HIDE DEF SendState
      <4> QED BY <3>2, <3>3
    <3> QED BY <2>3, <3>1, <3>4 DEF CommitSend
  <2>4. ASSUME NEW m \in Messages, LoseSend(m) PROVE AttachmentsTypeOK'
    BY <2>4 DEF LoseSend
  <2>5. ASSUME NEW t \in Threads, DeleteThread(t) PROVE AttachmentsTypeOK'
    BY <2>5 DEF DeleteThread
  <2>6. ASSUME NEW d \in Deletes, NEW f \in Files, ReadForDelete(d, f)
        PROVE AttachmentsTypeOK'
    <3>1. removal' \in [Deletes -> RemovalState]
      BY <2>6 DEF ReadForDelete
    <3> QED BY <2>6, <3>1 DEF ReadForDelete
  <2>7. ASSUME NEW d \in Deletes, DeleteStep(d) PROVE AttachmentsTypeOK'
    <3>1. CASE DeleteRow(d)
      <4> DEFINE found == row[removal[d].file].stored
      <4>1. removal[d].file \in Files
        BY <3>1 DEF DeleteRow
      <4>2. row[removal[d].file] \in Attachment
        BY <4>1
      <4>3. found \in BOOLEAN
        BY <4>2
      <4>4. removal' = [removal EXCEPT ![d] = [@ EXCEPT !.phase = "removed", !.holds = found]]
        BY <3>1 DEF DeleteRow
      <4> HIDE DEF found
      <4>5. removal' \in [Deletes -> RemovalState]
        BY <4>3, <4>4
      <4>6. \A e \in Deletes : removal'[e].file = removal[e].file
        BY <4>4
      <4>7. \A e \in Deletes : e # d => removal'[e] = removal[e]
        BY <4>4
      <4> QED BY <3>1, <4>1, <4>5, <4>6, <4>7 DEF DeleteRow
    <3>2. CASE Wipe(d)
      BY <3>2 DEF Wipe
    <3>3. CASE WipeFails(d)
      BY <3>3 DEF WipeFails
    <3>4. CASE LoseDelete(d)
      BY <3>4 DEF LoseDelete
    <3>5. CASE CommitDelete(d)
      <4>1. row' \in [Files -> Attachment]
        BY <3>5 DEF CommitDelete
      <4>2. removal' \in [Deletes -> RemovalState]
        BY <3>5 DEF CommitDelete
      <4>3. \A e \in Deletes : removal'[e].file = removal[e].file
        BY <3>5 DEF CommitDelete
      <4>4. \A e \in Deletes : e # d => removal'[e] = removal[e]
        BY <3>5 DEF CommitDelete
      <4> QED BY <3>5, <4>1, <4>2, <4>3, <4>4 DEF CommitDelete
    <3> QED BY <2>7, <3>1, <3>2, <3>3, <3>4, <3>5 DEF DeleteStep
  <2>8. ASSUME NEW g \in Downloads, (\E f \in Files : Find(g, f)) \/ OpenObject(g)
        PROVE AttachmentsTypeOK'
    <3>1. CASE \E f \in Files : Find(g, f)
      <4>1. download' \in [Downloads -> DownloadState]
        BY <3>1 DEF Find
      <4> QED BY <3>1, <4>1 DEF Find
    <3>2. CASE OpenObject(g)
      <4>1. download' \in [Downloads -> DownloadState]
        BY <3>2 DEF OpenObject
      <4> QED BY <3>2, <4>1 DEF OpenObject
    <3> QED BY <2>8, <3>1, <3>2
  <2>9. CASE UNCHANGED attachmentVars
    BY <2>9 DEF attachmentVars
  <2> QED BY <2>1, <2>2, <2>3, <2>4, <2>5, <2>6, <2>7, <2>8, <2>9 DEF Next, SendStep
<1> QED BY <1>1, <1>2, PTL DEF Spec


-----------------------------------------------------------------------------
\* What a step may do to a row, and what tells it from the others.
LEMMA RowStep ==
    ASSUME AttachmentsTypeOK, Next, NEW f \in Files
    PROVE  \/ row'[f] = row[f]
           \/ /\ upload[f] = "answered" /\ upload'[f] = "done"
              /\ row'[f] = [stored |-> TRUE, message |-> Nobody]
              /\ UNCHANGED <<send, removal>>
           \/ \E m \in Messages : CommitSend(m) /\ f \in send[m].files
                                  /\ row'[f] = [stored |-> row[f].stored, message |-> m]
           \/ \E d \in Deletes : /\ CommitDelete(d)
                                 /\ removal[d].holds /\ removal[d].file = f
                                 /\ row'[f] = [stored |-> FALSE, message |-> Nobody]
<1> USE DEF AttachmentsTypeOK
<1>1. ASSUME NEW g \in Files, CommitUpload(g) PROVE row'[f] = row[f] \/ f = g
  BY <1>1 DEF CommitUpload
<1>2. ASSUME CommitUpload(f)
      PROVE  /\ upload[f] = "answered" /\ upload'[f] = "done"
             /\ row'[f] = [stored |-> TRUE, message |-> Nobody]
             /\ UNCHANGED <<send, removal>>
  BY <1>2 DEF CommitUpload
<1>3. ASSUME NEW m \in Messages, CommitSend(m)
      PROVE  \/ row'[f] = row[f]
             \/ f \in send[m].files /\ row'[f] = [stored |-> row[f].stored, message |-> m]
  <2>1. row[f] \in Attachment
    OBVIOUS
  <2>2. [row[f] EXCEPT !.message = m] = [stored |-> row[f].stored, message |-> m]
    BY <2>1 DEF Attachment
  <2> QED BY <1>3, <2>2 DEF CommitSend
<1>4. ASSUME NEW d \in Deletes, CommitDelete(d)
      PROVE  \/ row'[f] = row[f]
             \/ /\ removal[d].holds /\ removal[d].file = f
                /\ row'[f] = [stored |-> FALSE, message |-> Nobody]
  BY <1>4 DEF CommitDelete
<1>5. \/ UNCHANGED row
      \/ \E g \in Files : CommitUpload(g)
      \/ \E m \in Messages : CommitSend(m)
      \/ \E d \in Deletes : CommitDelete(d)
  BY DEF Next, Count, UploadStep, Refuse, Put, Answer, LoseUpload, Bind, SendStep, LoseSend,
         DeleteThread, ReadForDelete, DeleteStep, DeleteRow, Wipe, WipeFails, LoseDelete,
         Find, OpenObject
<1> QED BY <1>1, <1>2, <1>3, <1>4, <1>5

\* What a step may do to a send.
LEMMA SendsStep ==
    ASSUME AttachmentsTypeOK, Next, NEW m \in Messages
    PROVE  \/ send'[m] = send[m]
           \/ /\ send[m].phase = "idle" /\ send'[m].phase = "bound"
              /\ \A f \in send'[m].files : Available(m, f) /\ ~Locked(f)
              /\ UNCHANGED <<row, removal>>
              /\ \A n \in Messages : n # m => send'[n] = send[n]
           \/ CommitSend(m) /\ send'[m].phase = "sent" /\ send'[m].files = send[m].files
           \/ send[m].phase = "bound" /\ send'[m].phase = "failed" /\ UNCHANGED <<row, removal>>
<1> USE DEF AttachmentsTypeOK, SendState
<1>1. ASSUME NEW n \in Messages, NEW named \in SUBSET Files, Bind(n, named)
      PROVE  \/ send'[m] = send[m]
             \/ /\ send[m].phase = "idle" /\ send'[m].phase = "bound"
                /\ \A f \in send'[m].files : Available(m, f) /\ ~Locked(f)
                /\ UNCHANGED <<row, removal>>
                /\ \A k \in Messages : k # m => send'[k] = send[k]
  BY <1>1 DEF Bind
<1>2. ASSUME NEW n \in Messages, CommitSend(n)
      PROVE  \/ send'[m] = send[m]
             \/ CommitSend(m) /\ send'[m].phase = "sent" /\ send'[m].files = send[m].files
  BY <1>2 DEF CommitSend
<1>3. ASSUME NEW n \in Messages, LoseSend(n)
      PROVE  \/ send'[m] = send[m]
             \/ send[m].phase = "bound" /\ send'[m].phase = "failed" /\ UNCHANGED <<row, removal>>
  BY <1>3 DEF LoseSend
<1>4. \/ UNCHANGED send
      \/ \E n \in Messages, named \in SUBSET Files : Bind(n, named)
      \/ \E n \in Messages : CommitSend(n) \/ LoseSend(n)
  BY DEF Next, Count, UploadStep, Refuse, Put, Answer, CommitUpload, LoseUpload, SendStep,
         DeleteThread, ReadForDelete, DeleteStep, DeleteRow, Wipe, WipeFails, CommitDelete,
         LoseDelete, Find, OpenObject
<1> QED BY <1>1, <1>2, <1>3, <1>4

\* What a step may do to a delete.
LEMMA DeletesStep ==
    ASSUME AttachmentsTypeOK, Next, NEW d \in Deletes
    PROVE  \/ removal'[d] = removal[d]
           \/ /\ removal[d].phase = "idle" /\ removal'[d].phase = "read"
              /\ ~removal'[d].holds
              /\ removal'[d].file \in Files /\ row[removal'[d].file].stored
              /\ UNCHANGED <<row, object, upload, send>>
           \/ /\ removal[d].phase = "read" /\ removal'[d].phase = "removed"
              /\ ~Locked(removal[d].file) /\ removal'[d].file = removal[d].file
              /\ removal'[d].holds = row[removal[d].file].stored
              /\ UNCHANGED <<row, object, upload, send>>
           \/ /\ removal[d].phase = "removed" /\ removal'[d].phase = "wiped"
              /\ removal'[d].file = removal[d].file /\ removal'[d].holds = removal[d].holds
              /\ object' = object \ {removal[d].file}
              /\ UNCHANGED <<row, upload, send>>
           \/ /\ CommitDelete(d) /\ removal'[d].phase = "done"
              /\ removal'[d].file = removal[d].file /\ UNCHANGED <<object, upload, send>>
           \/ /\ removal[d].phase \in Removing /\ removal'[d].phase = "failed"
              /\ removal'[d].file = removal[d].file /\ UNCHANGED <<row, object, upload, send>>
<1> USE DEF AttachmentsTypeOK, RemovalState, Removing
<1>1. ASSUME NEW e \in Deletes, NEW f \in Files, ReadForDelete(e, f), removal'[d] # removal[d]
      PROVE  /\ removal[d].phase = "idle" /\ removal'[d].phase = "read"
             /\ ~removal'[d].holds
             /\ removal'[d].file \in Files /\ row[removal'[d].file].stored
             /\ UNCHANGED <<row, object, upload, send>>
  BY <1>1 DEF ReadForDelete
<1>2. ASSUME NEW e \in Deletes, DeleteRow(e), removal'[d] # removal[d]
      PROVE  /\ removal[d].phase = "read" /\ removal'[d].phase = "removed"
             /\ ~Locked(removal[d].file) /\ removal'[d].file = removal[d].file
             /\ removal'[d].holds = row[removal[d].file].stored
             /\ UNCHANGED <<row, object, upload, send>>
  BY <1>2 DEF DeleteRow
<1>3. ASSUME NEW e \in Deletes, Wipe(e), removal'[d] # removal[d]
      PROVE  /\ removal[d].phase = "removed" /\ removal'[d].phase = "wiped"
             /\ removal'[d].file = removal[d].file /\ removal'[d].holds = removal[d].holds
             /\ object' = object \ {removal[d].file}
             /\ UNCHANGED <<row, upload, send>>
  BY <1>3 DEF Wipe
<1>4. ASSUME NEW e \in Deletes, CommitDelete(e), removal'[d] # removal[d]
      PROVE  /\ CommitDelete(d) /\ removal'[d].phase = "done"
             /\ removal'[d].file = removal[d].file /\ UNCHANGED <<object, upload, send>>
  BY <1>4 DEF CommitDelete
<1>5. ASSUME NEW e \in Deletes, WipeFails(e) \/ LoseDelete(e), removal'[d] # removal[d]
      PROVE  /\ removal[d].phase \in Removing /\ removal'[d].phase = "failed"
             /\ removal'[d].file = removal[d].file /\ UNCHANGED <<row, object, upload, send>>
  BY <1>5 DEF WipeFails, LoseDelete
<1>6. \/ UNCHANGED removal
      \/ \E e \in Deletes, f \in Files : ReadForDelete(e, f)
      \/ \E e \in Deletes : DeleteStep(e)
  BY DEF Next, Count, UploadStep, Refuse, Put, Answer, CommitUpload, LoseUpload, Bind, SendStep,
         CommitSend, LoseSend, DeleteThread, Find, OpenObject
<1> QED BY <1>1, <1>2, <1>3, <1>4, <1>5, <1>6 DEF DeleteStep

-----------------------------------------------------------------------------
\* Files, deletes and sends keep to their lives.
AttachmentsInv == AttachmentsTypeOK /\ FileInv /\ DeleteInv /\ BindInv

\* What a step may do to an upload and to the objects.
LEMMA UploadsStep ==
    ASSUME AttachmentsTypeOK, Next, NEW f \in Files
    PROVE  /\ \/ upload'[f] = upload[f]
              \/ upload[f] = "idle" /\ upload'[f] = "counted" /\ UNCHANGED <<row, object>>
              \/ upload[f] = "counted" /\ upload'[f] = "put" /\ f \in object'
              \/ upload[f] = "put" /\ upload'[f] = "answered" /\ UNCHANGED <<row, object>>
              \/ upload[f] = "answered" /\ upload'[f] = "done" /\ UNCHANGED object
              \/ upload[f] \in {"counted", "put", "answered"} /\ upload'[f] = "failed"
           /\ \/ f \in object <=> f \in object'
              \/ upload[f] = "counted" /\ upload'[f] = "put"
              \/ \E d \in Deletes : Wipe(d) /\ removal[d].file = f
<1> USE DEF AttachmentsTypeOK
<1>1. ASSUME NEW g \in Files, Count(g) \/ Refuse(g) \/ Answer(g) \/ CommitUpload(g) \/ LoseUpload(g)
      PROVE  /\ \/ upload'[f] = upload[f]
                \/ upload[f] = "idle" /\ upload'[f] = "counted" /\ UNCHANGED <<row, object>>
                \/ upload[f] = "put" /\ upload'[f] = "answered" /\ UNCHANGED <<row, object>>
                \/ upload[f] = "answered" /\ upload'[f] = "done" /\ UNCHANGED object
                \/ upload[f] \in {"counted", "put", "answered"} /\ upload'[f] = "failed"
             /\ UNCHANGED object
  BY <1>1 DEF Count, Refuse, Answer, CommitUpload, LoseUpload
<1>2. ASSUME NEW g \in Files, Put(g)
      PROVE  \/ f # g /\ upload'[f] = upload[f] /\ (f \in object <=> f \in object')
             \/ upload[f] = "counted" /\ upload'[f] = "put" /\ f \in object'
  BY <1>2 DEF Put
<1>3. ASSUME NEW d \in Deletes, Wipe(d)
      PROVE  /\ upload'[f] = upload[f]
             /\ (f \in object <=> f \in object') \/ removal[d].file = f
  BY <1>3 DEF Wipe
<1>4. \/ UNCHANGED <<upload, object>>
      \/ \E g \in Files : Count(g) \/ UploadStep(g)
      \/ \E d \in Deletes : Wipe(d)
  BY DEF Next, Bind, SendStep, CommitSend, LoseSend, DeleteThread, ReadForDelete, DeleteStep,
         DeleteRow, WipeFails, CommitDelete, LoseDelete, Find, OpenObject
<1> QED BY <1>1, <1>2, <1>3, <1>4 DEF UploadStep

LEMMA FileKept ==
    ASSUME AttachmentsInv, Next PROVE FileInv'
<1> USE DEF AttachmentsInv, FileInv
<1>1. ASSUME NEW d \in Deletes, removal'[d].phase # "idle"
      PROVE  upload'[removal'[d].file] = "done"
  <2>1. CASE removal[d].phase = "idle"
    BY <1>1, <2>1, DeletesStep, UploadsStep DEF Removing, CommitDelete
  <2>2. CASE removal[d].phase # "idle"
    <3> DEFINE f == removal[d].file
    <3>1. f \in Files /\ upload[f] = "done"
      BY <2>2 DEF AttachmentsTypeOK
    <3>2. removal'[d].file = f
      BY <2>2, DeletesStep
    <3> HIDE DEF f
    <3>3. upload'[f] = "done"
      BY <3>1, UploadsStep
    <3> QED BY <3>2, <3>3
  <2> QED BY <2>1, <2>2
<1>2. ASSUME NEW f \in Files, upload'[f] \in {"put", "answered"} PROVE f \in object'
  BY <1>2, UploadsStep DEF Wipe, AttachmentsTypeOK
<1>3. ASSUME NEW f \in Files
      PROVE  /\ row'[f].stored => upload'[f] = "done"
             /\ ~row'[f].stored => row'[f].message = Nobody
  <2>1. CASE row'[f] = row[f]
    BY <2>1, UploadsStep
  <2>2. ASSUME NEW m \in Messages, CommitSend(m), f \in send[m].files,
               row'[f] = [stored |-> row[f].stored, message |-> m]
        PROVE  row'[f].stored /\ upload'[f] = "done"
    <3>1. row[f] = [stored |-> TRUE, message |-> Nobody]
      BY <2>2 DEF BindInv, BoundFiles, CommitSend
    <3>2. row'[f] = [stored |-> TRUE, message |-> m]
      BY <2>2, <3>1
    <3>3. upload[f] = "done"
      BY <3>1
    <3> QED BY <3>2, <3>3, UploadsStep
  <2>3. CASE upload'[f] = "done" /\ row'[f] = [stored |-> TRUE, message |-> Nobody]
    BY <2>3
  <2>4. CASE row'[f] = [stored |-> FALSE, message |-> Nobody]
    BY <2>4
  <2>5. \/ row'[f] = row[f]
        \/ upload'[f] = "done" /\ row'[f] = [stored |-> TRUE, message |-> Nobody]
        \/ \E m \in Messages : CommitSend(m) /\ f \in send[m].files
                                /\ row'[f] = [stored |-> row[f].stored, message |-> m]
        \/ row'[f] = [stored |-> FALSE, message |-> Nobody]
    BY RowStep
  <2> QED BY <2>1, <2>2, <2>3, <2>4, <2>5
<1> QED BY <1>1, <1>2, <1>3

LEMMA DeleteKept ==
    ASSUME AttachmentsInv, Next PROVE DeleteInv'
<1> USE DEF AttachmentsInv
<1> SUFFICES ASSUME NEW d \in Deletes
    PROVE  /\ removal'[d].phase \in Removing /\ ~removal'[d].holds =>
                 ~row'[removal'[d].file].stored
           /\ removal'[d].phase \in {"wiped", "done"} => removal'[d].file \notin object'
           /\ removal'[d].phase = "done" => ~row'[removal'[d].file].stored
  BY DEF DeleteInv
<1>1. CASE removal'[d] = removal[d]
  <2>1. CASE removal[d].phase = "idle"
    BY <1>1, <2>1 DEF Removing
  <2>2. CASE removal[d].phase # "idle"
    <3> DEFINE f == removal[d].file
    <3>1. f \in Files /\ upload[f] = "done"
      BY <2>2 DEF AttachmentsTypeOK, FileInv
    <3>2. ~row[f].stored => ~row'[f].stored
      <4> HIDE DEF f
      <4>1. ASSUME NEW m \in Messages, CommitSend(m), f \in send[m].files
            PROVE  row[f].stored
        BY <3>1, <4>1 DEF BindInv, BoundFiles, CommitSend
      <4>2. \/ row'[f] = row[f]
            \/ upload[f] = "answered"
            \/ \E m \in Messages : CommitSend(m) /\ f \in send[m].files
            \/ row'[f] = [stored |-> FALSE, message |-> Nobody]
        BY <3>1, RowStep
      <4> QED BY <3>1, <4>1, <4>2
    <3>3. f \notin object => f \notin object'
      BY <3>1, UploadsStep DEF Wipe
    <3> QED BY <1>1, <3>2, <3>3 DEF DeleteInv
  <2> QED BY <2>1, <2>2
<1>2. CASE CommitDelete(d) /\ removal'[d].phase = "done"
           /\ removal'[d].file = removal[d].file /\ UNCHANGED <<object, upload, send>>
  <2> DEFINE f == removal[d].file
  <2>1. f \in Files /\ row \in [Files -> Attachment]
    BY <1>2 DEF AttachmentsTypeOK, CommitDelete
  <2>2. ~row'[f].stored
    BY <1>2, <2>1 DEF CommitDelete, DeleteInv, Removing
  <2> QED BY <1>2, <2>2 DEF CommitDelete, DeleteInv, Removing
<1> QED BY <1>1, <1>2, DeletesStep DEF DeleteInv, Removing, AttachmentsTypeOK

LEMMA BindKept ==
    ASSUME AttachmentsInv, Next PROVE BindInv'
<1> USE DEF AttachmentsInv, BindInv
<1>1. ASSUME NEW m \in Messages, NEW f \in Files, send'[m].phase = "bound", f \in send'[m].files
      PROVE  /\ row'[f] = [stored |-> TRUE, message |-> Nobody] /\ ThreadOf[f] = ThreadOf[m]
             /\ \A d \in Deletes : removal'[d].file = f /\ removal'[d].holds =>
                   removal'[d].phase \notin Removing
             /\ \A n \in Messages : n # m /\ send'[n].phase = "bound" => f \notin send'[n].files
  <2>1. CASE send'[m] = send[m]
    <3>1. send[m].phase = "bound" /\ f \in send[m].files
      BY <1>1, <2>1
    <3>2. row'[f] = row[f]
      <4>1. row[f].stored /\ upload[f] = "done"
        BY <3>1 DEF FileInv, BoundFiles
      <4>2. ASSUME NEW n \in Messages, CommitSend(n), f \in send[n].files PROVE FALSE
        <5>1. n = m
          BY <3>1, <4>2 DEF BoundAlone, CommitSend
        <5> QED BY <2>1, <3>1, <4>2, <5>1 DEF CommitSend, AttachmentsTypeOK, SendState
      <4>3. ASSUME NEW d \in Deletes, CommitDelete(d), removal[d].holds, removal[d].file = f
            PROVE  FALSE
        BY <3>1, <4>3 DEF BoundAlone, CommitDelete, Removing
      <4> QED BY <4>1, <4>2, <4>3, RowStep
    <3>3. ASSUME NEW d \in Deletes, removal'[d].file = f, removal'[d].holds
          PROVE  removal'[d].phase \notin Removing
      BY <3>1, <3>3, DeletesStep DEF BoundAlone, Removing, Locked
    <3>4. ASSUME NEW n \in Messages, n # m, send'[n].phase = "bound"
          PROVE  f \notin send'[n].files
      BY <3>1, <3>4, SendsStep DEF BoundAlone, Locked
    <3> QED BY <3>1, <3>2, <3>3, <3>4 DEF BoundFiles
  <2>2. CASE /\ send'[m].phase = "bound"
             /\ \A g \in send'[m].files : Available(m, g) /\ ~Locked(g)
             /\ UNCHANGED <<row, removal>>
             /\ \A n \in Messages : n # m => send'[n] = send[n]
    <3>1. Available(m, f) /\ ~Locked(f)
      BY <1>1, <2>2
    <3>2. row[f] = [stored |-> TRUE, message |-> Nobody]
      BY <3>1 DEF Available, AttachmentsTypeOK, Attachment
    <3> QED BY <2>2, <3>1, <3>2 DEF Available, Locked, Removing
  <2> QED BY <1>1, <2>1, <2>2, SendsStep
<1>2. ASSUME NEW m \in Messages, NEW f \in Files, row'[f].message = m
      PROVE  send'[m].phase = "sent"
  <2>1. CASE row'[f] = row[f]
    <3>1. send[m].phase = "sent"
      BY <1>2, <2>1 DEF CarriedBySent
    <3> QED BY <3>1, SendsStep DEF CommitSend
  <2>2. CASE row'[f].message = Nobody
    BY <1>2, <2>2, AttachmentsAssumption
  <2>3. ASSUME NEW n \in Messages, CommitSend(n), f \in send[n].files,
               row'[f] = [stored |-> row[f].stored, message |-> n]
        PROVE  send'[m].phase = "sent"
    <3>1. m = n
      <4>1. row[f] = [stored |-> TRUE, message |-> Nobody]
        BY <2>3 DEF BoundFiles, CommitSend
      <4>2. row'[f] = [stored |-> TRUE, message |-> n]
        BY <2>3, <4>1
      <4> QED BY <1>2, <4>2
    <3> QED BY <2>3, <3>1 DEF CommitSend, AttachmentsTypeOK, SendState
  <2>4. \/ row'[f] = row[f]
        \/ row'[f].message = Nobody
        \/ \E n \in Messages : CommitSend(n) /\ f \in send[n].files
                                /\ row'[f] = [stored |-> row[f].stored, message |-> n]
    BY RowStep
  <2> QED BY <2>1, <2>2, <2>3, <2>4
<1> QED BY <1>1, <1>2 DEF BoundFiles, BoundAlone, CarriedBySent

LEMMA Lives == Spec => []AttachmentsInv
<1>1. Init => AttachmentsInv
  BY AttachmentsAssumption
     DEF Init, AttachmentsInv, AttachmentsTypeOK, FileInv, DeleteInv, BindInv, BoundFiles, BoundAlone,
         CarriedBySent, Attachment, UploadPhase, SendState, RemovalState, DownloadState, Removing
<1>2. AttachmentsInv /\ AttachmentsTypeOK' /\ [Next]_attachmentVars => AttachmentsInv'
  <2>1. CASE Next
    BY <2>1, FileKept, DeleteKept, BindKept DEF AttachmentsInv
  <2>2. CASE UNCHANGED attachmentVars
    BY <2>2 DEF AttachmentsInv, attachmentVars, FileInv, DeleteInv, BindInv, BoundFiles, BoundAlone,
                CarriedBySent
  <2> QED BY <2>1, <2>2
<1> QED BY <1>1, <1>2, AttachmentsTypeCorrect, PTL DEF Spec

-----------------------------------------------------------------------------
(***************************************************************************)
(* Rows and bytes part only through a delete that was lost between the     *)
(* store and the commit, whatever else fails.  (put before insert, delete  *)
(* before commit: routers/attachments.py)                                  *)
(***************************************************************************)
LEMMA BytesStep ==
    ASSUME AttachmentsInv, BytesBehindRows, [Next]_attachmentVars PROVE BytesBehindRows'
<1> USE DEF AttachmentsInv
<1>1. CASE UNCHANGED attachmentVars
  BY <1>1 DEF attachmentVars, BytesBehindRows
<1>2. CASE Next
  <2> USE <1>2
  <2> SUFFICES ASSUME NEW f \in Files, row'[f].stored, f \notin object'
               PROVE  \E d \in Deletes : removal'[d].file = f
                                         /\ removal'[d].phase \in {"wiped", "failed"}
    BY DEF BytesBehindRows
  <2>1. CASE row[f].stored /\ f \notin object
    <3>1. PICK d \in Deletes : removal[d].file = f /\ removal[d].phase \in {"wiped", "failed"}
      BY <2>1 DEF BytesBehindRows
    <3>2. CASE removal'[d] = removal[d] \/ removal'[d].phase = "failed"
      BY <3>1, <3>2, DeletesStep
    <3>3. CASE CommitDelete(d)
      <4>1. f \in Files /\ row \in [Files -> Attachment]
        BY DEF AttachmentsTypeOK
      <4>2. ~row'[f].stored
        BY <3>1, <3>3, <4>1 DEF CommitDelete, DeleteInv, Removing
      <4> QED BY <4>2
    <3> QED BY <3>1, <3>2, <3>3, DeletesStep
  <2>2. CASE f \in object
    <3>1. \E d \in Deletes : Wipe(d) /\ removal[d].file = f
      <4>1. \/ f \in object <=> f \in object'
            \/ upload[f] = "counted" /\ upload'[f] = "put"
            \/ \E d \in Deletes : Wipe(d) /\ removal[d].file = f
        BY UploadsStep
      <4>2. upload'[f] = "put" => f \in object'
        BY FileKept DEF FileInv
      <4> QED BY <2>2, <4>1, <4>2
    <3>2. PICK d \in Deletes : Wipe(d) /\ removal[d].file = f
      BY <3>1
    <3>3. removal'[d].file = f /\ removal'[d].phase = "wiped"
      BY <3>2 DEF Wipe, AttachmentsTypeOK, RemovalState
    <3> QED BY <3>3
  <2>3. CASE ~row[f].stored /\ f \notin object
    <3>0. row'[f] # row[f] /\ row'[f].stored
      BY <2>3
    <3>1. \/ upload[f] = "answered"
          \/ \E m \in Messages : CommitSend(m) /\ f \in send[m].files
      <4>1. \/ row'[f] = row[f]
            \/ upload[f] = "answered"
            \/ \E m \in Messages : CommitSend(m) /\ f \in send[m].files
            \/ row'[f] = [stored |-> FALSE, message |-> Nobody]
        BY RowStep
      <4>2. row'[f] # [stored |-> FALSE, message |-> Nobody]
        BY <3>0
      <4> QED BY <3>0, <4>1, <4>2
    <3>2. CASE upload[f] = "answered"
      BY <2>3, <3>2 DEF FileInv
    <3>3. ASSUME NEW m \in Messages, CommitSend(m), f \in send[m].files PROVE FALSE
      BY <2>3, <3>3 DEF BindInv, BoundFiles, CommitSend
    <3> QED BY <3>1, <3>2, <3>3
  <2> QED BY <2>1, <2>2, <2>3
<1> QED BY <1>1, <1>2

\* A file that has a row has its bytes, but for a delete lost half-way, with any
\* number of uploads, sends and deletes and any failures.
THEOREM BytesBehindRowsHolds == Spec => []BytesBehindRows
<1>1. Init => BytesBehindRows
  BY DEF Init, BytesBehindRows
<1> QED BY <1>1, BytesStep, Lives, PTL DEF Spec

\* What a committed delete took does not come back.
THEOREM NothingLeftBehindHolds == Spec => []NothingLeftBehind
<1>1. AttachmentsInv => NothingLeftBehind
  BY DEF AttachmentsInv, DeleteInv, NothingLeftBehind
<1> QED BY <1>1, Lives, PTL

-----------------------------------------------------------------------------
LEMMA SentStep ==
    ASSUME AttachmentsInv, SentWhole, [Next]_attachmentVars PROVE SentWhole'
<1> USE DEF AttachmentsInv
<1>1. CASE UNCHANGED attachmentVars
  BY <1>1 DEF attachmentVars, SentWhole
<1>2. CASE Next
  <2> USE <1>2
  <2> SUFFICES ASSUME NEW m \in Messages, send'[m].phase = "sent", NEW f \in send'[m].files
               PROVE  \/ row'[f] = [stored |-> TRUE, message |-> m]
                      \/ \E d \in Deletes : removal'[d].file = f /\ removal'[d].phase = "done"
    BY DEF SentWhole
  <2>1. CASE send'[m] = send[m]
    <3>1. send[m].phase = "sent" /\ f \in send[m].files /\ f \in Files
      BY <2>1 DEF AttachmentsTypeOK, SendState
    <3>2. ASSUME NEW d \in Deletes, removal[d].file = f, removal[d].phase = "done"
          PROVE  removal'[d].file = f /\ removal'[d].phase = "done"
      BY <3>2, DeletesStep DEF Removing, CommitDelete
    <3>3. CASE row[f] = [stored |-> TRUE, message |-> m]
      <4>1. upload[f] # "answered"
        BY <3>1, <3>3 DEF FileInv
      <4>2. ASSUME NEW n \in Messages, CommitSend(n), f \in send[n].files PROVE FALSE
        <5>1. row[f].message = Nobody
          BY <3>1, <4>2 DEF BindInv, BoundFiles, CommitSend
        <5> QED BY <3>3, <5>1, AttachmentsAssumption
      <4>3. ASSUME NEW d \in Deletes, CommitDelete(d), removal[d].file = f
            PROVE  removal'[d].file = f /\ removal'[d].phase = "done"
        BY <4>3 DEF CommitDelete, AttachmentsTypeOK, RemovalState
      <4>4. \/ row'[f] = row[f]
            \/ upload[f] = "answered"
            \/ \E n \in Messages : CommitSend(n) /\ f \in send[n].files
            \/ \E d \in Deletes : CommitDelete(d) /\ removal[d].file = f
        BY <3>1, RowStep
      <4> QED BY <3>3, <4>1, <4>2, <4>3, <4>4
    <3> QED BY <3>1, <3>2, <3>3 DEF SentWhole
  <2>2. CASE CommitSend(m) /\ send'[m].files = send[m].files
    <3>1. f \in Files /\ row[f] = [stored |-> TRUE, message |-> Nobody]
      BY <2>2 DEF BindInv, BoundFiles, CommitSend, AttachmentsTypeOK, SendState
    <3>2. row'[f] = [row[f] EXCEPT !.message = m]
      BY <2>2, <3>1 DEF CommitSend
    <3>3. row[f] \in Attachment
      BY <3>1 DEF AttachmentsTypeOK
    <3>5. [row[f] EXCEPT !.message = m] = [stored |-> row[f].stored, message |-> m]
      BY <3>3 DEF Attachment
    <3>4. row'[f] = [stored |-> TRUE, message |-> m]
      BY <3>1, <3>2, <3>5
    <3> QED BY <3>4
  <2> QED BY <2>1, <2>2, SendsStep
<1> QED BY <1>1, <1>2

\* A message that was sent has the files it named, but for what a racing delete took.
THEOREM SentWholeHolds == Spec => []SentWhole
<1>1. Init => SentWhole
  BY DEF Init, SentWhole
<1> QED BY <1>1, SentStep, Lives, PTL DEF Spec

-----------------------------------------------------------------------------
LEMMA CabinetStep ==
    ASSUME AttachmentsInv, AttachmentsInv', [Next]_attachmentVars
    PROVE  [Abstract!CabinetNext]_(Abstract!cabinetVars)
<1> DEFINE carried == [f \in Files |-> row[f].message]
<1> USE DEF AttachmentsInv, AttachmentsTypeOK
<1>0. SUFFICES \/ Abstract!CabinetNext
               \/ Place' = Place /\ carried' = carried
  BY DEF Abstract!cabinetVars
<1>1. CASE UNCHANGED <<row, upload>>
  BY <1>1 DEF Place
<1>2. ASSUME NEW f \in Files, CommitUpload(f) PROVE Abstract!File(f)
  <2>1. Place[f] = "nowhere" /\ row[f].message = Nobody
    BY <1>2 DEF CommitUpload, FileInv, Place
  <2>2. Place' = [Place EXCEPT ![f] = "filed"]
    BY <1>2 DEF CommitUpload, Place
  <2>3. carried' = carried
    BY <1>2, <2>1 DEF CommitUpload
  <2> QED BY <2>1, <2>2, <2>3 DEF Abstract!File
<1>3. ASSUME NEW f \in Files, Count(f) \/ Refuse(f) \/ Put(f) \/ Answer(f) \/ LoseUpload(f)
      PROVE  Place' = Place /\ carried' = carried
  <2>1. UNCHANGED row
    BY <1>3 DEF Count, Refuse, Put, Answer, LoseUpload
  <2>2. \A g \in Files : upload'[g] = "done" <=> upload[g] = "done"
    BY <1>3 DEF Count, Refuse, Put, Answer, LoseUpload
  <2> QED BY <2>1, <2>2 DEF Place
<1>4. ASSUME NEW m \in Messages, CommitSend(m) PROVE Abstract!Take(m, send[m].files)
  <2> DEFINE taken == send[m].files
  <2>1. taken \in SUBSET Files
    BY DEF SendState
  <2>2. \A f \in Files : row[f].message # m
    BY <1>4 DEF CommitSend, BindInv, CarriedBySent
  <2>3. \A f \in taken : Place[f] = "filed" /\ row[f].message = Nobody /\ ThreadOf[f] = ThreadOf[m]
    BY <1>4, <2>1 DEF CommitSend, BindInv, BoundFiles, Place
  <2>4. \A f \in Files : row'[f].stored = row[f].stored
                         /\ row'[f].message = (IF f \in taken THEN m ELSE row[f].message)
    BY <1>4 DEF CommitSend, Attachment
  <2>5. Place' = Place
    BY <1>4, <2>4 DEF CommitSend, Place
  <2>6. carried' = [f \in Files |-> IF f \in taken THEN m ELSE carried[f]]
    BY <2>4
  <2> QED BY <2>2, <2>3, <2>5, <2>6, <2>1 DEF Abstract!Take
<1>5. ASSUME NEW d \in Deletes, CommitDelete(d)
      PROVE  Abstract!CabinetNext \/ (Place' = Place /\ carried' = carried)
  <2> DEFINE f == removal[d].file
  <2>1. f \in Files /\ upload[f] = "done"
    BY <1>5 DEF CommitDelete, FileInv
  <2>2. CASE removal[d].holds /\ row[f].stored
    <3>1. row' = [row EXCEPT ![f] = [stored |-> FALSE, message |-> Nobody]] /\ UNCHANGED upload
      BY <1>5, <2>2 DEF CommitDelete
    <3> HIDE DEF f
    <3>2. Place[f] = "filed"
      BY <2>1, <2>2 DEF Place
    <3>4. \A g \in Files : row'[g].stored = IF g = f THEN FALSE ELSE row[g].stored
      BY <2>1, <3>1
    <3>5. Place' = [Place EXCEPT ![f] = "gone"]
      BY <2>1, <3>1, <3>4 DEF Place
    <3>3. carried' = [carried EXCEPT ![f] = Nobody]
      BY <2>1, <3>1
    <3> QED BY <2>1, <3>2, <3>3, <3>5 DEF Abstract!Remove, Abstract!CabinetNext
  <2>3. CASE ~removal[d].holds
    BY <1>5, <2>3 DEF CommitDelete, Place
  <2>4. CASE removal[d].holds /\ ~row[f].stored
    <3>1. row' = [row EXCEPT ![f] = [stored |-> FALSE, message |-> Nobody]] /\ UNCHANGED upload
      BY <1>5, <2>4 DEF CommitDelete
    <3> HIDE DEF f
    <3>2. row[f].message = Nobody
      BY <2>1, <2>4 DEF FileInv
    <3>3. \A g \in Files : row'[g].stored = row[g].stored /\ row'[g].message = row[g].message
      <4> SUFFICES ASSUME NEW g \in Files
                   PROVE  row'[g].stored = row[g].stored /\ row'[g].message = row[g].message
        OBVIOUS
      <4>1. CASE g = f
        <5>1. row'[f] = [stored |-> FALSE, message |-> Nobody]
          BY <2>1, <3>1
        <5>2. row[f].stored = FALSE
          BY <2>1, <2>4 DEF Attachment
        <5>3. row'[f].stored = FALSE /\ row'[f].message = Nobody
          BY <5>1
        <5> QED BY <3>2, <4>1, <5>2, <5>3
      <4>2. CASE g # f
        BY <3>1, <4>2
      <4> QED BY <4>1, <4>2
    <3> QED BY <3>1, <3>3 DEF Place
  <2> QED BY <2>2, <2>3, <2>4
<1>6. \/ UNCHANGED <<row, upload>>
      \/ \E f \in Files : Count(f) \/ UploadStep(f)
      \/ \E m \in Messages : CommitSend(m)
      \/ \E d \in Deletes : CommitDelete(d)
  BY DEF Next, Bind, SendStep, LoseSend, DeleteThread, ReadForDelete, DeleteStep, DeleteRow, Wipe,
         WipeFails, LoseDelete, Find, OpenObject, attachmentVars
<1>7. \A m \in Messages : send[m].files \in SUBSET Files
  BY DEF SendState
<1>8. ASSUME NEW f \in Files, UploadStep(f)
      PROVE  Abstract!CabinetNext \/ (Place' = Place /\ carried' = carried)
  <2>1. CASE CommitUpload(f)
    BY <1>2, <2>1 DEF Abstract!CabinetNext
  <2> QED BY <1>3, <1>8, <2>1 DEF UploadStep
<1>9. ASSUME NEW m \in Messages, CommitSend(m) PROVE Abstract!CabinetNext
  <2>1. Abstract!Take(m, send[m].files)
    BY <1>4, <1>9
  <2>2. send[m].files \in SUBSET Files
    BY <1>7
  <2> QED BY <2>1, <2>2 DEF Abstract!CabinetNext, Abstract!Take
<1> HIDE DEF carried
<1> QED BY <1>1, <1>3, <1>5, <1>6, <1>8, <1>9

(***************************************************************************)
(* The rows are a cabinet: every upload, send, delete and failure of the   *)
(* handlers is a step of Cabinet or invisible in it.                       *)
(***************************************************************************)
THEOREM KeepsCabinetHolds == Spec => KeepsCabinet
<1>1. Init => Abstract!CabinetInit
  BY DEF Init, Abstract!CabinetInit, Place
<1> QED BY <1>1, CabinetStep, Lives, PTL DEF Spec, KeepsCabinet, Abstract!CabinetSpec

=============================================================================
