---------------------------- MODULE MCAttachments ---------------------------
(***************************************************************************)
(* Instances of Attachments for TLC: the files and messages of two         *)
(* conversations.  Deletes are interchangeable.                            *)
(***************************************************************************)
EXTENDS Attachments, TLC

CONSTANTS f1, f2, f3, m1, m2, t1, t2

MCThreadOf == (f1 :> t1) @@ (f2 :> t1) @@ (f3 :> t2) @@ (m1 :> t1) @@ (m2 :> t1)

=============================================================================
