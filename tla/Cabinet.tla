------------------------------ MODULE Cabinet -------------------------------
(***************************************************************************)
(* What the control plane promises of the files of its conversations, with *)
(* no word about rows, objects, locks or handlers: a file is filed once,   *)
(* with its bytes; a message takes all the files it names at once, from    *)
(* its own conversation and from nobody else; and a file that is removed   *)
(* is gone for good, bytes and all.  Module Attachments implements this    *)
(* specification.                                                          *)
(***************************************************************************)
CONSTANTS
    Files, Messages,   \* files, and the messages that may carry them
    ThreadOf,          \* the conversation of each file and message
    Nobody             \* not carried by any message

VARIABLES
    place,     \* "nowhere" (not filed yet), "filed" or "gone"
    carrier    \* the message that carries a file, or Nobody

cabinetVars == <<place, carrier>>

File(f) ==
    /\ place[f] = "nowhere"
    /\ place' = [place EXCEPT ![f] = "filed"]
    /\ UNCHANGED carrier

\* A message takes a set of files, all or none of them.
Take(m, taken) ==
    /\ \A f \in Files : carrier[f] # m
    /\ \A f \in taken :
          place[f] = "filed" /\ carrier[f] = Nobody /\ ThreadOf[f] = ThreadOf[m]
    /\ carrier' = [f \in Files |-> IF f \in taken THEN m ELSE carrier[f]]
    /\ UNCHANGED place

Remove(f) ==
    /\ place[f] = "filed"
    /\ place' = [place EXCEPT ![f] = "gone"]
    /\ carrier' = [carrier EXCEPT ![f] = Nobody]

CabinetInit ==
    /\ place = [f \in Files |-> "nowhere"]
    /\ carrier = [f \in Files |-> Nobody]

CabinetNext ==
    \/ \E f \in Files : File(f) \/ Remove(f)
    \/ \E m \in Messages, taken \in SUBSET Files : Take(m, taken)

CabinetSpec == CabinetInit /\ [][CabinetNext]_cabinetVars

=============================================================================
