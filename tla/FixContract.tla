---------------------------- MODULE FixContract ----------------------------
(***************************************************************************)
(* What `compose-lint fix` promises about the files it is pointed at, with *)
(* nothing said of how it does it (docs/fix.md, ADR-014).                  *)
(*                                                                         *)
(* A file changes in one of two ways: somebody saves it, or the run swaps  *)
(* in one complete new document. There is no moment at which a file holds  *)
(* part of a document. The run settles the files of its batch one by one   *)
(* and in order; the only file it changes is the one it is settling, and a *)
(* file it calls "failed", "clean" or "skipped" is one it has not touched. *)
(* Exit 0 is reserved for a run that settled every file and failed none.   *)
(***************************************************************************)
EXTENDS Naturals, Sequences

CONSTANTS
  File,       \* the files of the project
  Document,   \* texts that are complete Compose documents
  Other,      \* whatever else a file may hold: broken, binary, v1, absent
  Batch       \* the files the run was asked to fix, in order

VARIABLES
  disk,       \* what each file holds
  outcome,    \* what the run says of each file of the batch
  exit        \* "none" while running, "0" or "2", or "killed"

vars == <<disk, outcome, exit>>

Untouched == {"skipped", "clean", "failed", "shown"}

Init ==
  /\ disk \in [File -> Document \cup Other]
  /\ outcome = [i \in DOMAIN Batch |-> "pending"]
  /\ exit = "none"

(* The file whose turn it is: every earlier one is settled.                *)
Turn(i) ==
  /\ exit = "none"
  /\ outcome[i] = "pending"
  /\ \A j \in DOMAIN Batch : j < i => outcome[j] # "pending"

(* Somebody else saves, breaks or deletes a file, at any time.             *)
Save ==
  /\ \E f \in File, c \in Document \cup Other : disk' = [disk EXCEPT ![f] = c]
  /\ UNCHANGED <<outcome, exit>>

(* One complete document takes the place of whatever the file held.        *)
Swap(i) ==
  /\ Turn(i)
  /\ \E d \in Document : disk' = [disk EXCEPT ![Batch[i]] = d]
  /\ outcome' = [outcome EXCEPT ![i] = "fixed"]
  /\ UNCHANGED exit

(* The run leaves a file exactly as it is and says so.                     *)
Leave(i) ==
  /\ Turn(i)
  /\ \E o \in Untouched : outcome' = [outcome EXCEPT ![i] = o]
  /\ UNCHANGED <<disk, exit>>

Stop ==
  /\ exit = "none"
  /\ \/ exit' \in {"2", "killed"}
     \/ /\ \A i \in DOMAIN Batch : outcome[i] \notin {"pending", "failed"}
        /\ exit' = "0"
  /\ UNCHANGED <<disk, outcome>>

Next ==
  \/ Save
  \/ Stop
  \/ \E i \in DOMAIN Batch : Swap(i) \/ Leave(i)

Spec == Init /\ [][Next]_vars
=============================================================================
