------------------------------ MODULE EditLedger ------------------------------
(***************************************************************************)
(* What the no-watcher reindex path promises the sessions that edit, with no  *)
(* queue, clock, hook or worker: every edit comes to be in the index, or is    *)
(* given up by a step that fails open (reindex_queue.rs:17-26), or waits       *)
(* because nobody is left to look at it (cli/drain.rs:151-156).              *)
(***************************************************************************)
EXTENDS Naturals

CONSTANT File

VARIABLES
  disk,     \* per file: the edits made to it
  indexed,  \* per file: the edit whose content the index holds
  missed,   \* per file: the last edit that was given up
  stranded  \* whether what is not indexed may have to wait for the next edit

ledger == <<disk, indexed, missed, stranded>>

Init ==
  /\ disk = [f \in File |-> 0]
  /\ indexed = [f \in File |-> 0]
  /\ missed = [f \in File |-> 0]
  /\ stranded = FALSE

Edit(f) ==
  /\ disk' = [disk EXCEPT ![f] = @ + 1]
  /\ UNCHANGED <<indexed, missed, stranded>>

(* A file is indexed as of an edit made, and never as of an earlier one than before. *)
Index(f) ==
  /\ \E n \in indexed[f]..disk[f] : indexed' = [indexed EXCEPT ![f] = n]
  /\ UNCHANGED <<disk, missed, stranded>>

(* Edits are given up, of several files when the queue is lost; none that is not made. *)
GiveUp ==
  /\ missed' \in [File -> Nat]
  /\ \A f \in File : missed[f] <= missed'[f] /\ missed'[f] <= disk[f]
  /\ UNCHANGED <<disk, indexed, stranded>>

Strand == stranded' = TRUE /\ UNCHANGED <<disk, indexed, missed>>
Rescue == stranded' = FALSE /\ UNCHANGED <<disk, indexed, missed>>

Next == (\E f \in File : Edit(f) \/ Index(f)) \/ GiveUp \/ Strand \/ Rescue

Safely == Init /\ [][Next]_ledger

Owed(f) == indexed[f] < disk[f] /\ missed[f] < disk[f]

Spec == Safely /\ \A f \in File : Owed(f) ~> (~Owed(f) \/ stranded)
=============================================================================
