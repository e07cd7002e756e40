--------------------------- MODULE MCChangeNeighbors ---------------------------
EXTENDS ChangeNeighbors, TLC

(* b holds a block and a symbol of the same name inside it.                      *)
MCHint ==
  {[file |-> "b", name |-> "f", from |-> 1, to |-> 3],
   [file |-> "b", name |-> "f", from |-> 2, to |-> 2],
   [file |-> "c", name |-> "g", from |-> 1, to |-> 1]}

(* Nothing of the file, and all of it up to the cap.                            *)
MCWindow == {[offset |-> 2, limit |-> 0], [offset |-> None, limit |-> 3]}

MCLines == [f \in File |-> {3}]

(* A file that may grow by a second line, a block of that line, and a Read of it all. *)
MCGrowingLines == [f \in File |-> {1, 2}]
MCSecondLine == {[file |-> "b", name |-> "f", from |-> 2, to |-> 2]}
MCWhole == {[offset |-> None, limit |-> None]}

Symmetry == Permutations(Hook) \cup Permutations(Session)
=============================================================================
