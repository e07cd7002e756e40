------------------------------- MODULE MCTable -------------------------------
(* The chunk table against its manifest (IndexStore) and the model its rows are   *)
(* of (EmbeddingIdentity), one of which runs.                                  *)
EXTENDS IndexStore, EmbeddingIdentity, TLC

CONSTANTS f1, f2, a, b, z

(* Contents that yield one chunk, two chunks and none. *)
SomeChunks == a :> 1 @@ b :> 2 @@ z :> 0

(* Two models of one width and one of another.                                  *)
MCWidth == [m \in Model |-> IF m = "wide" THEN 2 ELSE 1]

Symmetry == Permutations(File)

VARIABLE part

(* Bound: one file at a time has more than a chunk or none.                       *)
OneUncommon ==
  \A f, g \in File : {disk[f], disk[g]} \subseteq {b, z} => f = g

(* A start with "b" is one with "a": the models of one width differ in name only.     *)
TableInit ==
  /\ Init /\ IdentityInit
  /\ \/ part = "store" /\ config = "a" /\ OneUncommon
     \/ part = "identity" /\ config # "b" /\ disk = NoHashes

StorePart ==
  part = "store" /\ Next /\ OneUncommon' /\ UNCHANGED <<part, identityVars>>
IdentityPart == part = "identity" /\ IdentityNext /\ UNCHANGED <<part, vars>>

TableSpec == TableInit /\ [][StorePart \/ IdentityPart]_<<part, vars, identityVars>>
=============================================================================
