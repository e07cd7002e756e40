------------------------------- MODULE MCFiles -------------------------------
(* The change-neighbors marker and ledgers, the model files, an install, the sweep of    *)
(* nested stores and the status of a job: files that processes share without a lock.     *)
(* `part` names what runs.                                                        *)
EXTENDS MCChangeNeighbors, ModelFiles, Install, NestedStores, Status

CONSTANTS j1, j2, j3, p1, p2

(* One process runs a full index on the log and a file's reindex, another a full     *)
(* index on a terminal.                                                          *)
MCPidOf == j1 :> p1 @@ j2 :> p1 @@ j3 :> p2
MCJobKind == j1 :> "logged" @@ j2 :> "file" @@ j3 :> "terminal"

VARIABLE part

(* Where one of many initial states is chosen, the part that rests takes one.           *)
FilesAndHintsInit ==
  /\ part \in {"hints", "files", "install", "stores", "status"}
  /\ Init /\ FilesInit /\ StatusInit
  /\ IF part = "install" THEN InstallInit
     ELSE /\ checkout = "" /\ plugin = "" /\ globalConfig = "" /\ chosen = ""
          /\ stepAt = "" /\ removing = "" /\ kills = 0 /\ updates = 0
  /\ IF part = "stores" THEN NestInit
     ELSE /\ git = "" /\ claudix = "" /\ cwd = "" /\ env = "" /\ walk = [phase |-> ""]

HintsPart ==
  part = "hints" /\ Next /\ UNCHANGED <<part, fileVars, installVars, nestVars, statusVars>>
FilesPart ==
  part = "files" /\ FilesNext /\ UNCHANGED <<part, vars, installVars, nestVars, statusVars>>
InstallPart ==
  part = "install" /\ InstallNext /\ UNCHANGED <<part, vars, fileVars, nestVars, statusVars>>
StoresPart ==
  part = "stores" /\ NestNext /\ UNCHANGED <<part, vars, fileVars, installVars, statusVars>>
StatusPart ==
  part = "status" /\ StatusNext /\ UNCHANGED <<part, vars, fileVars, installVars, nestVars>>

FilesAndHintsNext == HintsPart \/ FilesPart \/ InstallPart \/ StoresPart \/ StatusPart

FilesAndHintsSpec ==
  FilesAndHintsInit
    /\ [][FilesAndHintsNext]_<<part, vars, fileVars, installVars, nestVars, statusVars>>
==============================================================================
