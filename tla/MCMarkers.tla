------------------------------ MODULE MCMarkers ------------------------------
(* Instances of IndexLock, WorkerMarker and Bootstrap, one of which runs: the files *)
(* that exclude others because they hold a pid.                                *)
EXTENDS IndexLock, WorkerMarker, Bootstrap

CONSTANTS r1, r2, i1, c1, h1, h2, w1, w2

Children == [h \in Hook |-> IF h = h1 THEN w1 ELSE w2]

VARIABLE part

MarkersInit ==
  /\ Init
  /\ MarkerInit
  /\ BootInit
  /\ part \in {"lock", "worker", "bootstrap"}

LockPart == part = "lock" /\ Next /\ UNCHANGED <<part, markerVars, bootVars>>
WorkerPart == part = "worker" /\ MarkerNext /\ UNCHANGED <<part, vars, bootVars>>
BootstrapPart == part = "bootstrap" /\ BootNext /\ UNCHANGED <<part, vars, markerVars>>

(* The fairness of each, while it is the one that runs.                          *)
MarkersFairness ==
  /\ \A p \in Process :
       /\ WF_vars(part = "lock" /\ ClaimStep(p))
       /\ WF_vars(part = "lock" /\ ClearStep(p))
       /\ WF_vars(part = "lock" /\ Release(p))
  /\ \A p \in Indexers : WF_vars(part = "lock" /\ BeginClaim(p))
  /\ WF_vars(part = "lock" /\ Age)
  /\ \A p \in MarkerProcess : WF_markerVars(part = "worker" /\ MarkerClaimStep(p))

MarkersSpec ==
  /\ MarkersInit
  /\ [][LockPart \/ WorkerPart \/ BootstrapPart]_<<part, vars, markerVars, bootVars>>
  /\ MarkersFairness

(* What a dead process has left behind does not stand in the way for ever, be it      *)
(* the lock (lock.rs:50-100) or a worker's marker (marker/mod.rs:60-100).            *)
OrphansGiveWay == OrphanRemoved /\ StaleMarkerGivesWay
=============================================================================
