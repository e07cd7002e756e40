----------------------------- MODULE MarkerProofs ------------------------------
(***************************************************************************)
(* Theorems about the two lock files that name a pid: index.lock and the    *)
(* marker of a worker, for any processes and any deaths.                    *)
(***************************************************************************)
EXTENDS IndexLock, WorkerMarker, TLAPS

(* The file, the program counters and the history variable keep their      *)
(* types, and only an existing file holds a pid or is young: a pid is      *)
(* never written to a path whose file is gone.                             *)
THEOREM LockTyping == Spec => []TypeOK
<1>1. Init => TypeOK
  BY DEF Init, TypeOK, Location
<1>2. TypeOK /\ [Next]_vars => TypeOK'
  <2> SUFFICES ASSUME TypeOK, [Next]_vars
               PROVE  TypeOK'
    OBVIOUS
  <2> USE KindsAssumption DEF TypeOK, Goto, CreateFile, RemoveFile, lockVars, Location
  <2>1. ASSUME NEW p \in Process, BeginClaim(p)
        PROVE  TypeOK'
    BY <2>1 DEF BeginClaim
  <2>2. ASSUME NEW p \in Process, Create(p)
        PROVE  TypeOK'
    BY <2>2 DEF Create
  <2>3. ASSUME NEW p \in Process, CreateFails(p)
        PROVE  TypeOK'
    BY <2>3 DEF CreateFails
  <2>4. ASSUME NEW p \in Process, WritePid(p)
        PROVE  TypeOK'
    BY <2>4 DEF WritePid
  <2>5. ASSUME NEW p \in Process, WritePidFails(p)
        PROVE  TypeOK'
    BY <2>5 DEF WritePidFails
  <2>6. ASSUME NEW p \in Process, Release(p)
        PROVE  TypeOK'
    BY <2>6 DEF Release
  <2>7. ASSUME NEW p \in Process, ReindexRead(p)
        PROVE  TypeOK'
    BY <2>7 DEF ReindexRead
  <2>8. ASSUME NEW p \in Process, ReindexProbe(p)
        PROVE  TypeOK'
    BY <2>8 DEF ReindexProbe
  <2>9. ASSUME NEW p \in Process, Reclaim(p)
        PROVE  TypeOK'
    BY <2>9 DEF Reclaim
  <2>10. ASSUME NEW p \in Process, Poll(p)
        PROVE  TypeOK'
    BY <2>10 DEF Poll
  <2>11. ASSUME NEW p \in Process, GiveUp(p)
        PROVE  TypeOK'
    BY <2>11 DEF GiveUp
  <2>12. ASSUME NEW p \in Process, IndexRead(p)
        PROVE  TypeOK'
    BY <2>12 DEF IndexRead
  <2>13. ASSUME NEW p \in Process, IndexProbe(p)
        PROVE  TypeOK'
    BY <2>13 DEF IndexProbe
  <2>14. ASSUME NEW p \in Process, Break(p)
        PROVE  TypeOK'
    BY <2>14 DEF Break
  <2>15. ASSUME NEW p \in Process, Recreate(p)
        PROVE  TypeOK'
    BY <2>15 DEF Recreate
  <2>16. ASSUME NEW p \in Process, RecreateFails(p)
        PROVE  TypeOK'
    BY <2>16 DEF RecreateFails
  <2>17. ASSUME NEW p \in Process, BeginClear(p)
        PROVE  TypeOK'
    BY <2>17 DEF BeginClear
  <2>18. ASSUME NEW p \in Process, StopRead(p)
        PROVE  TypeOK'
    BY <2>18 DEF StopRead
  <2>19. ASSUME NEW p \in Process, KillHolder(p)
        PROVE  TypeOK'
    BY <2>19 DEF KillHolder
  <2>20. ASSUME NEW p \in Process, Unlink(p)
        PROVE  TypeOK'
    BY <2>20 DEF Unlink
  <2>21. ASSUME NEW p \in Process, DropTable(p)
        PROVE  TypeOK'
    BY <2>21 DEF DropTable
  <2>22. ASSUME NEW p \in Process, Die(p)
        PROVE  TypeOK'
    BY <2>22 DEF Die
  <2>23. CASE Age
    BY <2>23 DEF Age
  <2>24. CASE UNCHANGED vars
    BY <2>24 DEF vars
  <2>25. QED
    BY <2>1, <2>2, <2>3, <2>4, <2>5, <2>6, <2>7, <2>8, <2>9, <2>10,
       <2>11, <2>12, <2>13, <2>14, <2>15, <2>16, <2>17, <2>18, <2>19,
       <2>20, <2>21, <2>22, <2>23, <2>24
       DEF Next, ClaimStep, ClearStep
<1>3. QED
  BY <1>1, <1>2, PTL DEF Spec

(* Whoever writes its pid or the table created the file at the path, as    *)
(* long as nobody has died and no foreign file was up for removal.         *)
THEOREM ClaimantsOwn == Spec => []ClaimantsOwnTheFile
<1>1. Init => ClaimantsOwnTheFile
  BY KindsAssumption DEF Init, ClaimantsOwnTheFile, Process
<1>2. TypeOK /\ ClaimantsOwnTheFile /\ [Next]_vars => ClaimantsOwnTheFile'
  <2> SUFFICES ASSUME TypeOK, ClaimantsOwnTheFile, [Next]_vars
               PROVE  ClaimantsOwnTheFile'
    OBVIOUS
  <2> USE KindsAssumption DEF TypeOK, ClaimantsOwnTheFile, Undisturbed, Process,
          Goto, CreateFile, RemoveFile, lockVars
  <2>1. ASSUME NEW p \in Process, BeginClaim(p)
        PROVE  ClaimantsOwnTheFile'
    BY <2>1 DEF BeginClaim
  <2>2. ASSUME NEW p \in Process, Create(p)
        PROVE  ClaimantsOwnTheFile'
    BY <2>2 DEF Create
  <2>3. ASSUME NEW p \in Process, CreateFails(p)
        PROVE  ClaimantsOwnTheFile'
    BY <2>3 DEF CreateFails
  <2>4. ASSUME NEW p \in Process, WritePid(p)
        PROVE  ClaimantsOwnTheFile'
    BY <2>4 DEF WritePid
  <2>5. ASSUME NEW p \in Process, WritePidFails(p)
        PROVE  ClaimantsOwnTheFile'
    BY <2>5 DEF WritePidFails
  <2>6. ASSUME NEW p \in Process, Release(p)
        PROVE  ClaimantsOwnTheFile'
    BY <2>6 DEF Release
  <2>7. ASSUME NEW p \in Process, ReindexRead(p)
        PROVE  ClaimantsOwnTheFile'
    BY <2>7 DEF ReindexRead
  <2>8. ASSUME NEW p \in Process, ReindexProbe(p)
        PROVE  ClaimantsOwnTheFile'
    BY <2>8 DEF ReindexProbe
  <2>9. ASSUME NEW p \in Process, Reclaim(p)
        PROVE  ClaimantsOwnTheFile'
    BY <2>9 DEF Reclaim
  <2>10. ASSUME NEW p \in Process, Poll(p)
        PROVE  ClaimantsOwnTheFile'
    BY <2>10 DEF Poll
  <2>11. ASSUME NEW p \in Process, GiveUp(p)
        PROVE  ClaimantsOwnTheFile'
    BY <2>11 DEF GiveUp
  <2>12. ASSUME NEW p \in Process, IndexRead(p)
        PROVE  ClaimantsOwnTheFile'
    BY <2>12 DEF IndexRead
  <2>13. ASSUME NEW p \in Process, IndexProbe(p)
        PROVE  ClaimantsOwnTheFile'
    BY <2>13 DEF IndexProbe
  <2>14. ASSUME NEW p \in Process, Break(p)
        PROVE  ClaimantsOwnTheFile'
    BY <2>14 DEF Break
  <2>15. ASSUME NEW p \in Process, Recreate(p)
        PROVE  ClaimantsOwnTheFile'
    BY <2>15 DEF Recreate
  <2>16. ASSUME NEW p \in Process, RecreateFails(p)
        PROVE  ClaimantsOwnTheFile'
    BY <2>16 DEF RecreateFails
  <2>17. ASSUME NEW p \in Process, BeginClear(p)
        PROVE  ClaimantsOwnTheFile'
    BY <2>17 DEF BeginClear
  <2>18. ASSUME NEW p \in Process, StopRead(p)
        PROVE  ClaimantsOwnTheFile'
    <3>1. CASE pid = p
      BY <2>18, <3>1 DEF StopRead
    <3>2. CASE pid # p
      <4>1. preempted'
        BY <2>18, <3>2 DEF StopRead
      <4>2. QED
        BY <4>1
    <3>3. QED
      BY <3>1, <3>2
  <2>19. ASSUME NEW p \in Process, KillHolder(p)
        PROVE  ClaimantsOwnTheFile'
    BY <2>19 DEF KillHolder
  <2>20. ASSUME NEW p \in Process, Unlink(p)
        PROVE  ClaimantsOwnTheFile'
    BY <2>20 DEF Unlink
  <2>21. ASSUME NEW p \in Process, DropTable(p)
        PROVE  ClaimantsOwnTheFile'
    BY <2>21 DEF DropTable
  <2>22. ASSUME NEW p \in Process, Die(p)
        PROVE  ClaimantsOwnTheFile'
    BY <2>22 DEF Die
  <2>23. CASE Age
    BY <2>23 DEF Age
  <2>24. CASE UNCHANGED vars
    BY <2>24 DEF vars
  <2>25. QED
    BY <2>1, <2>2, <2>3, <2>4, <2>5, <2>6, <2>7, <2>8, <2>9, <2>10,
       <2>11, <2>12, <2>13, <2>14, <2>15, <2>16, <2>17, <2>18, <2>19,
       <2>20, <2>21, <2>22, <2>23, <2>24
       DEF Next, ClaimStep, ClearStep
<1>3. QED
  BY <1>1, <1>2, LockTyping, PTL DEF Spec

(* The exclusion of lock.rs:3-6, up to the first death, the first index    *)
(* claim that decides to break a lock and the first forced clear.          *)
THEOREM Exclusion == Spec => []ExclusiveUntilDisturbed
<1>1. ClaimantsOwnTheFile => ExclusiveUntilDisturbed
  BY DEF ClaimantsOwnTheFile, ExclusiveUntilDisturbed, OneWriter, Writing
<1>2. QED
  BY <1>1, ClaimantsOwn, PTL

(* Per-file reindexes that do not die exclude each other for good: where   *)
(* neither full index nor clear runs, one process writes the table.        *)
THEOREM ReindexersExclude ==
  ASSUME Indexers = {}, Clearers = {}, Mortal = {}
  PROVE  Spec => []OneWriter
<1> DEFINE Calm == Undisturbed /\ \A p \in Process : pc[p] \notin {"kill", "unlink", "drop", "stop"}
<1>1. Init => Calm
  BY DEF Init, Undisturbed
<1>2. TypeOK /\ Calm /\ [Next]_vars => Calm'
  <2> SUFFICES ASSUME TypeOK, Calm, [Next]_vars
               PROVE  Calm'
    OBVIOUS
  <2> USE KindsAssumption DEF TypeOK, Undisturbed, Process,
          Goto, CreateFile, RemoveFile, lockVars
  <2>1. ASSUME NEW p \in Process, BeginClaim(p)
        PROVE  Calm'
    BY <2>1 DEF BeginClaim
  <2>2. ASSUME NEW p \in Process, Create(p)
        PROVE  Calm'
    BY <2>2 DEF Create
  <2>3. ASSUME NEW p \in Process, CreateFails(p)
        PROVE  Calm'
    BY <2>3 DEF CreateFails
  <2>4. ASSUME NEW p \in Process, WritePid(p)
        PROVE  Calm'
    BY <2>4 DEF WritePid
  <2>5. ASSUME NEW p \in Process, WritePidFails(p)
        PROVE  Calm'
    BY <2>5 DEF WritePidFails
  <2>6. ASSUME NEW p \in Process, Release(p)
        PROVE  Calm'
    BY <2>6 DEF Release
  <2>7. ASSUME NEW p \in Process, ReindexRead(p)
        PROVE  Calm'
    BY <2>7 DEF ReindexRead
  <2>8. ASSUME NEW p \in Process, ReindexProbe(p)
        PROVE  Calm'
    BY <2>8 DEF ReindexProbe
  <2>9. ASSUME NEW p \in Process, Reclaim(p)
        PROVE  Calm'
    BY <2>9 DEF Reclaim
  <2>10. ASSUME NEW p \in Process, Poll(p)
        PROVE  Calm'
    BY <2>10 DEF Poll
  <2>11. ASSUME NEW p \in Process, GiveUp(p)
        PROVE  Calm'
    BY <2>11 DEF GiveUp
  <2>12. ASSUME NEW p \in Process, IndexRead(p)
        PROVE  Calm'
    BY <2>12 DEF IndexRead
  <2>13. ASSUME NEW p \in Process, IndexProbe(p)
        PROVE  Calm'
    BY <2>13 DEF IndexProbe
  <2>14. ASSUME NEW p \in Process, Break(p)
        PROVE  Calm'
    BY <2>14 DEF Break
  <2>15. ASSUME NEW p \in Process, Recreate(p)
        PROVE  Calm'
    BY <2>15 DEF Recreate
  <2>16. ASSUME NEW p \in Process, RecreateFails(p)
        PROVE  Calm'
    BY <2>16 DEF RecreateFails
  <2>17. ASSUME NEW p \in Process, BeginClear(p)
        PROVE  Calm'
    BY <2>17 DEF BeginClear
  <2>18. ASSUME NEW p \in Process, StopRead(p)
        PROVE  Calm'
    BY <2>18 DEF StopRead
  <2>19. ASSUME NEW p \in Process, KillHolder(p)
        PROVE  Calm'
    <3>1. pc[p] # "kill"
      OBVIOUS
    <3>2. QED
      BY <2>19, <3>1 DEF KillHolder
  <2>20. ASSUME NEW p \in Process, Unlink(p)
        PROVE  Calm'
    BY <2>20 DEF Unlink
  <2>21. ASSUME NEW p \in Process, DropTable(p)
        PROVE  Calm'
    <3>1. pc[p] # "drop"
      OBVIOUS
    <3>2. QED
      BY <2>21, <3>1 DEF DropTable
  <2>22. ASSUME NEW p \in Process, Die(p)
        PROVE  Calm'
    BY <2>22 DEF Die
  <2>23. CASE Age
    BY <2>23 DEF Age
  <2>24. CASE UNCHANGED vars
    BY <2>24 DEF vars
  <2>25. QED
    BY <2>1, <2>2, <2>3, <2>4, <2>5, <2>6, <2>7, <2>8, <2>9, <2>10,
       <2>11, <2>12, <2>13, <2>14, <2>15, <2>16, <2>17, <2>18, <2>19,
       <2>20, <2>21, <2>22, <2>23, <2>24
       DEF Next, ClaimStep, ClearStep
<1>3. Calm /\ ExclusiveUntilDisturbed => OneWriter
  BY DEF ExclusiveUntilDisturbed
<1>4. QED
  BY <1>1, <1>2, <1>3, LockTyping, Exclusion, PTL DEF Spec

-----------------------------------------------------------------------------
(* The worker markers, for every set of hooks and workers, whoever may die and    *)
(* whether or not a spawn may fail.                                           *)

(* The marker, the program counters, the attempts and what a claim has     *)
(* read keep their types; only hooks spawn and only workers work.          *)
THEOREM MarkerTyping == MarkerSpec => []MarkerTypeOK
<1>1. MarkerInit => MarkerTypeOK
  <2> SUFFICES ASSUME MarkerInit
               PROVE  MarkerTypeOK
    OBVIOUS
  <2>1. tries \in [MarkerProcess -> 1..2]
    BY DEF MarkerInit
  <2>2. judged \in [MarkerProcess -> [by : MarkerProcess \cup {Nobody},
     pid : MarkerProcess \cup {Nobody}]]
    BY DEF MarkerInit, NoFile
  <2>3. QED
    BY MarkerAssumption, <2>1, <2>2 DEF MarkerInit, MarkerTypeOK, MarkerLocation, MarkerProcess
<1>2. MarkerTypeOK /\ [MarkerNext]_markerVars => MarkerTypeOK'
  <2> SUFFICES ASSUME MarkerTypeOK, [MarkerNext]_markerVars
               PROVE  MarkerTypeOK'
    OBVIOUS
  <2> USE MarkerAssumption DEF MarkerTypeOK, MarkerLocation, MarkerProcess, Move, Claimed,
     marker, claim, Overwrite, RemoveMarkerFile, NoFile
  <2>1. ASSUME NEW h \in Hook, Begin(h)
        PROVE  MarkerTypeOK'
    BY <2>1 DEF Begin
  <2>2. ASSUME NEW p \in MarkerProcess, CreateMarker(p)
        PROVE  MarkerTypeOK'
    BY <2>2 DEF CreateMarker
  <2>3. ASSUME NEW p \in MarkerProcess, CreateMarkerFails(p)
        PROVE  MarkerTypeOK'
    BY <2>3 DEF CreateMarkerFails
  <2>4. ASSUME NEW p \in MarkerProcess, WriteMarkerPid(p)
        PROVE  MarkerTypeOK'
    BY <2>4 DEF WriteMarkerPid
  <2>5. ASSUME NEW p \in MarkerProcess, Read(p)
        PROVE  MarkerTypeOK'
    BY <2>5 DEF Read
  <2>6. ASSUME NEW p \in MarkerProcess, Adopt(p)
        PROVE  MarkerTypeOK'
    BY <2>6 DEF Adopt
  <2>7. ASSUME NEW p \in MarkerProcess, Probe(p)
        PROVE  MarkerTypeOK'
    BY <2>7 DEF Probe
  <2>8. ASSUME NEW p \in MarkerProcess, Judge(p)
        PROVE  MarkerTypeOK'
    BY <2>8 DEF Judge
  <2>9. ASSUME NEW p \in MarkerProcess, Remove(p)
        PROVE  MarkerTypeOK'
    <3>1. tries' \in [MarkerProcess -> 1..2]
      BY <2>9 DEF Remove
    <3>2. place' \in [MarkerProcess -> MarkerLocation]
      BY <2>9 DEF Remove
    <3>3. QED
      BY <2>9, <3>1, <3>2 DEF Remove
  <2>10. ASSUME NEW p \in MarkerProcess, RemoveFails(p)
        PROVE  MarkerTypeOK'
    BY <2>10 DEF RemoveFails
  <2>11. ASSUME NEW p \in MarkerProcess, ProcessDies(p)
        PROVE  MarkerTypeOK'
    BY <2>11 DEF ProcessDies
  <2>12. ASSUME NEW h \in Hook, Spawn(h)
        PROVE  MarkerTypeOK'
    BY <2>12 DEF Spawn
  <2>13. ASSUME NEW h \in Hook, SpawnFails(h)
        PROVE  MarkerTypeOK'
    BY <2>13 DEF SpawnFails
  <2>14. ASSUME NEW h \in Hook, HandOver(h)
        PROVE  MarkerTypeOK'
    BY <2>14 DEF HandOver
  <2>15. ASSUME NEW w \in Worker, Heartbeat(w)
        PROVE  MarkerTypeOK'
    BY <2>15 DEF Heartbeat
  <2>16. ASSUME NEW w \in Worker, Leave(w)
        PROVE  MarkerTypeOK'
    BY <2>16 DEF Leave
  <2>17. ASSUME NEW w \in Worker, DropMarker(w)
        PROVE  MarkerTypeOK'
    BY <2>17 DEF DropMarker
  <2>18. CASE MarkerAges
    BY <2>18 DEF MarkerAges
  <2>19. CASE UNCHANGED markerVars
    BY <2>19 DEF markerVars
  <2>20. QED
    BY <2>1, <2>2, <2>3, <2>4, <2>5, <2>6, <2>7, <2>8, <2>9, <2>10,
       <2>11, <2>12, <2>13, <2>14, <2>15, <2>16, <2>17, <2>18, <2>19
       DEF MarkerNext, MarkerClaimStep
<1>3. QED
  BY <1>1, <1>2, PTL DEF MarkerSpec

(* A file at the marker's path was created by a process that is about to    *)
(* write its pid or has claimed it; a pid in it is of a process that has   *)
(* started; and a worker starts when its hook hands the marker over.       *)
THEOREM Following == MarkerSpec => []ChildrenFollow
<1>1. MarkerInit => ChildrenFollow
  BY MarkerAssumption DEF MarkerInit, ChildrenFollow, HasWritten, Ended, MarkerProcess
<1>2. MarkerTypeOK /\ ChildrenFollow /\ [MarkerNext]_markerVars => ChildrenFollow'
  <2> SUFFICES ASSUME MarkerTypeOK, ChildrenFollow, [MarkerNext]_markerVars
               PROVE  ChildrenFollow'
    OBVIOUS
  <2> USE MarkerAssumption DEF MarkerTypeOK, MarkerLocation, MarkerProcess, Move, Claimed,
     marker, claim, Overwrite, RemoveMarkerFile, ChildrenFollow, HasWritten, Ended, Running
  <2>1. ASSUME NEW h \in Hook, Begin(h)
        PROVE  ChildrenFollow'
    BY <2>1 DEF Begin
  <2>2. ASSUME NEW p \in MarkerProcess, CreateMarker(p)
        PROVE  ChildrenFollow'
    BY <2>2 DEF CreateMarker
  <2>3. ASSUME NEW p \in MarkerProcess, CreateMarkerFails(p)
        PROVE  ChildrenFollow'
    BY <2>3 DEF CreateMarkerFails
  <2>4. ASSUME NEW p \in MarkerProcess, WriteMarkerPid(p)
        PROVE  ChildrenFollow'
    BY <2>4 DEF WriteMarkerPid
  <2>5. ASSUME NEW p \in MarkerProcess, Read(p)
        PROVE  ChildrenFollow'
    BY <2>5 DEF Read
  <2>6. ASSUME NEW p \in MarkerProcess, Adopt(p)
        PROVE  ChildrenFollow'
    BY <2>6 DEF Adopt
  <2>7. ASSUME NEW p \in MarkerProcess, Probe(p)
        PROVE  ChildrenFollow'
    BY <2>7 DEF Probe
  <2>8. ASSUME NEW p \in MarkerProcess, Judge(p)
        PROVE  ChildrenFollow'
    BY <2>8 DEF Judge
  <2>9. ASSUME NEW p \in MarkerProcess, Remove(p)
        PROVE  ChildrenFollow'
    BY <2>9 DEF Remove
  <2>10. ASSUME NEW p \in MarkerProcess, RemoveFails(p)
        PROVE  ChildrenFollow'
    BY <2>10 DEF RemoveFails
  <2>11. ASSUME NEW p \in MarkerProcess, ProcessDies(p)
        PROVE  ChildrenFollow'
    BY <2>11 DEF ProcessDies
  <2>12. ASSUME NEW h \in Hook, Spawn(h)
        PROVE  ChildrenFollow'
    BY <2>12 DEF Spawn
  <2>13. ASSUME NEW h \in Hook, SpawnFails(h)
        PROVE  ChildrenFollow'
    BY <2>13 DEF SpawnFails
  <2>14. ASSUME NEW h \in Hook, HandOver(h)
        PROVE  ChildrenFollow'
    BY <2>14 DEF HandOver
  <2>15. ASSUME NEW w \in Worker, Heartbeat(w)
        PROVE  ChildrenFollow'
    BY <2>15 DEF Heartbeat
  <2>16. ASSUME NEW w \in Worker, Leave(w)
        PROVE  ChildrenFollow'
    BY <2>16 DEF Leave
  <2>17. ASSUME NEW w \in Worker, DropMarker(w)
        PROVE  ChildrenFollow'
    BY <2>17 DEF DropMarker
  <2>18. CASE MarkerAges
    BY <2>18 DEF MarkerAges
  <2>19. CASE UNCHANGED markerVars
    BY <2>19 DEF markerVars
  <2>20. QED
    BY <2>1, <2>2, <2>3, <2>4, <2>5, <2>6, <2>7, <2>8, <2>9, <2>10,
       <2>11, <2>12, <2>13, <2>14, <2>15, <2>16, <2>17, <2>18, <2>19
       DEF MarkerNext, MarkerClaimStep
<1>3. QED
  BY <1>1, <1>2, MarkerTyping, PTL DEF MarkerSpec

(* What a claim removes it has judged: the process whose pid it has read    *)
(* has ended, the one that created the file is past writing its pid.       *)
THEOREM Judging == MarkerSpec => []JudgedHaveEnded
<1>1. MarkerInit => JudgedHaveEnded
  BY MarkerAssumption, SMTT(30) DEF MarkerInit, JudgedHaveEnded, MarkerProcess
<1>2. MarkerTypeOK /\ ChildrenFollow /\ JudgedHaveEnded /\ [MarkerNext]_markerVars
      => JudgedHaveEnded'
  <2> SUFFICES ASSUME MarkerTypeOK, ChildrenFollow, JudgedHaveEnded, [MarkerNext]_markerVars
               PROVE  JudgedHaveEnded'
    OBVIOUS
  <2> USE MarkerAssumption DEF MarkerTypeOK, MarkerLocation, MarkerProcess, Move, Claimed,
     marker, claim, Overwrite, RemoveMarkerFile, ChildrenFollow, JudgedHaveEnded, HasWritten,
        Ended, Running
  <2>1. ASSUME NEW h \in Hook, Begin(h)
        PROVE  JudgedHaveEnded'
    BY <2>1 DEF Begin
  <2>2. ASSUME NEW p \in MarkerProcess, CreateMarker(p)
        PROVE  JudgedHaveEnded'
    BY <2>2 DEF CreateMarker
  <2>3. ASSUME NEW p \in MarkerProcess, CreateMarkerFails(p)
        PROVE  JudgedHaveEnded'
    BY <2>3 DEF CreateMarkerFails
  <2>4. ASSUME NEW p \in MarkerProcess, WriteMarkerPid(p)
        PROVE  JudgedHaveEnded'
    BY <2>4 DEF WriteMarkerPid
  <2>5. ASSUME NEW p \in MarkerProcess, Read(p)
        PROVE  JudgedHaveEnded'
    BY <2>5 DEF Read
  <2>6. ASSUME NEW p \in MarkerProcess, Adopt(p)
        PROVE  JudgedHaveEnded'
    BY <2>6 DEF Adopt
  <2>7. ASSUME NEW p \in MarkerProcess, Probe(p)
        PROVE  JudgedHaveEnded'
    BY <2>7 DEF Probe
  <2>8. ASSUME NEW p \in MarkerProcess, Judge(p)
        PROVE  JudgedHaveEnded'
    BY <2>8 DEF Judge
  <2>9. ASSUME NEW p \in MarkerProcess, Remove(p)
        PROVE  JudgedHaveEnded'
    BY <2>9 DEF Remove
  <2>10. ASSUME NEW p \in MarkerProcess, RemoveFails(p)
        PROVE  JudgedHaveEnded'
    BY <2>10 DEF RemoveFails
  <2>11. ASSUME NEW p \in MarkerProcess, ProcessDies(p)
        PROVE  JudgedHaveEnded'
    BY <2>11 DEF ProcessDies
  <2>12. ASSUME NEW h \in Hook, Spawn(h)
        PROVE  JudgedHaveEnded'
    BY <2>12 DEF Spawn
  <2>13. ASSUME NEW h \in Hook, SpawnFails(h)
        PROVE  JudgedHaveEnded'
    BY <2>13 DEF SpawnFails
  <2>14. ASSUME NEW h \in Hook, HandOver(h)
        PROVE  JudgedHaveEnded'
    BY <2>14 DEF HandOver
  <2>15. ASSUME NEW w \in Worker, Heartbeat(w)
        PROVE  JudgedHaveEnded'
    BY <2>15 DEF Heartbeat
  <2>16. ASSUME NEW w \in Worker, Leave(w)
        PROVE  JudgedHaveEnded'
    BY <2>16 DEF Leave
  <2>17. ASSUME NEW w \in Worker, DropMarker(w)
        PROVE  JudgedHaveEnded'
    BY <2>17 DEF DropMarker
  <2>18. CASE MarkerAges
    BY <2>18 DEF MarkerAges
  <2>19. CASE UNCHANGED markerVars
    BY <2>19 DEF markerVars
  <2>20. QED
    BY <2>1, <2>2, <2>3, <2>4, <2>5, <2>6, <2>7, <2>8, <2>9, <2>10,
       <2>11, <2>12, <2>13, <2>14, <2>15, <2>16, <2>17, <2>18, <2>19
       DEF MarkerNext, MarkerClaimStep
<1>3. QED
  BY <1>1, <1>2, MarkerTyping, Following, PTL DEF MarkerSpec

(* As long as every removal has hit the file its process had judged, the    *)
(* marker is the file, and then the pid, of the process that has claimed   *)
(* it.                                                                     *)
THEOREM Naming == MarkerSpec => []ClaimsAreNamed
<1>1. MarkerInit => ClaimsAreNamed
  BY MarkerAssumption DEF MarkerInit, ClaimsAreNamed, NamesItself, MarkerProcess
<1>2. MarkerTypeOK /\ ChildrenFollow /\ JudgedHaveEnded /\ ClaimsAreNamed
      /\ [MarkerNext]_markerVars => ClaimsAreNamed'
  <2> SUFFICES ASSUME MarkerTypeOK, ChildrenFollow, JudgedHaveEnded, ClaimsAreNamed,
     [MarkerNext]_markerVars
               PROVE  ClaimsAreNamed'
    OBVIOUS
  <2> USE MarkerAssumption DEF MarkerTypeOK, MarkerLocation, MarkerProcess, Move, Claimed,
     marker, claim, Overwrite, RemoveMarkerFile, ChildrenFollow, JudgedHaveEnded,
        ClaimsAreNamed, NamesItself, HasWritten, Ended, Running
  <2>1. ASSUME NEW h \in Hook, Begin(h)
        PROVE  ClaimsAreNamed'
    BY <2>1, SMTT(30) DEF Begin
  <2>2. ASSUME NEW p \in MarkerProcess, CreateMarker(p)
        PROVE  ClaimsAreNamed'
    BY <2>2 DEF CreateMarker
  <2>3. ASSUME NEW p \in MarkerProcess, CreateMarkerFails(p)
        PROVE  ClaimsAreNamed'
    BY <2>3 DEF CreateMarkerFails
  <2>4. ASSUME NEW p \in MarkerProcess, WriteMarkerPid(p)
        PROVE  ClaimsAreNamed'
    BY <2>4 DEF WriteMarkerPid
  <2>5. ASSUME NEW p \in MarkerProcess, Read(p)
        PROVE  ClaimsAreNamed'
    BY <2>5 DEF Read
  <2>6. ASSUME NEW p \in MarkerProcess, Adopt(p)
        PROVE  ClaimsAreNamed'
    BY <2>6 DEF Adopt
  <2>7. ASSUME NEW p \in MarkerProcess, Probe(p)
        PROVE  ClaimsAreNamed'
    BY <2>7 DEF Probe
  <2>8. ASSUME NEW p \in MarkerProcess, Judge(p)
        PROVE  ClaimsAreNamed'
    BY <2>8 DEF Judge
  <2>9. ASSUME NEW p \in MarkerProcess, Remove(p)
        PROVE  ClaimsAreNamed'
    <3> SUFFICES ASSUME ~misremoved', NEW q \in MarkerProcess
                 PROVE  NamesItself(q)'
      OBVIOUS
    <3>1. ~misremoved /\ [by |-> author, pid |-> named] = judged[p]
      <4>1. misremoved' = (misremoved \/ [by |-> author, pid |-> named] # judged[p])
        BY <2>9 DEF Remove
      <4>2. QED
        BY <4>1, Zenon
    <3>2. place[p] = "remove" /\ author = judged[p].by /\ named = judged[p].pid
      BY <2>9, <3>1, author = [by |-> author, pid |-> named].by,
         named = [by |-> author, pid |-> named].pid DEF Remove
    <3>3. author' = Nobody /\ named' = Nobody /\ UNCHANGED judged
      BY <2>9 DEF Remove
    <3>4. place' = [place EXCEPT ![p] = IF tries[p] = 1 THEN "create" ELSE "refused"]
      BY <2>9 DEF Remove
    <3>5. ~misremoved /\ author # Nobody
      BY <2>9, <3>1 DEF Remove
    <3>6. QED
      BY <3>2, <3>3, <3>4, <3>5
  <2>10. ASSUME NEW p \in MarkerProcess, RemoveFails(p)
        PROVE  ClaimsAreNamed'
    BY <2>10 DEF RemoveFails
  <2>11. ASSUME NEW p \in MarkerProcess, ProcessDies(p)
        PROVE  ClaimsAreNamed'
    BY <2>11, SMTT(30) DEF ProcessDies
  <2>12. ASSUME NEW h \in Hook, Spawn(h)
        PROVE  ClaimsAreNamed'
    BY <2>12 DEF Spawn
  <2>13. ASSUME NEW h \in Hook, SpawnFails(h)
        PROVE  ClaimsAreNamed'
    BY <2>13, SMTT(30) DEF SpawnFails
  <2>14. ASSUME NEW h \in Hook, HandOver(h)
        PROVE  ClaimsAreNamed'
    BY <2>14 DEF HandOver
  <2>15. ASSUME NEW w \in Worker, Heartbeat(w)
        PROVE  ClaimsAreNamed'
    <3> SUFFICES ASSUME ~misremoved', NEW q \in MarkerProcess
                 PROVE  NamesItself(q)'
      OBVIOUS
    <3>1. named = w /\ named' = w /\ author # Nobody /\ ~misremoved
      BY <2>15 DEF Heartbeat
    <3>2. QED
      BY <2>15, <3>1 DEF Heartbeat
  <2>16. ASSUME NEW w \in Worker, Leave(w)
        PROVE  ClaimsAreNamed'
    BY <2>16 DEF Leave
  <2>17. ASSUME NEW w \in Worker, DropMarker(w)
        PROVE  ClaimsAreNamed'
    <3> SUFFICES ASSUME ~misremoved', NEW q \in MarkerProcess
                 PROVE  NamesItself(q)'
      OBVIOUS
    <3>1. ~misremoved /\ [by |-> author, pid |-> named] = judged[w]
      <4>1. misremoved' = (misremoved \/ [by |-> author, pid |-> named] # judged[w])
        BY <2>17 DEF DropMarker
      <4>2. QED
        BY <4>1, Zenon
    <3>2. place[w] = "drop" /\ named = w /\ named # Nobody
      BY <2>17, <3>1 DEF DropMarker
    <3>3. named' = Nobody /\ UNCHANGED judged /\ place' = [place EXCEPT ![w] = "done"]
      BY <2>17 DEF DropMarker
    <3>4. QED
      BY <3>1, <3>2, <3>3
  <2>18. CASE MarkerAges
    BY <2>18 DEF MarkerAges
  <2>19. CASE UNCHANGED markerVars
    BY <2>19 DEF markerVars
  <2>20. QED
    BY <2>1, <2>2, <2>3, <2>4, <2>5, <2>6, <2>7, <2>8, <2>9, <2>10,
       <2>11, <2>12, <2>13, <2>14, <2>15, <2>16, <2>17, <2>18, <2>19
       DEF MarkerNext, MarkerClaimStep
<1>3. QED
  BY <1>1, <1>2, MarkerTyping, Following, Judging, PTL DEF MarkerSpec

(* drain.rs:4-5, one worker at a time, named by its marker, until a removal  *)
(* hits a file that was not the one its process had judged.                *)
THEOREM OneWorker == MarkerSpec => []OneWorkerWhileRemovalsHit
<1>1. MarkerTypeOK /\ ClaimsAreNamed => OneWorkerWhileRemovalsHit
  BY MarkerAssumption DEF MarkerTypeOK, MarkerProcess, ClaimsAreNamed, NamesItself,
     OneWorkerWhileRemovalsHit
<1>2. QED
  BY <1>1, MarkerTyping, Naming, PTL
=============================================================================
