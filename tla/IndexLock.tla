------------------------------ MODULE IndexLock ------------------------------
(***************************************************************************)
(* The chunk-writer lock of src/src/store/lock.rs: the file `index.lock`,  *)
(* its claim by per-file reindexes (acquire_reindex_lock, which polls), by *)
(* full indexes (acquire_index_lock, which tries once) and its forced      *)
(* removal by clear_chunks (stop_index_lock_holder).                       *)
(*                                                                         *)
(* Every file-system call is a step of its own, because other processes    *)
(* run between them: create_new, the write of the pid, the read of the     *)
(* pid, the liveness probe of that pid, and remove_file.  A file is known  *)
(* by the process that created it: remove_file acts on the path, whoever's *)
(* file is there, while a write acts on the file that was opened, there or *)
(* not.  A process is its pid; pids are not reused.                        *)
(***************************************************************************)
EXTENDS FiniteSets

CONSTANTS
  Reindexers,  \* processes that call acquire_reindex_lock: drain, watch, reindex-file
  Indexers,    \* processes that call acquire_index_lock: full indexes
  Clearers,    \* processes that call clear_chunks without holding the lock
  Mortal,      \* processes that may exit or be killed from outside
  DiskMayFail, \* whether the write of the pid may fail
  None         \* no process

Process == Reindexers \cup Indexers \cup Clearers

ASSUME KindsAssumption ==
  /\ Reindexers \cap Indexers = {}
  /\ Clearers \cap (Reindexers \cup Indexers) = {}
  /\ Mortal \subseteq Process
  /\ DiskMayFail \in BOOLEAN
  /\ None \notin Process

VARIABLES
  creator,   \* who created the file at the path; None when there is no file
  pid,       \* the pid in that file; None while it is empty
  young,     \* whether an empty file is there and is less than five seconds old
  pc,        \* where each process is
  seen,      \* the pid each process has read from the file and not yet probed
  alive,     \* what `kill -0` reports of each process
  preempted  \* history: some index claim or clear decided to remove a file it did not create

vars == <<creator, pid, young, pc, seen, alive, preempted>>

lockVars == <<creator, pid, young>>

Location == {"idle", "create", "write", "read", "probe", "reclaim", "wait",
             "break", "recreate", "hold", "stop", "kill", "unlink", "drop", "dead"}

TypeOK ==
  /\ creator \in Process \cup {None}
  /\ pid \in Process \cup {None}
  /\ young \in BOOLEAN
  /\ pid \in {None, creator}
  /\ young => creator # None /\ pid = None
  /\ pc \in [Process -> Location]
  /\ seen \in [Process -> Process \cup {None}]
  /\ alive \in [Process -> BOOLEAN]
  /\ preempted \in BOOLEAN

Init ==
  /\ creator = None
  /\ pid = None
  /\ young = FALSE
  /\ pc = [p \in Process |-> "idle"]
  /\ seen = [p \in Process |-> None]
  /\ alive = [p \in Process |-> TRUE]
  /\ preempted = FALSE

-----------------------------------------------------------------------------
Goto(p, from, to) ==
  /\ pc[p] = from
  /\ pc' = [pc EXCEPT ![p] = to]

(* File::create_new(path): fails when a file is there. *)
CreateFile(p) ==
  /\ creator = None
  /\ creator' = p
  /\ pid' = None
  /\ young' = TRUE

(* fs::remove_file(path), the error ignored. *)
RemoveFile ==
  /\ creator' = None
  /\ pid' = None
  /\ young' = FALSE

-----------------------------------------------------------------------------
(* acquire_reindex_lock and acquire_index_lock: the first attempt. *)

BeginClaim(p) ==
  /\ p \in Reindexers \cup Indexers
  /\ Goto(p, "idle", "create")
  /\ UNCHANGED <<lockVars, seen, alive, preempted>>

Create(p) ==
  /\ Goto(p, "create", "write")
  /\ CreateFile(p)
  /\ UNCHANGED <<seen, alive, preempted>>

CreateFails(p) ==
  /\ creator # None
  /\ Goto(p, "create", "read")
  /\ UNCHANGED <<lockVars, seen, alive, preempted>>

(* writeln!(file, pid): it reaches the path only while p's file is there. *)
WritePid(p) ==
  /\ Goto(p, "write", "hold")
  /\ IF creator = p THEN pid' = p /\ young' = FALSE ELSE UNCHANGED <<pid, young>>
  /\ UNCHANGED <<creator, seen, alive, preempted>>

(* The write fails: a reindexer ignores it and holds an empty file, an      *)
(* indexer returns None and leaves the empty file behind.                  *)
WritePidFails(p) ==
  /\ DiskMayFail
  /\ Goto(p, "write", IF p \in Reindexers THEN "hold" ELSE "idle")
  /\ UNCHANGED <<lockVars, seen, alive, preempted>>

(* Drop for IndexLockGuard removes whatever file is at the path. *)
Release(p) ==
  /\ Goto(p, "hold", "idle")
  /\ RemoveFile
  /\ UNCHANGED <<seen, alive, preempted>>

-----------------------------------------------------------------------------
(* acquire_reindex_lock after a failed create_new. *)

ReindexRead(p) ==
  /\ p \in Reindexers
  /\ Goto(p, "read", IF pid = None THEN "wait" ELSE "probe")
  /\ seen' = [seen EXCEPT ![p] = pid]
  /\ UNCHANGED <<lockVars, alive, preempted>>

(* Mutant: a foreign pid is taken for dead without a probe. *)
ReindexProbeNone(p) ==
  /\ p \in Reindexers
  /\ Goto(p, "probe", "reclaim")
  /\ seen' = [seen EXCEPT ![p] = None]
  /\ UNCHANGED <<lockVars, alive, preempted>>

ReindexProbe(p) ==
  /\ p \in Reindexers
  /\ Goto(p, "probe", IF alive[seen[p]] THEN "wait" ELSE "reclaim")
  /\ seen' = [seen EXCEPT ![p] = None]
  /\ UNCHANGED <<lockVars, alive, preempted>>

Reclaim(p) ==
  /\ Goto(p, "reclaim", "create")
  /\ RemoveFile
  /\ UNCHANGED <<seen, alive, preempted>>

(* thread::sleep(REINDEX_LOCK_POLL_MS) and back to create_new. *)
Poll(p) ==
  /\ Goto(p, "wait", "create")
  /\ UNCHANGED <<lockVars, seen, alive, preempted>>

(* The deadline of REINDEX_LOCK_WAIT_MS has passed: Err. *)
GiveUp(p) ==
  /\ Goto(p, "wait", "idle")
  /\ UNCHANGED <<lockVars, seen, alive, preempted>>

-----------------------------------------------------------------------------
(* acquire_index_lock after a failed create_new: full_index_running, then   *)
(* remove_file and one more create_new.                                    *)

(* Mutant: an empty file is running whatever its age. *)
IndexReadNoAge(p) ==
  /\ p \in Indexers
  /\ Goto(p, "read", IF pid # None THEN "probe"
                     ELSE IF creator # None THEN "idle" ELSE "break")
  /\ seen' = [seen EXCEPT ![p] = pid]
  /\ preempted' = (preempted \/ pc'[p] = "break")
  /\ UNCHANGED <<lockVars, alive>>

(* No file, or an empty one past five seconds, is not running; an empty     *)
(* young one is; a pid is left to the probe.                               *)
IndexRead(p) ==
  /\ p \in Indexers
  /\ Goto(p, "read", IF pid # None THEN "probe"
                     ELSE IF creator # None /\ young THEN "idle" ELSE "break")
  /\ seen' = [seen EXCEPT ![p] = pid]
  /\ preempted' = (preempted \/ pc'[p] = "break")
  /\ UNCHANGED <<lockVars, alive>>

IndexProbe(p) ==
  /\ p \in Indexers
  /\ Goto(p, "probe", IF alive[seen[p]] THEN "idle" ELSE "break")
  /\ seen' = [seen EXCEPT ![p] = None]
  /\ preempted' = (preempted \/ pc'[p] = "break")
  /\ UNCHANGED <<lockVars, alive>>

Break(p) ==
  /\ Goto(p, "break", "recreate")
  /\ RemoveFile
  /\ UNCHANGED <<seen, alive, preempted>>

Recreate(p) ==
  /\ Goto(p, "recreate", "write")
  /\ CreateFile(p)
  /\ UNCHANGED <<seen, alive, preempted>>

RecreateFails(p) ==
  /\ creator # None
  /\ Goto(p, "recreate", "idle")
  /\ UNCHANGED <<lockVars, seen, alive, preempted>>

-----------------------------------------------------------------------------
(* clear_chunks: stop_index_lock_holder, then the table is dropped.  `claudix *)
(* clear` calls it without the lock; an index that finds an incompatible      *)
(* manifest calls it while it holds the lock.                                 *)

BeginClear(p) ==
  /\ \/ p \in Clearers /\ Goto(p, "idle", "stop")
     \/ p \in Indexers /\ Goto(p, "hold", "stop")
  /\ UNCHANGED <<lockVars, seen, alive, preempted>>

(* read_pid: without a pid the file is removed at once, with our own the    *)
(* function returns, any other process is terminated.                      *)
StopRead(p) ==
  /\ Goto(p, "stop", IF pid = p THEN "drop" ELSE IF pid = None THEN "unlink" ELSE "kill")
  /\ seen' = [seen EXCEPT ![p] = IF pid = p THEN None ELSE pid]
  /\ preempted' = (preempted \/ pid # p)
  /\ UNCHANGED <<lockVars, alive>>

(* kill -TERM, two seconds, kill -KILL: the holder is gone, its file stays. *)
KillHolder(p) ==
  /\ pc[p] = "kill"
  /\ alive' = [alive EXCEPT ![seen[p]] = FALSE]
  /\ pc' = [pc EXCEPT ![p] = "unlink", ![seen[p]] = "dead"]
  /\ seen' = [seen EXCEPT ![p] = None, ![seen[p]] = None]
  /\ UNCHANGED <<lockVars, preempted>>

Unlink(p) ==
  /\ Goto(p, "unlink", "drop")
  /\ RemoveFile
  /\ UNCHANGED <<seen, alive, preempted>>

(* The table is dropped and the manifest reset; an index then goes on, a     *)
(* `claudix clear` exits.                                                    *)
DropTable(p) ==
  /\ Goto(p, "drop", IF p \in Indexers THEN "hold" ELSE "dead")
  /\ alive' = [alive EXCEPT ![p] = @ /\ p \in Indexers]
  /\ UNCHANGED <<lockVars, seen, preempted>>

-----------------------------------------------------------------------------
(* A process exits between two jobs or is killed inside one.  No destructor  *)
(* runs, so a lock file it created stays.                                   *)
Die(p) ==
  /\ p \in Mortal
  /\ alive[p]
  /\ alive' = [alive EXCEPT ![p] = FALSE]
  /\ pc' = [pc EXCEPT ![p] = "dead"]
  /\ seen' = [seen EXCEPT ![p] = None]
  /\ UNCHANGED <<lockVars, preempted>>

(* Five seconds pass.  A running process is assumed to write its pid sooner. *)
Age ==
  /\ creator # None
  /\ young
  /\ pc[creator] # "write"
  /\ young' = FALSE
  /\ UNCHANGED <<creator, pid, pc, seen, alive, preempted>>

ClaimStep(p) ==
  \/ Create(p) \/ CreateFails(p) \/ WritePid(p) \/ WritePidFails(p)
  \/ ReindexRead(p) \/ ReindexProbe(p) \/ Reclaim(p) \/ Poll(p)
  \/ IndexRead(p) \/ IndexProbe(p) \/ Break(p) \/ Recreate(p) \/ RecreateFails(p)

ClearStep(p) == StopRead(p) \/ KillHolder(p) \/ Unlink(p) \/ DropTable(p)

Next ==
  \/ \E p \in Process :
       BeginClaim(p) \/ ClaimStep(p) \/ GiveUp(p) \/ Release(p)
         \/ BeginClear(p) \/ ClearStep(p) \/ Die(p)
  \/ Age

Spec == Init /\ [][Next]_vars

(* Running processes go on, holders finish their work and release, time      *)
(* passes and sessions keep starting indexes.  Nobody has to clear, to die   *)
(* or to give up.                                                           *)
Fairness ==
  /\ \A p \in Process : WF_vars(ClaimStep(p)) /\ WF_vars(ClearStep(p)) /\ WF_vars(Release(p))
  /\ \A p \in Indexers : WF_vars(BeginClaim(p))
  /\ WF_vars(Age)

FairSpec == Spec /\ Fairness

-----------------------------------------------------------------------------
(* A process that may be rewriting the chunk table.                         *)
Writing(p) == pc[p] \in {"hold", "drop"}

(* lock.rs:3-6: "the LanceDB table is only ever rewritten by one writer at a *)
(* time. Dead pids are reclaimed; live pids block."                         *)
OneWriter == \A p, q \in Process : Writing(p) /\ Writing(q) => p = q

(* Nothing that could remove a live process's file has happened: nobody has  *)
(* died, and no index claim or clear has decided to remove a foreign file.   *)
Undisturbed == ~preempted /\ \A p \in Process : alive[p]

(* While nobody has died and no full index or clear has decided to remove a  *)
(* lock file it did not create, there is at most one writer, and the file    *)
(* at the path is the writer's own, so that its release frees nobody else's  *)
(* lock.  This is what the polling claim (create_new, probe, reclaim) owes.  *)
ExclusiveUntilDisturbed ==
  Undisturbed =>
    /\ OneWriter
    /\ \A p \in Process : Writing(p) => creator = p

(* The inductive strengthening of ExclusiveUntilDisturbed: who is writing     *)
(* its pid or the table created the file, an index that still is to decide    *)
(* about clear_chunks can read its own pid there, and no path that removes a  *)
(* foreign file is under way.                                                *)
ClaimantsOwnTheFile ==
  Undisturbed =>
    /\ creator \notin Clearers
    /\ \A p \in Process :
         /\ pc[p] \in {"write", "hold", "drop"} => creator = p
         /\ p \in Indexers /\ pc[p] \in {"hold", "stop", "drop"} => creator = p /\ pid = p
         /\ p \in Clearers => pc[p] \in {"idle", "stop"}
         /\ pc[p] \notin {"reclaim", "break", "recreate", "kill", "unlink", "dead"}
         /\ p \in Reindexers => pc[p] \notin {"stop", "drop"}
         /\ pc[p] = "probe" => seen[p] \in Process

(* A file whose creator neither is writing its pid nor holds the lock.       *)
Orphaned == creator # None /\ pc[creator] \notin {"write", "hold", "stop", "drop"}

(* lock.rs:113-115: a file whose owner is gone "should not block recovery":  *)
(* whatever it holds (a dead pid, nothing), it is eventually removed as long  *)
(* as full indexes are still started.                                        *)
OrphanRemoved == Orphaned ~> (~Orphaned \/ \A p \in Indexers : ~alive[p])

=============================================================================
