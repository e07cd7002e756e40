-------------------------------- MODULE Status --------------------------------
(***************************************************************************)
(* Progress of a running index as `claudix status` tells it (cli/mod.rs,             *)
(* indexing_status): read from index.lock, from the log a full index writes            *)
(* (FileIndexProgress) and from the pending-index marker, none of which is              *)
(* written for it.  Processes run one job after another under the lock: full            *)
(* indexes, reported on the log or on a terminal, and reindexes of single files,          *)
(* which take the same lock and write no log.                                       *)
(***************************************************************************)
EXTENDS Integers, Sequences, FiniteSets

CONSTANTS
  Job,       \* what runs: one after another, each once
  PidOf,     \* the process each runs in
  JobKind,    \* "logged", "terminal" (--progress) or "file"
  FilesDone, \* files of a full index
  NoJob

ASSUME StatusAssumption ==
  /\ NoJob \notin Job
  /\ JobKind \in [Job -> {"logged", "terminal", "file"}]
  /\ \A i, j \in Job : JobKind[i] = "terminal" /\ PidOf[i] = PidOf[j] => i = j
  /\ FilesDone \in Nat
  /\ IsFiniteSet(Job)

VARIABLES
  now,     \* clock of the file system
  ran,     \* jobs that have run, are running or never will
  holder,  \* the job that holds the lock, and when it created it
  work,     \* how far that job is
  indexLog,\* index.log: when it was written last, and its lines
  pendingChild,  \* pid the pending-index marker names as its child, or NoJob
  asker   \* claudix status: what it has read, and what it says

statusVars == <<now, ran, holder, work, indexLog, pendingChild, asker>>

(* A line of the log: the total with its pid, the result of a file, or an error.         *)
Total(j) == [kind |-> "total", pid |-> PidOf[j], files |-> FilesDone, by |-> j]
Result(j) == [kind |-> "result", by |-> j]
ErrorLine(j) == [kind |-> "error", by |-> j]

Silent == [phase |-> "idle"]
NoWork == [at |-> "none", counted |-> FALSE, done |-> 0]
Free == [job |-> NoJob, since |-> 0]
StatusInit ==
  /\ now = 0 /\ ran = {}
  /\ holder = Free
  /\ work = NoWork
  /\ indexLog = [at |-> -1, lines |-> <<>>]
  /\ pendingChild = NoJob
  /\ asker = Silent

StatusTypeOK ==
  /\ now \in 0..Cardinality(Job) /\ ran \subseteq Job
  /\ holder.job \in Job \cup {NoJob} /\ holder.since <= now
  /\ work.done \in 0..FilesDone
  /\ indexLog.at <= now
  /\ asker.phase \in {"idle", "lock", "pending", "log", "told"}

HoldsLock(j) == holder.job = j
FullIndex(j) == JobKind[j] # "file"

-----------------------------------------------------------------------------
(* The jobs.  A process makes the lock anew; the clock of the file system has moved on     *)
(* since the log was last written.                                                *)
TakeLock(j) ==
  /\ holder = Free
  /\ j \notin ran
  /\ now' = now + 1
  /\ ran' = ran \union {j}
  /\ holder' = [job |-> j, since |-> now + 1]
  /\ work' = [NoWork EXCEPT !.at = "locked"]
  /\ pendingChild' \in {pendingChild} \union (IF JobKind[j] = "logged" THEN {PidOf[j]} ELSE {})
  /\ UNCHANGED <<indexLog, asker>>

(* FileIndexProgress::try_open truncates; a terminal's progress goes to stderr.          *)
OpenLog(j) ==
  /\ HoldsLock(j) /\ work.at = "locked"
  /\ FullIndex(j)
  /\ work' = [work EXCEPT !.at = "opened"]
  /\ indexLog' = IF JobKind[j] = "logged" THEN [at |-> now, lines |-> <<>>] ELSE indexLog
  /\ UNCHANGED <<now, ran, holder, pendingChild, asker>>

Log(j, line) ==
  indexLog' = IF JobKind[j] = "logged" THEN [at |-> now, lines |-> Append(indexLog.lines, line)]
              ELSE indexLog

(* The walk may skip files before the total is known.                              *)
SkipInWalk(j) ==
  /\ HoldsLock(j) /\ work.at = "opened"
  /\ work' = [work EXCEPT !.at = "walked"]
  /\ Log(j, Result(j))
  /\ UNCHANGED <<now, ran, holder, pendingChild, asker>>

EmbedTotal(j) ==
  /\ HoldsLock(j) /\ work.at \in {"opened", "walked"}
  /\ work' = [work EXCEPT !.at = "embedding", !.counted = TRUE]
  /\ Log(j, Total(j))
  /\ UNCHANGED <<now, ran, holder, pendingChild, asker>>

FileResult(j) ==
  /\ HoldsLock(j) /\ work.at = "embedding" /\ work.done < FilesDone
  /\ work' = [work EXCEPT !.done = @ + 1]
  /\ Log(j, Result(j))
  /\ UNCHANGED <<now, ran, holder, pendingChild, asker>>

(* append_index_log_error: whether or not this run opened the log.                      *)
Fail(j) ==
  /\ HoldsLock(j) /\ FullIndex(j) /\ work.at \in {"opened", "walked", "embedding"}
  /\ work' = [work EXCEPT !.at = "failed"]
  /\ indexLog' = [at |-> now, lines |-> Append(indexLog.lines, ErrorLine(j))]
  /\ UNCHANGED <<now, ran, holder, pendingChild, asker>>

(* A full index may give up before it opens its log (IndexSession::new).               *)
Release(j) ==
  /\ HoldsLock(j)
  /\ FullIndex(j) => work.at \in {"locked", "failed"} \/ work.done = FilesDone
  /\ holder' = Free /\ work' = NoWork
  /\ UNCHANGED <<now, ran, indexLog, pendingChild, asker>>

(* A lock that names a dead process counts for none, and the process runs nothing more.     *)
JobDies(j) ==
  /\ HoldsLock(j)
  /\ holder' = Free /\ work' = NoWork
  /\ ran' = ran \union {i \in Job : PidOf[i] = PidOf[j]}
  /\ UNCHANGED <<now, indexLog, pendingChild, asker>>

-----------------------------------------------------------------------------
(* status_from_store; each read sees what is there then.                              *)
ReadLock ==
  /\ asker = Silent
  /\ holder # Free
  /\ asker' = [phase |-> "lock", pid |-> PidOf[holder.job], since |-> holder.since, of |-> holder.job]
  /\ UNCHANGED <<now, ran, holder, work, indexLog, pendingChild>>

ReadPending ==
  /\ asker.phase = "lock"
  /\ asker' = [phase |-> "pending", pid |-> asker.pid, since |-> asker.since, of |-> asker.of,
                started |-> pendingChild = asker.pid]
  /\ UNCHANGED <<now, ran, holder, work, indexLog, pendingChild>>

ReadLog ==
  /\ asker.phase = "pending"
  /\ asker' = [phase |-> "log", pid |-> asker.pid, since |-> asker.since, of |-> asker.of,
                started |-> asker.started, lines |-> indexLog.lines, upto |-> work]
  /\ UNCHANGED <<now, ran, holder, work, indexLog, pendingChild>>

(* Any log is the run's.                                                           *)
LogBelongsToRunAlways == indexLog.at # -1

(* A log written since the lock was taken.                                            *)
LogBelongsToRun == indexLog.at # -1 /\ indexLog.at >= asker.since

(* parse_indexing_progress: from the last total on.                                 *)
LastTotal(lines) ==
  LET totals == {i \in DOMAIN lines : lines[i].kind = "total"}
  IN  IF totals = {} THEN 0 ELSE CHOOSE i \in totals : \A k \in totals : k <= i

Unknown == [done |-> 0, total |-> -1]
Progress(lines, pid) ==
  LET t == LastTotal(lines)
  IN  IF t = 0 \/ (t # 0 /\ lines[t].pid # pid) THEN Unknown
      ELSE [done |-> Cardinality({i \in DOMAIN lines : i > t /\ lines[i].kind = "result"}),
            total |-> lines[t].files]

Tell ==
  /\ asker.phase = "log"
  /\ asker' = [phase |-> "told", of |-> asker.of, upto |-> asker.upto,
                started |-> asker.started,
                raced |-> holder.job # asker.of,
                renewed |-> asker.upto.at = "locked" /\ work.at # "locked",
                says |-> IF LogBelongsToRun THEN Progress(asker.lines, asker.pid) ELSE Unknown]
  /\ UNCHANGED <<now, ran, holder, work, indexLog, pendingChild>>

StatusDone ==
  /\ asker.phase = "told"
  /\ asker' = Silent
  /\ UNCHANGED <<now, ran, holder, work, indexLog, pendingChild>>

StatusNext ==
  \/ ReadLock \/ ReadPending \/ ReadLog \/ Tell \/ StatusDone
  \/ \E j \in Job :
       \/ TakeLock(j) \/ OpenLog(j) \/ SkipInWalk(j) \/ EmbedTotal(j)
       \/ FileResult(j) \/ Fail(j) \/ Release(j) \/ JobDies(j)

StatusSpec == StatusInit /\ [][StatusNext]_statusVars

-----------------------------------------------------------------------------
(* cli/mod.rs:1122-1126, 1180-1192.  Unless another job took the lock over while status       *)
(* was reading, or the job began its log after status had read it, the progress it tells    *)
(* is that of the job that runs: none for a file's reindex or an index on a terminal, and    *)
(* as many files as were done, no more and no less, for one that logs; not the counts of     *)
(* a run that is over, though the same process ran it and the log still holds them.        *)
ProgressIsOfTheRun ==
  (asker.phase = "told" /\ ~asker.raced /\ ~asker.renewed) =>
    asker.says =
      IF JobKind[asker.of] = "logged" /\ asker.upto.counted
      THEN [done |-> asker.upto.done, total |-> FilesDone]
      ELSE Unknown
=============================================================================
