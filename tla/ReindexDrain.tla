----------------------------- MODULE ReindexDrain -----------------------------
(***************************************************************************)
(* The no-watcher reindex path: sessions edit files, the PostToolUse hook of *)
(* each edit appends a line to the file `reindex-queue` and makes sure that  *)
(* a drain worker runs (hooks/post_tool_use.rs, hooks/spawn.rs), and the     *)
(* worker waits until a path is quiet, reindexes it and removes the lines it *)
(* has drained (cli/drain.rs, store/marker/reindex_queue.rs).                *)
(*                                                                         *)
(* The queue is the set of its lines: their order matters to the code only   *)
(* for two lines of one path at one millisecond, where either may be taken.  *)
(* The content of a file is the number of edits made to it.  The claim of the *)
(* worker's marker and its hand-over to the child are one step here; what     *)
(* they may lose is the outcome SpawnFails.                                 *)
(***************************************************************************)
EXTENDS Integers, FiniteSetsExt

CONSTANTS
  File, Session,
  Debounce, MaxWait,  \* hooks.reindex_debounce_secs, hooks.reindex_max_wait_secs
  MinSleep, PollCap,  \* DRAIN_MIN_SLEEP_MS, DRAIN_POLL_CAP_MS
  CoarseClock,        \* whether two appends may read the same millisecond
  LastEdit, MaxEdits, \* bounds: when edits stop, and how many a file gets
  MaxFaults,          \* bound on failures and crashes
  MaxClock,           \* bound on the clock
  None

ASSUME DrainAssumption ==
  /\ {Debounce, MaxWait, MinSleep, PollCap} \subseteq Nat \ {0}
  /\ Debounce <= MaxWait  \* config/validate.rs:110-129
  /\ MinSleep <= PollCap
  /\ CoarseClock \in BOOLEAN
  /\ {LastEdit, MaxEdits, MaxFaults, MaxClock} \subseteq Nat
  /\ LastEdit < MaxClock
  /\ None \notin File \cup Session

VARIABLES
  disk,       \* per file: the edits made to it
  hook,       \* per session: the stage of its PostToolUse hook, and for which edit
  queue,      \* the lines of reindex-queue
  clock,      \* epoch milliseconds
  worker,     \* where the worker is; "down" when there is none
  todo,       \* the due paths of the worker's snapshot it has still to drain
  cutoff,     \* last_seen of each due path in that snapshot
  cur,        \* the path being drained
  got,        \* the edit whose content reindex_file has read
  kept,       \* the lines remove_drained is about to write back
  progressed, \* whether some remove_drained of this round succeeded
  wake,       \* when the worker's sleep ends
  indexed,    \* per file: the edit whose content the index holds
  missed,     \* history, per file: the last edit that some step failed open on
  orphaned,   \* history: why queued lines may have no worker since the last spawn
  faults      \* failures and crashes so far

vars == <<disk, hook, queue, clock, worker, todo, cutoff, cur, got, kept,
          progressed, wake, indexed, missed, orphaned, faults>>

round == <<todo, cutoff, cur, got, kept, progressed, wake>>

Line == [ts : 1..MaxClock, path : File, session : Session]

Stage == {"idle", "append", "ensure"}

Location == {"down", "boot", "evaluate", "next", "read", "commit", "reread",
             "rewrite", "sleep", "nap", "recheck", "exiting"}

-----------------------------------------------------------------------------
Later(d) == IF clock + d <= MaxClock THEN clock + d ELSE MaxClock

LinesOf(f) == {l \in queue : l.path = f}

Queued == {l.path : l \in queue}

(* collapse: the window of the edits queued for a path.                     *)
Stamps(f) == {l.ts : l \in LinesOf(f)}
FirstSeen(f) == Min(Stamps(f))
LastSeen(f) == Max(Stamps(f))

(* due_paths: a path is due once it has been quiet for Debounce, or MaxWait  *)
(* after its first edit.                                                    *)
Deadline(f) ==
  Min({LastSeen(f) + Debounce, FirstSeen(f) + MaxWait})
Due == {f \in Queued : clock >= Deadline(f)}
NextDeadline == Min({Deadline(f) : f \in Queued \ Due})

(* due_paths' sleep: until the next deadline, within the two limits.         *)
Clamp(d) == IF d < MinSleep THEN MinSleep ELSE IF d > PollCap THEN PollCap ELSE d

(* Mutant: the line at the cutoff is kept. *)
DrainedBefore(l) == l.path = cur /\ l.ts < cutoff[cur]

Drained(l) == l.path = cur /\ l.ts <= cutoff[cur]

Pending(s, f) == hook[s].stage = "append" /\ hook[s].path = f
LastPending(f) == \E s \in Session : Pending(s, f) /\ hook[s].n = disk[f]

-----------------------------------------------------------------------------
TypeOK ==
  /\ disk \in [File -> Nat]
  /\ hook \in [Session -> [stage : Stage, path : File \cup {None}, n : Nat]]
  /\ \A s \in Session : hook[s].path \in File <=> hook[s].stage # "idle"
  /\ \A s \in Session, f \in File : Pending(s, f) => hook[s].n <= disk[f]
  /\ queue \subseteq Line
  /\ clock \in 1..MaxClock
  /\ worker \in Location
  /\ todo \subseteq File
  /\ cutoff \in [File -> 0..MaxClock]
  /\ cur \in File \cup {None}
  /\ worker \in {"read", "commit", "reread", "rewrite"} => cur \in File
  /\ got \in Nat
  /\ kept \subseteq Line
  /\ progressed \in BOOLEAN
  /\ wake \in 0..MaxClock
  /\ indexed \in [File -> Nat]
  /\ missed \in [File -> Nat]
  /\ orphaned \in BOOLEAN
  /\ faults \in 0..MaxFaults

Init ==
  /\ disk = [f \in File |-> 0]
  /\ hook = [s \in Session |-> [stage |-> "idle", path |-> None, n |-> 0]]
  /\ queue = {}
  /\ clock = 1
  /\ worker = "down"
  /\ todo = {}
  /\ cutoff = [f \in File |-> 0]
  /\ cur = None
  /\ got = 0
  /\ kept = {}
  /\ progressed = FALSE
  /\ wake = 0
  /\ indexed = [f \in File |-> 0]
  /\ missed = [f \in File |-> 0]
  /\ orphaned = FALSE
  /\ faults = 0

-----------------------------------------------------------------------------
(* A session edits a file, and then its PostToolUse hook runs.              *)

Edit(s, f) ==
  /\ hook[s].stage = "idle"
  /\ clock <= LastEdit
  /\ disk[f] < MaxEdits
  /\ disk' = [disk EXCEPT ![f] = @ + 1]
  /\ hook' = [hook EXCEPT ![s] = [stage |-> "append", path |-> f, n |-> disk[f] + 1]]
  /\ UNCHANGED <<queue, clock, worker, round, indexed, missed, orphaned, faults>>

(* append: the line is stamped and written under the queue lock.  A line     *)
(* that arrives when the worker has already decided to exit has no worker.   *)
Append(s) ==
  LET line == [ts |-> clock, path |-> hook[s].path, session |-> s] IN
  /\ hook[s].stage = "append"
  /\ worker # "rewrite"
  /\ CoarseClock \/ clock < MaxClock
  /\ queue' = queue \cup {line}
  /\ clock' = IF CoarseClock THEN clock ELSE clock + 1
  /\ hook' = [hook EXCEPT ![s].stage = "ensure"]
  /\ orphaned' = (orphaned \/ worker = "exiting")
  /\ UNCHANGED <<disk, worker, round, indexed, missed, faults>>

HookDone(s) == hook' = [hook EXCEPT ![s] = [stage |-> "idle", path |-> None, n |-> 0]]

Fault == faults < MaxFaults /\ faults' = faults + 1

GiveUpOn(f, n) == missed' = [missed EXCEPT ![f] = IF n > @ THEN n ELSE @]

(* append returns false, or the hook dies before it: the edit is not queued, *)
(* and with nothing queued no worker is spawned.                            *)
AppendFails(s) ==
  /\ hook[s].stage = "append"
  /\ Fault
  /\ GiveUpOn(hook[s].path, hook[s].n)
  /\ HookDone(s)
  /\ UNCHANGED <<disk, queue, clock, worker, round, indexed, orphaned>>

(* spawn_background_drain_worker: claim the marker or leave it to its owner. *)
EnsureWorker(s) ==
  /\ hook[s].stage = "ensure"
  /\ worker' = IF worker = "down" THEN "boot" ELSE worker
  /\ orphaned' = (orphaned /\ worker # "down")
  /\ HookDone(s)
  /\ UNCHANGED <<disk, queue, clock, round, indexed, missed, faults>>

(* The hook dies before it spawns, the spawn fails, or the child finds its   *)
(* parent's pid still in the marker and leaves.                             *)
SpawnFails(s) ==
  /\ hook[s].stage = "ensure"
  /\ Fault
  /\ orphaned' = (orphaned \/ worker = "down")
  /\ HookDone(s)
  /\ UNCHANGED <<disk, queue, clock, worker, round, indexed, missed>>

-----------------------------------------------------------------------------
(* The worker.                                                             *)

Goto(from, to) == worker = from /\ worker' = to

environment == <<disk, hook, clock, missed, orphaned, faults>>

Boot ==
  /\ Goto("boot", "evaluate")
  /\ UNCHANGED <<environment, queue, round, indexed>>

(* The head of drain_loop: one reading of the clock and of the queue.        *)

StartRound ==
  /\ Goto("evaluate", "next")
  /\ Due # {}
  /\ todo' = Due
  /\ cutoff' = [f \in File |-> IF f \in Due THEN LastSeen(f) ELSE 0]
  /\ progressed' = FALSE
  /\ UNCHANGED <<environment, queue, cur, got, kept, wake, indexed>>

(* Mutant: the sleep is always the longest. *)
SleepToPollCap ==
  /\ Goto("evaluate", "sleep")
  /\ Due = {}
  /\ Queued # {}
  /\ wake' = Later(PollCap)
  /\ UNCHANGED <<environment, queue, todo, cutoff, cur, got, kept, progressed,
                 indexed>>

SleepToDeadline ==
  /\ Goto("evaluate", "sleep")
  /\ Due = {}
  /\ Queued # {}
  /\ wake' = Later(Clamp(NextDeadline - clock))
  /\ UNCHANGED <<environment, queue, todo, cutoff, cur, got, kept, progressed,
                 indexed>>

NothingQueued ==
  /\ Goto("evaluate", "recheck")
  /\ Queued = {}
  /\ UNCHANGED <<environment, queue, round, indexed>>

(* The queue cannot be read, and read_content takes it for an empty one: at   *)
(* the head of the loop, at the second look, or under remove_drained, which    *)
(* then leaves an empty queue behind.                                       *)

QueueUnreadable ==
  /\ \/ Goto("evaluate", "recheck") /\ UNCHANGED orphaned
     \/ Goto("recheck", "exiting") /\ orphaned' = (orphaned \/ queue # {})
  /\ Fault
  /\ UNCHANGED <<disk, hook, queue, clock, round, indexed, missed>>

RereadUnreadable ==
  /\ Goto("reread", "rewrite")
  /\ Fault
  /\ kept' = {}
  /\ missed' = [f \in File |-> IF f \in Queued /\ ~LastPending(f) THEN disk[f] ELSE missed[f]]
  /\ UNCHANGED <<disk, hook, queue, clock, todo, cutoff, cur, got, progressed, wake,
                 indexed, orphaned>>

(* One due path: acquire_reindex_lock, reindex_file, remove_drained.         *)

LockPath(f) ==
  /\ f \in todo
  /\ Goto("next", "read")
  /\ cur' = f
  /\ todo' = todo \ {f}
  /\ UNCHANGED <<environment, queue, cutoff, got, kept, progressed, wake, indexed>>

(* acquire_reindex_lock ran into its deadline: the path is left queued.      *)
LockTimesOut(f) ==
  /\ f \in todo
  /\ worker = "next"
  /\ Fault
  /\ todo' = todo \ {f}
  /\ UNCHANGED <<disk, hook, queue, clock, worker, cutoff, cur, got, kept, progressed,
                 wake, indexed, missed, orphaned>>

ReadFile ==
  /\ Goto("read", "commit")
  /\ got' = disk[cur]
  /\ UNCHANGED <<environment, queue, todo, cutoff, cur, kept, progressed, wake,
                 indexed>>

(* reindex_file skips a content it has indexed; otherwise the rows are        *)
(* replaced.                                                                *)
Reindex ==
  /\ Goto("commit", "reread")
  /\ indexed' = [indexed EXCEPT ![cur] = got]
  /\ got' = 0
  /\ UNCHANGED <<environment, queue, todo, cutoff, cur, kept, progressed, wake>>

(* reindex_file returns Err: logged, and the lines are drained all the same. *)
ReindexFails ==
  /\ Goto("commit", "reread")
  /\ Fault
  /\ GiveUpOn(cur, got)
  /\ got' = 0
  /\ UNCHANGED <<disk, hook, queue, clock, todo, cutoff, cur, kept, progressed, wake,
                 indexed, orphaned>>

(* Mutant: every line of the path is dropped, also one newer than the cutoff. *)
RereadWithoutCutoff ==
  /\ Goto("reread", "rewrite")
  /\ kept' = {l \in queue : l.path # cur}
  /\ UNCHANGED <<environment, queue, todo, cutoff, cur, got, progressed, wake,
                 indexed>>

(* remove_drained under the queue lock: re-read the queue, then rename the    *)
(* kept lines over it.                                                      *)
Reread ==
  /\ Goto("reread", "rewrite")
  /\ kept' = {l \in queue : ~Drained(l)}
  /\ UNCHANGED <<environment, queue, todo, cutoff, cur, got, progressed, wake,
                 indexed>>

Rewrite ==
  /\ Goto("rewrite", "next")
  /\ queue' = kept
  /\ kept' = {}
  /\ cur' = None
  /\ progressed' = TRUE
  /\ UNCHANGED <<environment, todo, cutoff, got, wake, indexed>>

(* The queue lock is missed, or the write or the rename fails.               *)
RemoveFails ==
  /\ worker \in {"reread", "rewrite"}
  /\ worker' = "next"
  /\ Fault
  /\ kept' = {}
  /\ cur' = None
  /\ UNCHANGED <<disk, hook, queue, clock, todo, cutoff, got, progressed, wake, indexed,
                 missed, orphaned>>

(* After the round: again at once, or after a nap when nothing left the queue. *)
EndRound ==
  /\ worker = "next"
  /\ todo = {}
  /\ worker' = IF progressed THEN "evaluate" ELSE "nap"
  /\ wake' = IF progressed THEN wake ELSE Later(PollCap)
  /\ cutoff' = [f \in File |-> 0]
  /\ progressed' = FALSE
  /\ UNCHANGED <<environment, queue, todo, cur, got, kept, indexed>>

WakeUp ==
  /\ worker \in {"sleep", "nap"}
  /\ clock >= wake
  /\ worker' = "evaluate"
  /\ wake' = 0
  /\ UNCHANGED <<environment, queue, todo, cutoff, cur, got, kept, progressed,
                 indexed>>

(* Mutant: the worker does not look a second time. *)
RecheckNothing ==
  /\ Goto("recheck", "exiting")
  /\ UNCHANGED <<environment, queue, round, indexed>>

(* The second look at an empty queue, and the return from drain_loop.        *)
Recheck ==
  /\ Goto("recheck", IF queue = {} THEN "exiting" ELSE "evaluate")
  /\ UNCHANGED <<environment, queue, round, indexed>>

(* The heartbeat is aborted and the marker dropped.                         *)
Exit ==
  /\ Goto("exiting", "down")
  /\ UNCHANGED <<environment, queue, round, indexed>>

(* The process is killed, or Claudix::new fails while it boots.  A queue     *)
(* lock it held names a dead pid, which the next claimant removes.          *)
WorkerDies ==
  /\ worker # "down"
  /\ Fault
  /\ worker' = "down"
  /\ orphaned' = TRUE
  /\ todo' = {}
  /\ cutoff' = [f \in File |-> 0]
  /\ cur' = None
  /\ got' = 0
  /\ kept' = {}
  /\ progressed' = FALSE
  /\ wake' = 0
  /\ UNCHANGED <<disk, hook, queue, clock, indexed, missed>>

-----------------------------------------------------------------------------
(* Time passes.  A hook is short: after LastEdit the clock waits for it, so   *)
(* that every deadline falls within MaxClock.                               *)
Tick ==
  /\ clock < MaxClock
  /\ (\E s \in Session : hook[s].stage = "append") => clock < LastEdit
  /\ clock' = clock + 1
  /\ UNCHANGED <<disk, hook, queue, worker, round, indexed, missed, orphaned, faults>>

WorkerStep ==
  \/ Boot \/ StartRound \/ SleepToDeadline \/ NothingQueued
  \/ \E f \in File : LockPath(f)
  \/ ReadFile \/ Reindex \/ Reread \/ Rewrite \/ EndRound \/ WakeUp \/ Recheck \/ Exit

Next ==
  \/ \E s \in Session :
       \/ \E f \in File : Edit(s, f)
       \/ Append(s) \/ AppendFails(s) \/ EnsureWorker(s) \/ SpawnFails(s)
  \/ WorkerStep
  \/ \E f \in File : LockTimesOut(f)
  \/ QueueUnreadable \/ RereadUnreadable \/ ReindexFails \/ RemoveFails \/ WorkerDies
  \/ Tick

Spec == Init /\ [][Next]_vars

(* Hooks and the worker go on and time passes; nobody has to edit or to fail. *)
Fairness ==
  /\ \A s \in Session : WF_vars(Append(s)) /\ WF_vars(EnsureWorker(s))
  /\ WF_vars(WorkerStep)
  /\ WF_vars(Tick)

FairSpec == Spec /\ Fairness

-----------------------------------------------------------------------------
(* reindex_queue.rs:17-26: no edit is lost.  The last edit of every file is   *)
(* in the index, or in its hook's hands, or has a line in the queue, unless  *)
(* a step failed open on it.  Violating it takes an edit between the worker's *)
(* snapshot, its reading of the file and its rewriting of the queue.        *)
NoLostEdit ==
  \A f \in File :
    \/ disk[f] = indexed[f]
    \/ disk[f] = missed[f]
    \/ LastPending(f)
    \/ f \in Queued

(* The inductive strengthening of NoLostEdit when appends have distinct        *)
(* stamps.  Between the reading of a file and the rewriting of the queue the  *)
(* lines up to the cutoff no longer count: the edit the reindex stands for is *)
(* the last one, or a later one is with its hook or has a line past the       *)
(* cutoff, which Drained spares.  A worker that could not read the queue       *)
(* again discards it whole.                                                 *)
Accounted(f, n) ==
  \/ disk[f] = n
  \/ disk[f] = missed[f]
  \/ LastPending(f)
  \/ \E l \in LinesOf(f) : l.ts > cutoff[f]

Discarding ==
  /\ kept = {}
  /\ \A f \in Queued : disk[f] \in {indexed[f], missed[f]} \/ LastPending(f)

EditsAccountedFor ==
  /\ NoLostEdit
  /\ \A l \in queue : l.ts < clock
  /\ \A f \in File : cutoff[f] < clock /\ missed[f] <= disk[f]
  /\ worker = "commit" => got <= disk[cur] /\ Accounted(cur, got)
  /\ worker \in {"reread", "rewrite"} => Accounted(cur, indexed[cur])
  /\ worker = "rewrite" => kept = {l \in queue : ~Drained(l)} \/ Discarding

(* drain.rs:23-25: a sleep to the next deadline does not run past the         *)
(* deadline of any path by more than the least sleep, also not past that of   *)
(* a path appended while the worker sleeps.                                 *)
NotSleptPast ==
  worker = "sleep" => \A f \in Queued : wake <= Deadline(f) + MinSleep

Stranded == worker = "down" /\ queue # {} /\ \A s \in Session : hook[s].stage # "ensure"

(* drain.rs:151-156: lines lie in the queue without a worker and without a    *)
(* hook about to spawn one only if they arrived while the last worker was     *)
(* exiting, or the worker died, or its spawn or its reading of the queue       *)
(* failed.                                                                  *)
StrandedOnlyByExitWindow == Stranded => orphaned

(* Its inductive strengthening: a worker about to exit saw an empty queue.    *)
LinesAreAttended ==
  queue # {} =>
    /\ worker = "exiting" => orphaned
    /\ worker = "down" => orphaned \/ \E s \in Session : hook[s].stage = "ensure"

(* The queue and its worker implement the ledger of edits: the index never goes  *)
(* back to an earlier edit of a file nor ahead of it, nothing is given up that    *)
(* was not made, and every edit comes to be indexed or given up, unless its       *)
(* worker is lost as above: neither a stream of edits nor failing removals keep    *)
(* a path in the queue (reindex_queue.rs:17-26, :146-148).                    *)
Ledger == INSTANCE EditLedger WITH stranded <- orphaned
ImplementsEditLedger == Ledger!Spec

(* The inductive strengthening of its steps.                                  *)
LedgerInv ==
  /\ \A f \in File : indexed[f] <= disk[f] /\ missed[f] <= disk[f]
  /\ worker = "commit" => indexed[cur] <= got /\ got <= disk[cur]
=============================================================================
