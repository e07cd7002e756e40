------------------------------- MODULE Watcher -------------------------------
(***************************************************************************)
(* claudix watch: file events come in over an unbounded channel, the select      *)
(* loop queues their paths, and 250 ms after the first of a batch it reindexes    *)
(* each of them once, under the reindex lock (cli/watch.rs).  Reindexing keeps   *)
(* the loop: events that come in meanwhile wait in the channel.                  *)
(*                                                                         *)
(* What a reindex stores is the version it reads.  An edit before the watch is     *)
(* registered, an event that is an error, a lock that times out and a reindex that *)
(* fails leave the file to the next full index.                               *)
(***************************************************************************)
EXTENDS Naturals, Sequences

CONSTANTS
  Path,      \* watchable files
  Debounce,  \* the window, in clock units
  MaxQueued, \* bound: events in the channel
  MaxMissed  \* bound: edits that are given up

ASSUME WatcherAssumption == Debounce \in Nat \ {0} /\ {MaxQueued, MaxMissed} \subseteq Nat

Off == Debounce + 1

VARIABLES
  disk,      \* the version of each file; versions alternate
  indexed,   \* the version of its rows
  channel,   \* the events not received yet
  pending,   \* the queued paths
  timer,     \* what is left of the window, or Off
  loop,      \* where the select loop is
  batch,     \* what is left of the paths it reindexes
  missed     \* history: the edits that were given up

watchVars == <<disk, indexed, channel, pending, timer, loop, batch, missed>>

WatchTypeOK ==
  /\ {disk, indexed} \subseteq [Path -> {0, 1}]
  /\ channel \in Seq(Path) /\ Len(channel) <= MaxQueued
  /\ pending \subseteq Path
  /\ timer \in 0..Off
  /\ timer # Off <=> pending # {}
  /\ loop \in {"boot", "select", "drain"}
  /\ batch \subseteq Path
  /\ missed \in 0..MaxMissed

WatchInit ==
  /\ disk = [f \in Path |-> 0]
  /\ indexed = disk
  /\ channel = << >>
  /\ pending = {}
  /\ timer = Off
  /\ loop = "boot"
  /\ batch = {}
  /\ missed = 0

-----------------------------------------------------------------------------
(* The watch is registered while the watcher boots; an event comes of every edit    *)
(* from then on.                                                             *)
EditFile(f) ==
  /\ Len(channel) < MaxQueued
  /\ disk' = [disk EXCEPT ![f] = 1 - @]
  /\ channel' = Append(channel, f)
  /\ UNCHANGED <<indexed, pending, timer, loop, batch, missed>>

EditUnseen(f) ==
  /\ missed < MaxMissed
  /\ missed' = missed + 1
  /\ disk' = [disk EXCEPT ![f] = 1 - @]
  /\ UNCHANGED <<indexed, channel, pending, timer, loop, batch>>

Booted ==
  /\ loop = "boot"
  /\ loop' = "select"
  /\ UNCHANGED <<disk, indexed, channel, pending, timer, batch, missed>>

(* Mutant: every event starts the window anew. *)
ReceiveRestarts ==
  /\ loop = "select"
  /\ channel # << >>
  /\ channel' = Tail(channel)
  /\ pending' = pending \cup {Head(channel)}
  /\ timer' = Debounce
  /\ UNCHANGED <<disk, indexed, loop, batch, missed>>

(* queue_reindex_paths; the window starts with the first event and stays.           *)
Receive ==
  /\ loop = "select"
  /\ channel # << >>
  /\ channel' = Tail(channel)
  /\ pending' = pending \cup {Head(channel)}
  /\ timer' = IF timer = Off THEN Debounce ELSE timer
  /\ UNCHANGED <<disk, indexed, loop, batch, missed>>

TimePasses ==
  /\ timer \in 1..Debounce
  /\ timer' = timer - 1
  /\ UNCHANGED <<disk, indexed, channel, pending, loop, batch, missed>>

(* The deadline: drain_unique_paths.                                         *)
Deadline ==
  /\ loop = "select"
  /\ timer = 0
  /\ timer' = Off
  /\ loop' = "drain"
  /\ batch' = pending
  /\ pending' = {}
  /\ UNCHANGED <<disk, indexed, channel, missed>>

ReindexPath(f) ==
  /\ loop = "drain"
  /\ f \in batch
  /\ batch' = batch \ {f}
  /\ indexed' = [indexed EXCEPT ![f] = disk[f]]
  /\ UNCHANGED <<disk, channel, pending, timer, loop, missed>>

(* The lock times out, or the reindex fails: the path is skipped.                  *)
SkipPath(f) ==
  /\ loop = "drain"
  /\ f \in batch
  /\ missed < MaxMissed
  /\ missed' = missed + 1
  /\ batch' = batch \ {f}
  /\ UNCHANGED <<disk, indexed, channel, pending, timer, loop>>

BatchDone ==
  /\ loop = "drain"
  /\ batch = {}
  /\ loop' = "select"
  /\ UNCHANGED <<disk, indexed, channel, pending, timer, batch, missed>>

LoopStep == Booted \/ Receive \/ BatchDone \/ \E f \in Path : ReindexPath(f) \/ SkipPath(f)

WatchNext ==
  \/ \E f \in Path : EditFile(f) \/ EditUnseen(f)
  \/ LoopStep \/ TimePasses \/ Deadline

(* The loop goes on, time passes, and select! picks a branch that is ready again and *)
(* again.  Nothing is said of edits.                                           *)
WatchSpec ==
  /\ WatchInit /\ [][WatchNext]_watchVars
  /\ WF_watchVars(LoopStep) /\ WF_watchVars(TimePasses) /\ SF_watchVars(Deadline)
  /\ SF_watchVars(Receive)

-----------------------------------------------------------------------------
(* cli/watch.rs:106-108, "a continuous file-event stream still gets drained on        *)
(* schedule instead of starving": whatever goes on in the tree, the rows of every     *)
(* file agree with it again and again, unless an edit was given up.                  *)
EditsAreCaughtUp ==
  \A f \in Path : [](missed = 0) => []<>(indexed[f] = disk[f])
=============================================================================
