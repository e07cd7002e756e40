----------------------------- MODULE PendingIndex -----------------------------
(***************************************************************************)
(* The marker of a background full index (store/marker/pending_index.rs):    *)
(* SessionStart claims it, spawns `claudix index` and records the child      *)
(* (spawn_background_index of hooks/spawn.rs); later events of any session   *)
(* read it and tell the session that the index is complete or has failed     *)
(* (hooks/ready_check.rs).                                                 *)
(*                                                                         *)
(* A step is a file-system call, a probe or a decision on what was read.      *)
(* The lock of the index is taken whole here (IndexLock has its steps).  A   *)
(* hook is done within one unit of the clock; an index may take any time.    *)
(* A session whose SessionStart is over may run the hooks of several tool     *)
(* calls at once; a new turn begins when they are done.                       *)
(***************************************************************************)
EXTENDS Naturals

CONSTANTS
  Session,      \* each starts once and then has events; also names its own first hook
  Parallel,     \* the further hooks that run beside a session's first one
  Of,           \* the session of each of these
  Anonymous,    \* the sessions whose client sends no session id
  Mortal,       \* the sessions whose SessionStart hook may be killed
  Manual,       \* an index started from the command line
  ReadyGrace,   \* PENDING_INDEX_READY_GRACE_SECS
  FailureGrace, \* FAILURE_GRACE_SECS
  MaxPrompt,    \* bound: prompts of a session
  MaxClock,     \* bound: the clock
  Never         \* the timestamp "none", and nobody

Indexer == Session \cup {Manual}
Hook == Session \cup Parallel
SessionOf(h) == IF h \in Session THEN h ELSE Of[h]

ASSUME PendingAssumption ==
  /\ Parallel \cap Session = {}
  /\ Of \in [Parallel -> Session]
  /\ Anonymous \subseteq Session
  /\ Mortal \subseteq Session
  /\ Manual \notin Session
  /\ {ReadyGrace, FailureGrace, MaxClock} \subseteq Nat
  /\ MaxPrompt \in Nat \ {0}
  /\ 0 < ReadyGrace /\ ReadyGrace < FailureGrace
  /\ Never \notin Indexer \cup Nat

VARIABLES
  now,        \* the clock, in the seconds of an RFC 3339 timestamp
  lastFull,   \* last_full_index_at of the manifest
  usable,     \* whether the manifest is populated, of the right model and not stale
  marker,     \* the file: creator, prior_ts, created_at, child_pid; Empty until written
  index,      \* where each index is
  born,       \* when it was started, until it has its lock or ends
  pc,         \* where each hook is
  mine,       \* the marker a hook writes, or the one it has read
  tries,      \* which of its two attempts a claim is in
  prompt,     \* prompt_id of each session's turn
  shown,      \* index_failure_seen_path: the prompt of the last failure notice
  acked,      \* the ack file: created_at of the run last shown to an anonymous session
  failures,   \* history: the failure notices of a session's turn: none, one or more
  raced,      \* history: the hooks whose look at the record another's notice has overtaken
  overtaken,  \* history: an index was spawned since the hook's check began
  misremoved  \* history: a marker was removed that was still needed

manifest == <<lastFull, usable>>
locals == <<mine, tries, overtaken>>
hook == <<pc, locals>>
ledgers == <<prompt, shown, acked, failures, raced>>
processes == <<index, born>>
vars == <<now, manifest, marker, processes, hook, ledgers, misremoved>>

Time == 0..MaxClock
Stamp == Time \cup {Never}

(* A marker; `written` is FALSE between create_new and write_all.               *)
Marker == [by : Session, written : BOOLEAN, prior : Stamp, created : Time,
           child : Session \cup {Never}]
Absent == [by |-> Never]
Empty(s) == [mine[s] EXCEPT !.written = FALSE]

Written == marker # Absent /\ marker.written

Starting == {"create", "write", "fresh", "remove", "spawn", "record"}
Checking == {"lock", "manifest", "consume", "probe", "ledger", "tell"}

TypeOK ==
  /\ now \in Time
  /\ lastFull \in Stamp
  /\ usable \in BOOLEAN
  /\ marker \in Marker \cup {Absent}
  /\ Written => marker.child \in {Never, marker.by}
  /\ index \in [Indexer -> {"none", "boot", "run", "wrote", "gone"}]
  /\ born \in [Indexer -> Time]
  /\ pc \in [Hook -> {"idle", "open"} \cup Starting \cup Checking]
  /\ mine \in [Hook -> Marker \cup {Absent}]
  /\ \A h \in Hook : mine[h] = Absent <=> pc[h] \in {"idle", "open"}
  /\ tries \in [Hook -> 1..2]
  /\ prompt \in [Session -> 1..MaxPrompt]
  /\ shown \in [Session -> 0..MaxPrompt]
  /\ acked \in Stamp
  /\ failures \in [Session -> 0..2]
  /\ raced \subseteq Hook
  /\ misremoved \in BOOLEAN
  /\ overtaken \in [Hook -> BOOLEAN]

Init ==
  /\ now = 0
  /\ lastFull = Never
  /\ usable = FALSE
  /\ marker = Absent
  /\ index = [i \in Indexer |-> "none"]
  /\ born = [i \in Indexer |-> 0]
  /\ pc = [h \in Hook |-> IF h \in Session THEN "idle" ELSE "open"]
  /\ mine = [h \in Hook |-> Absent]
  /\ tries = [h \in Hook |-> 1]
  /\ prompt = [s \in Session |-> 1]
  /\ shown = [s \in Session |-> 0]
  /\ acked = Never
  /\ failures = [s \in Session |-> 0]
  /\ raced = {}
  /\ misremoved = FALSE
  /\ overtaken = [h \in Hook |-> FALSE]

-----------------------------------------------------------------------------
(* A hook goes on; its locals end with it.                                   *)
Goto(s, from, to) ==
  /\ pc[s] = from
  /\ pc' = [pc EXCEPT ![s] = to]

KeepLocals(s, to) ==
  IF to = "open"
  THEN /\ mine' = [mine EXCEPT ![s] = Absent]
       /\ tries' = [tries EXCEPT ![s] = 1]
       /\ overtaken' = [overtaken EXCEPT ![s] = FALSE]
  ELSE UNCHANGED locals

Step(s, from, to) == Goto(s, from, to) /\ KeepLocals(s, to)

(* full_index_running, and process_running of an index.                      *)
IndexRunning == \E i \in Indexer : index[i] \in {"run", "wrote"}
Alive(i) == i # Never /\ index[i] \in {"boot", "run", "wrote"}

Age(m) == now - m.created
(* The run that the marker stands for is not over.                            *)
Stood == marker # Absent /\ Alive(marker.by)
BeingWritten == \E s \in Session : pc[s] = "write" /\ marker = Empty(s)
IsFresh == Written /\ Age(marker) < FailureGrace

-----------------------------------------------------------------------------
(* spawn_background_index, of the session's SessionStart hook.                *)

Skip(s) ==
  /\ IndexRunning \/ usable
  /\ Step(s, "idle", "open")
  /\ UNCHANGED <<now, manifest, marker, processes, ledgers, misremoved>>

Prepare(s) ==
  /\ ~IndexRunning
  /\ ~usable
  /\ Goto(s, "idle", "create")
  /\ mine' = [mine EXCEPT ![s] = [by |-> s, written |-> TRUE, prior |-> lastFull,
                                  created |-> now, child |-> Never]]
  /\ UNCHANGED <<now, manifest, marker, processes, tries, overtaken, ledgers, misremoved>>

Create(s) ==
  /\ marker = Absent
  /\ Step(s, "create", "write")
  /\ marker' = Empty(s)
  /\ UNCHANGED <<now, manifest, processes, ledgers, misremoved>>

(* Mutant: the file is opened, whether or not it is new. *)
CreateOpens(s) ==
  /\ marker # Absent
  /\ Step(s, "create", "write")
  /\ UNCHANGED <<now, manifest, marker, processes, ledgers, misremoved>>

CreateFails(s) ==
  /\ marker # Absent
  /\ Step(s, "create", "fresh")
  /\ UNCHANGED <<now, manifest, marker, processes, ledgers, misremoved>>

(* write_all to the file it has created, at the path or not.                  *)
WritePayload(s) ==
  /\ Step(s, "write", "spawn")
  /\ marker' = IF marker = Empty(s) THEN mine[s] ELSE marker
  /\ UNCHANGED <<now, manifest, processes, ledgers, misremoved>>

(* is_fresh: an absent or unwritten marker is not.                            *)
Judge(s) ==
  /\ Step(s, "fresh", IF IsFresh THEN "open" ELSE "remove")
  /\ UNCHANGED <<now, manifest, marker, processes, ledgers, misremoved>>

Remove(s) ==
  /\ pc[s] = "remove"
  /\ LET again == marker # Absent /\ tries[s] = 1 IN
       /\ pc' = [pc EXCEPT ![s] = IF again THEN "create" ELSE "open"]
       /\ tries' = [tries EXCEPT ![s] = IF again THEN 2 ELSE 1]
       /\ mine' = [mine EXCEPT ![s] = IF again THEN @ ELSE Absent]
  /\ misremoved' = (misremoved \/ IsFresh \/ BeingWritten \/ Stood)
  /\ marker' = Absent
  /\ UNCHANGED <<now, manifest, processes, ledgers, overtaken>>

Spawn(s) ==
  /\ Goto(s, "spawn", "record")
  /\ index' = [index EXCEPT ![s] = "boot"]
  /\ born' = [born EXCEPT ![s] = now]
  /\ overtaken' = [o \in Hook |-> pc[o] \in Checking]
  /\ UNCHANGED <<now, manifest, marker, mine, tries, ledgers, misremoved>>

SpawnFails(s) ==
  /\ Step(s, "spawn", "open")
  /\ marker' = Absent
  /\ UNCHANGED <<now, manifest, processes, ledgers, misremoved>>

(* The child's pid and a new created_at, over whatever is at the path.         *)
Record(s) ==
  /\ Step(s, "record", "open")
  /\ marker' = [mine[s] EXCEPT !.created = now, !.child = s]
  /\ UNCHANGED <<now, manifest, processes, ledgers, misremoved>>

(* The hook is killed, and its session goes on.                               *)
HookKilled(s) ==
  /\ s \in Mortal
  /\ \E from \in Starting : Step(s, from, "open")
  /\ UNCHANGED <<now, manifest, marker, processes, ledgers, misremoved>>

-----------------------------------------------------------------------------
(* A full index, spawned or manual.                                          *)

StartManual ==
  /\ index[Manual] = "none"
  /\ index' = [index EXCEPT ![Manual] = "boot"]
  /\ born' = [born EXCEPT ![Manual] = now]
  /\ UNCHANGED <<now, manifest, marker, hook, ledgers, misremoved>>

ClaimLock(i) ==
  /\ index[i] = "boot"
  /\ index' = [index EXCEPT ![i] = IF IndexRunning THEN "gone" ELSE "run"]
  /\ born' = [born EXCEPT ![i] = 0]
  /\ UNCHANGED <<now, manifest, marker, hook, ledgers, misremoved>>

(* clear_chunks before an incompatible store is rebuilt.                       *)
ResetManifest(i) ==
  /\ index[i] = "run"
  /\ lastFull # Never
  /\ lastFull' = Never
  /\ usable' = FALSE
  /\ UNCHANGED <<now, marker, processes, hook, ledgers, misremoved>>

FinishIndex(i) ==
  /\ index[i] = "run"
  /\ index' = [index EXCEPT ![i] = "wrote"]
  /\ lastFull' = now
  /\ usable' \in BOOLEAN   \* an index of nothing stays without chunks
  /\ UNCHANGED <<now, marker, born, hook, ledgers, misremoved>>

(* It exits, or it fails or dies before that.                                  *)
EndIndex(i) ==
  /\ Alive(i)
  /\ index' = [index EXCEPT ![i] = "gone"]
  /\ born' = [born EXCEPT ![i] = 0]
  /\ UNCHANGED <<now, manifest, marker, hook, ledgers, misremoved>>

-----------------------------------------------------------------------------
(* check_index_ready, of a later event of a session, in one of its hooks.     *)

ReadMarker(h) ==
  /\ pc[SessionOf(h)] \notin {"idle"} \cup Starting
  /\ Written
  /\ Age(marker) >= ReadyGrace
  /\ Goto(h, "open", "lock")
  /\ mine' = [mine EXCEPT ![h] = marker]
  /\ overtaken' = [overtaken EXCEPT ![h] = FALSE]
  /\ UNCHANGED <<now, manifest, marker, processes, tries, ledgers, misremoved>>

LookAtLock(h) ==
  /\ Step(h, "lock", IF IndexRunning THEN "open" ELSE "manifest")
  /\ UNCHANGED <<now, manifest, marker, processes, ledgers, misremoved>>

ReadManifest(h) ==
  /\ Step(h, "manifest", IF lastFull \notin {mine[h].prior, Never} THEN "consume" ELSE "probe")
  /\ UNCHANGED <<now, manifest, marker, processes, ledgers, misremoved>>

(* The completion notice.                                                    *)
Consume(h) ==
  /\ Step(h, "consume", "open")
  /\ marker' = Absent
  /\ acked' = Never
  /\ misremoved' = (misremoved \/ marker \notin {Absent, mine[h]} \/ Stood)
  /\ UNCHANGED <<now, manifest, processes, prompt, shown, failures, raced>>

(* A child that is alive and a marker that is young defer the failure.         *)
Probe(h) ==
  /\ Step(h, "probe", IF Alive(mine[h].child) \/ Age(mine[h]) < FailureGrace
                      THEN "open" ELSE "ledger")
  /\ UNCHANGED <<now, manifest, marker, processes, ledgers, misremoved>>

(* The record of a session holds the turn that was told; the one that all clients *)
(* without sessions share, the run.                                           *)
Unattributed(h) == SessionOf(h) \in Anonymous

Recorded(h) ==
  IF Unattributed(h)
  THEN acked = mine[h].created
  ELSE shown[SessionOf(h)] = prompt[SessionOf(h)]

(* The other hooks that have read the same record and are about to write it.    *)
Tellers(h) ==
  {o \in Hook \ {h} : /\ pc[o] = "tell"
                      /\ \/ SessionOf(o) = SessionOf(h)
                         \/ Unattributed(o) /\ Unattributed(h)}

(* Mutant: the record is keyed on the run. *)
ReadRecordOfRun(h) ==
  /\ IF shown[SessionOf(h)] # 0 THEN Step(h, "ledger", "open") ELSE Step(h, "ledger", "tell")
  /\ UNCHANGED <<now, manifest, marker, processes, ledgers, misremoved>>

(* Mutant: what the record says is not looked at. *)
TellEveryEvent(h) ==
  /\ Step(h, "ledger", "tell")
  /\ UNCHANGED <<now, manifest, marker, processes, ledgers, misremoved>>

(* A record that another hook is writing, and has truncated, reads as none.     *)
ReadRecord(h) ==
  /\ \/ Step(h, "ledger", IF Recorded(h) THEN "open" ELSE "tell") /\ UNCHANGED raced
     \/ Tellers(h) # {} /\ Step(h, "ledger", "tell") /\ raced' = raced \cup {h}
  /\ UNCHANGED <<now, manifest, marker, processes, prompt, shown, acked, failures, misremoved>>

(* The failure notice: once per turn of a session, or per run of a client without *)
(* sessions, unless another hook has looked before the record was written.       *)
ShowFailure(h) ==
  /\ Step(h, "tell", "open")
  /\ raced' = (raced \cup Tellers(h)) \ {h}
  /\ LET s == SessionOf(h) IN
       IF Unattributed(h)
       THEN acked' = mine[h].created /\ UNCHANGED <<shown, failures>>
       ELSE /\ shown' = [shown EXCEPT ![s] = prompt[s]]
            /\ failures' = [failures EXCEPT ![s] = IF @ = 0 THEN 1 ELSE 2]
            /\ UNCHANGED acked
  /\ UNCHANGED <<now, manifest, marker, processes, prompt, misremoved>>

NewPrompt(s) ==
  /\ \A h \in Hook : SessionOf(h) = s => pc[h] = "open"
  /\ s \notin Anonymous
  /\ prompt[s] < MaxPrompt
  /\ prompt' = [prompt EXCEPT ![s] = @ + 1]
  /\ failures' = [failures EXCEPT ![s] = 0]
  /\ UNCHANGED <<now, manifest, marker, processes, hook, shown, acked, raced, misremoved>>

(* A hook is done, and a spawned index has the lock or has ended, in time.      *)
Tick ==
  /\ now < MaxClock
  /\ \A h \in Hook : pc[h] \in {"idle", "open"}
  /\ \A s \in Session : index[s] = "boot" => now + 1 - born[s] < FailureGrace
  /\ now' = now + 1
  /\ UNCHANGED <<manifest, marker, processes, hook, ledgers, misremoved>>

StartHook(s) ==
  \/ Skip(s) \/ Prepare(s) \/ Create(s) \/ CreateFails(s) \/ WritePayload(s) \/ Judge(s)
  \/ Remove(s) \/ Spawn(s) \/ SpawnFails(s) \/ Record(s)

CheckHook(h) ==
  \/ ReadMarker(h) \/ LookAtLock(h) \/ ReadManifest(h) \/ Consume(h) \/ Probe(h)
  \/ ReadRecord(h) \/ ShowFailure(h)

IndexStep(i) == ClaimLock(i) \/ ResetManifest(i) \/ FinishIndex(i) \/ EndIndex(i)

Next ==
  \/ \E s \in Session : StartHook(s) \/ HookKilled(s) \/ NewPrompt(s)
  \/ \E h \in Hook : CheckHook(h)
  \/ \E i \in Indexer : IndexStep(i)
  \/ StartManual
  \/ Tick

Spec == Init /\ [][Next]_vars

(* A session that has started goes on having events, and their hooks go on.     *)
Fairness == \A s \in Session : WF_vars(CheckHook(s))

FairSpec == Spec /\ Fairness

-----------------------------------------------------------------------------
(* hooks/spawn.rs:54-56, "`create_new` serializes concurrent SessionStarts so   *)
(* we don't double-spawn before the child has taken the full-index lock", as     *)
(* far as it can: until a marker is removed that is being written, is fresh or   *)
(* is not the one a check has read.                                          *)
SpawnsAreSerialized ==
  ~misremoved =>
    \A s, t \in Session : index[s] = "boot" /\ index[t] = "boot" => s = t

Tells(h) == pc[h] = "tell" /\ pc'[h] = "open"

(* A failure is told (ready_check.rs:63-68) not while an index that was spawned     *)
(* before the check is starting or running, also when its hook was killed before it  *)
(* could record the child; and for the first time in its turn, by a hook whose look  *)
(* at the record no other notice of the session has overtaken.                     *)
FailureMeansQuiet ==
  [][\A h \in Hook :
       Tells(h) =>
         /\ ~overtaken[h] => \A t \in Session : ~Alive(t)
         /\ ~Unattributed(h) /\ h \notin raced => failures[SessionOf(h)] = 0]_vars

(* A failed run: its marker is past the grace, no index runs or is alive, and    *)
(* the manifest has not moved.                                                *)
FailedRun ==
  /\ Written
  /\ Age(marker) >= FailureGrace
  /\ \A i \in Indexer : ~Alive(i)
  /\ lastFull \in {marker.prior, Never}

(* ready_check.rs:84-88: "the marker stays so each new turn can resurface the    *)
(* notice while the index stays broken": every turn of every session is told.    *)
EveryTurnIsTold ==
  \A s \in Session \ Anonymous :
    (pc[s] = "open" /\ FailedRun) ~> (shown[s] = prompt[s] \/ ~FailedRun)
=============================================================================
