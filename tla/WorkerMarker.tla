----------------------------- MODULE WorkerMarker -----------------------------
(***************************************************************************)
(* The pid marker of a background worker (store/marker/mod.rs) and how a     *)
(* hook starts the worker through it (spawn_background_drain_worker and      *)
(* spawn_background_watch of hooks/spawn.rs): the hook claims the marker     *)
(* with its own pid, spawns the child, writes the child's pid over its own   *)
(* and exits; the child claims the same marker, finds its pid there and      *)
(* adopts it; while it works it writes its pid again and again, and it       *)
(* removes the marker when it leaves if it still finds its pid there.        *)
(*                                                                         *)
(* A step is a file-system call or a probe.  A file is known by the process  *)
(* that created it.  fs::write is one step: the file it has just truncated   *)
(* reads as a young marker without a pid, which is refused like a live one.  *)
(* Writes are assumed to succeed.                                           *)
(* Pids are not reused, and a process that has ended is reaped at once.      *)
(***************************************************************************)
EXTENDS Naturals

CONSTANTS
  Hook,         \* the hook processes
  Worker,       \* the worker processes
  ChildOf,      \* the worker each hook spawns
  MarkerMortal, \* the processes that may be killed
  SpawnMayFail, \* whether the spawn may fail
  Nobody

MarkerProcess == Hook \cup Worker

ASSUME MarkerAssumption ==
  /\ Hook \cap Worker = {}
  /\ ChildOf \in [Hook -> Worker]
  /\ \A g, h \in Hook : ChildOf[g] = ChildOf[h] => g = h
  /\ MarkerMortal \subseteq MarkerProcess
  /\ SpawnMayFail \in BOOLEAN
  /\ Nobody \notin MarkerProcess

VARIABLES
  author,    \* who created the file at the marker's path; Nobody when it is absent
  named,     \* the pid in it; Nobody while it is empty
  fresh,     \* whether it was written less than WATCH_MARKER_STALE_SECS ago
  place,     \* where each process is
  tries,     \* which of its two attempts a claim is in
  judged,    \* the file a claim has read: its creator and its pid
  misremoved \* history: a file was removed that was not the one judged

markerVars == <<author, named, fresh, place, tries, judged, misremoved>>

marker == <<author, named, fresh>>
claim == <<tries, judged>>

MarkerLocation == {"idle", "create", "write", "read", "adopt", "probe", "age", "remove",
                   "spawn", "handover", "run", "drop", "refused", "done", "dead"}

NoFile == [by |-> Nobody, pid |-> Nobody]

MarkerTypeOK ==
  /\ {author, named} \subseteq MarkerProcess \cup {Nobody}
  /\ author = Nobody => named = Nobody
  /\ fresh \in BOOLEAN
  /\ place \in [MarkerProcess -> MarkerLocation]
  /\ \A w \in Worker : place[w] \notin {"spawn", "handover"}
  /\ \A h \in Hook : place[h] \notin {"run", "drop"}
  /\ tries \in [MarkerProcess -> 1..2]
  /\ judged \in [MarkerProcess -> [by : MarkerProcess \cup {Nobody},
                               pid : MarkerProcess \cup {Nobody}]]
  /\ misremoved \in BOOLEAN

MarkerInit ==
  /\ author = Nobody
  /\ named = Nobody
  /\ fresh = FALSE
  /\ place = [p \in MarkerProcess |-> "idle"]
  /\ tries = [p \in MarkerProcess |-> 1]
  /\ judged = [p \in MarkerProcess |-> NoFile]
  /\ misremoved = FALSE

-----------------------------------------------------------------------------
(* process_running: what `kill -0` says of a pid.                            *)
Running(p) == place[p] \notin {"idle", "refused", "done", "dead"}

Move(p, from, to) ==
  /\ place[p] = from
  /\ place' = [place EXCEPT ![p] = to]

(* fs::write(path, p): whatever file is there, or a new one.                 *)
Overwrite(p, by) ==
  /\ author' = IF author = Nobody THEN by ELSE author
  /\ named' = p
  /\ fresh' = TRUE

(* fs::remove_file(path), meant for the file `meant`.                        *)
RemoveMarkerFile(meant) ==
  /\ author' = Nobody
  /\ named' = Nobody
  /\ fresh' = FALSE
  /\ misremoved' = (misremoved \/ [by |-> author, pid |-> named] # meant)

(* try_claim's Ok(()): the hook goes on to spawn, the worker to work.         *)
Claimed(p) == IF p \in Hook THEN "spawn" ELSE "run"

-----------------------------------------------------------------------------
(* try_claim, for a hook and for PidMarker::install of a worker.              *)

Begin(h) ==
  /\ h \in Hook
  /\ Move(h, "idle", "create")
  /\ UNCHANGED <<marker, claim, misremoved>>

CreateMarker(p) ==
  /\ author = Nobody
  /\ Move(p, "create", "write")
  /\ author' = p
  /\ fresh' = TRUE
  /\ UNCHANGED <<named, claim, misremoved>>

CreateMarkerFails(p) ==
  /\ author # Nobody
  /\ Move(p, "create", "read")
  /\ UNCHANGED <<marker, claim, misremoved>>

(* writeln! to the file it has created, at the path or not.                   *)
WriteMarkerPid(p) ==
  /\ Move(p, "write", Claimed(p))
  /\ IF author = p THEN named' = p /\ fresh' = TRUE ELSE UNCHANGED <<named, fresh>>
  /\ UNCHANGED <<author, claim, misremoved>>

(* read_pid: our own pid is adopted, another is probed; a file that is empty  *)
(* or gone is judged by its age.                                            *)
Read(p) ==
  /\ Move(p, "read", IF named = p THEN "adopt" ELSE IF named # Nobody THEN "probe" ELSE "age")
  /\ judged' = [judged EXCEPT ![p] = [by |-> author, pid |-> named]]
  /\ UNCHANGED <<marker, tries, misremoved>>

Adopt(p) ==
  /\ Move(p, "adopt", Claimed(p))
  /\ Overwrite(p, p)
  /\ UNCHANGED <<claim, misremoved>>

(* Mutant: any pid is taken for a dead one. *)
ProbeReclaims(p) ==
  /\ Move(p, "probe", "remove")
  /\ UNCHANGED <<marker, claim, misremoved>>

Probe(p) ==
  /\ Move(p, "probe", IF Running(judged[p].pid) THEN "refused" ELSE "remove")
  /\ UNCHANGED <<marker, claim, misremoved>>

(* marker_age: a young file is refused; an old or an absent one is removed.    *)
Judge(p) ==
  /\ Move(p, "age", IF author # Nobody /\ fresh THEN "refused" ELSE "remove")
  /\ UNCHANGED <<marker, claim, misremoved>>

(* remove_file must succeed, and only the first attempt is followed by a second. *)
Remove(p) ==
  /\ author # Nobody
  /\ Move(p, "remove", IF tries[p] = 1 THEN "create" ELSE "refused")
  /\ RemoveMarkerFile(judged[p])
  /\ tries' = [tries EXCEPT ![p] = 2]
  /\ UNCHANGED judged

RemoveFails(p) ==
  /\ author = Nobody
  /\ Move(p, "remove", "refused")
  /\ UNCHANGED <<marker, claim, misremoved>>

-----------------------------------------------------------------------------
(* The hook that has claimed.                                              *)

Spawn(h) ==
  /\ h \in Hook
  /\ place[h] = "spawn"
  /\ place' = [place EXCEPT ![h] = "handover", ![ChildOf[h]] = "create"]
  /\ UNCHANGED <<marker, claim, misremoved>>

SpawnFails(h) ==
  /\ SpawnMayFail
  /\ Move(h, "spawn", "refused")
  /\ RemoveMarkerFile([by |-> h, pid |-> h])
  /\ UNCHANGED claim

(* The child's pid over our own, and the hook ends.                          *)
HandOver(h) ==
  /\ h \in Hook
  /\ Move(h, "handover", "done")
  /\ Overwrite(ChildOf[h], h)
  /\ UNCHANGED <<claim, misremoved>>

-----------------------------------------------------------------------------
(* The worker that holds the marker.                                        *)

Heartbeat(w) ==
  /\ place[w] = "run"
  /\ Overwrite(w, w)
  /\ UNCHANGED <<place, claim, misremoved>>

(* Drop for PidMarker: the marker is read, and then removed if it is ours.     *)
Leave(w) ==
  /\ Move(w, "run", IF named = w THEN "drop" ELSE "done")
  /\ judged' = [judged EXCEPT ![w] = [by |-> author, pid |-> named]]
  /\ UNCHANGED <<marker, tries, misremoved>>

DropMarker(w) ==
  /\ Move(w, "drop", "done")
  /\ RemoveMarkerFile(judged[w])
  /\ UNCHANGED claim

-----------------------------------------------------------------------------
ProcessDies(p) ==
  /\ p \in MarkerMortal
  /\ Running(p)
  /\ place' = [place EXCEPT ![p] = "dead"]
  /\ UNCHANGED <<marker, claim, misremoved>>

(* WATCH_MARKER_STALE_SECS pass.  A running process writes its pid and hands   *)
(* over sooner.                                                             *)
MarkerAges ==
  /\ fresh
  /\ \A p \in MarkerProcess : place[p] \notin {"write", "handover"}
  /\ fresh' = FALSE
  /\ UNCHANGED <<author, named, place, claim, misremoved>>

MarkerClaimStep(p) ==
  \/ CreateMarker(p) \/ CreateMarkerFails(p) \/ WriteMarkerPid(p) \/ Read(p) \/ Adopt(p) \/ Probe(p)
  \/ Judge(p) \/ Remove(p) \/ RemoveFails(p)

MarkerNext ==
  \/ \E p \in MarkerProcess : MarkerClaimStep(p) \/ ProcessDies(p)
  \/ \E h \in Hook : Begin(h) \/ Spawn(h) \/ SpawnFails(h) \/ HandOver(h)
  \/ \E w \in Worker : Heartbeat(w) \/ Leave(w) \/ DropMarker(w)
  \/ MarkerAges

MarkerSpec == MarkerInit /\ [][MarkerNext]_markerVars

(* A process that has started goes on; hooks need not start, workers need not  *)
(* leave, time need not pass.                                               *)
MarkerFairness ==
  \A p \in MarkerProcess : WF_markerVars(MarkerClaimStep(p))

MarkerFairSpec == MarkerSpec /\ MarkerFairness

-----------------------------------------------------------------------------
(* drain.rs:4-5, "Exactly one worker runs at a time (claimed via the drain pid *)
(* marker)", as far as the claim can promise it: as long as every removal has  *)
(* hit the very file its process had judged, there is at most one worker and    *)
(* the marker names it, so that the next hook leaves it alone.                *)
OneWorkerWhileRemovalsHit ==
  ~misremoved =>
    \A w \in Worker :
      place[w] = "run" => named = w /\ \A v \in Worker : place[v] = "run" => v = w

(* The inductive strengthening.  Who writes its pid into the marker created it, *)
(* and who has claimed it finds its pid there; a process that is about to remove *)
(* the file it has judged judged one whose owner has ended, or will never write  *)
(* a pid again.                                                              *)
Ended(p) == place[p] \in {"refused", "done", "dead"}
HasWritten(p) == Ended(p) \/ place[p] \in {"spawn", "handover", "run", "drop"}

NamesItself(p) ==
  /\ place[p] = "write" => author = p /\ named = Nobody /\ fresh
  /\ place[p] \in {"adopt", "spawn", "handover", "run", "drop"} => named = p
  /\ place[p] = "remove" /\ judged[p].pid = Nobody /\ judged[p].by # Nobody =>
       HasWritten(judged[p].by)

ClaimsAreNamed == ~misremoved => \A p \in MarkerProcess : NamesItself(p)

JudgedHaveEnded ==
  \A p \in MarkerProcess :
    /\ place[p] \in {"probe", "remove"} /\ judged[p].pid # Nobody => place[judged[p].pid] # "idle"
    /\ place[p] \in {"probe", "age", "remove"} /\ judged[p].by # Nobody =>
         place[judged[p].by] = "write" \/ HasWritten(judged[p].by)
    /\ place[p] = "age" => judged[p].pid = Nobody
    /\ place[p] = "probe" => judged[p].pid # Nobody
    /\ place[p] = "remove" /\ judged[p].pid # Nobody => Ended(judged[p].pid)

ChildrenFollow ==
  /\ author # Nobody => place[author] = "write" \/ HasWritten(author)
  /\ named # Nobody => place[named] # "idle"
  /\ \A h \in Hook :
       /\ place[h] = "handover" => place[ChildOf[h]] # "idle"
       /\ place[h] # "handover" /\ ~Ended(h) => place[ChildOf[h]] = "idle"

(* A marker that blocks nobody rightly: its process is gone, or it has no pid   *)
(* and is past the age at which one would have come.                         *)
Stale == author # Nobody /\ IF named # Nobody THEN ~Running(named) ELSE ~fresh

(* marker/mod.rs:54-56, "Replaces dead-process markers": a stale marker does not *)
(* outlive a claim that starts while it lies there.                          *)
StaleMarkerGivesWay ==
  \A p \in MarkerProcess : (place[p] = "create" /\ Stale) ~> (~Stale \/ place[p] = "dead")
=============================================================================
