------------------------------ MODULE Bootstrap ------------------------------
(***************************************************************************)
(* bin/claudix-bootstrap.js: what stands between Claude Code and the binary of   *)
(* the wanted version.  Each hook, each server start and each install is an       *)
(* invocation of it, over one cache directory: the lock is a directory there,     *)
(* with the pid of its holder in a file beside it, and a download has a           *)
(* directory of its own (mkdtemp).                                            *)
(*                                                                         *)
(* One version, a platform with a prebuilt binary; no cargo, no development mode. *)
(* A pid is not given out twice.                                              *)
(***************************************************************************)
EXTENDS Naturals, FiniteSets

CONSTANTS
  Invocation,
  LockPolls,   \* bound: how often a held lock is looked at (120 in the code)
  MaxDeaths,   \* bound: invocations that are killed
  NoPid

ASSUME BootstrapAssumption == {LockPolls, MaxDeaths} \subseteq Nat /\ NoPid \notin Invocation

VARIABLES
  binary,    \* the binary of the wanted version: none yet, the released one, or another
  lockDir,   \* whether LOCK_DIR exists
  pidFile,   \* what PID_FILE holds
  download,  \* the download.* directory of each invocation, by the asset in it
  at,        \* where each invocation is
  doomed,    \* the download directories it has listed for removal
  heard,     \* the pid it has read and not judged or done with
  polls,     \* how often it found the lock held
  deaths,
  maker,     \* history: who made the lock directory
  handed     \* history: whether one removed had changed hands since its pid was read

bootVars ==
  <<binary, lockDir, pidFile, download, at, doomed, heard, polls, deaths, maker, handed>>

Over == {"off", "ended", "killed"}
Holding == {"pid", "recheck", "mkdtemp", "fetch", "hash", "publish", "cleanup"}
Launch == [role : {"session", "install"}, pc : Over \cup Holding \cup
            {"list", "sweep", "peek", "peeked", "sweepDir", "sweepPid", "look", "acquire",
             "holder", "judge", "takeDir", "takePid", "release", "pidGone", "dirGone"}]

BootTypeOK ==
  /\ binary \in {"none", "released", "other"}
  /\ lockDir \in BOOLEAN
  /\ pidFile \in Invocation \cup {NoPid}
  /\ download \in [Invocation -> {"none", "empty", "released", "other"}]
  /\ at \in [Invocation -> Launch]
  /\ doomed \in [Invocation -> SUBSET Invocation]
  /\ heard \in [Invocation -> Invocation \cup {NoPid}]
  /\ polls \in [Invocation -> 0..LockPolls]
  /\ deaths \in 0..MaxDeaths
  /\ maker \in Invocation \cup {NoPid}
  /\ handed \in BOOLEAN

BootInit ==
  /\ binary = "none"
  /\ lockDir = FALSE
  /\ pidFile = NoPid
  /\ download = [p \in Invocation |-> "none"]
  /\ at = [p \in Invocation |-> [role |-> "session", pc |-> "off"]]
  /\ doomed = [p \in Invocation |-> {}]
  /\ heard = [p \in Invocation |-> NoPid]
  /\ polls = [p \in Invocation |-> 0]
  /\ deaths = 0
  /\ maker = NoPid
  /\ handed = FALSE

PidAlive(p) == at[p].pc \notin Over
HeardOfDead(p) == heard[p] # NoPid /\ ~PidAlive(heard[p])

Proceed(p, from, to) == at[p].pc = from /\ at' = [at EXCEPT ![p].pc = to]
Hear(p, pid) == heard' = [heard EXCEPT ![p] = pid]

-----------------------------------------------------------------------------
(* A hook or a server start; or --install.                                     *)
Invoke(p) ==
  /\ at[p].pc = "off"
  /\ \E r \in {"session", "install"} : at' = [at EXCEPT ![p] = [role |-> r, pc |-> "list"]]
  /\ UNCHANGED <<binary, lockDir, pidFile, download, doomed, heard, polls, deaths, maker, handed>>

(* cleanupStale, the first thing every invocation does.                          *)
ListDownloads(p) ==
  /\ Proceed(p, "list", "sweep")
  /\ doomed' = [doomed EXCEPT ![p] = {q \in Invocation : download[q] # "none"}]
  /\ UNCHANGED <<binary, lockDir, pidFile, download, heard, polls, deaths, maker, handed>>

Sweep(p, q) ==
  /\ at[p].pc = "sweep"
  /\ q \in doomed[p]
  /\ doomed' = [doomed EXCEPT ![p] = @ \ {q}]
  /\ download' = [download EXCEPT ![q] = "none"]
  /\ UNCHANGED <<binary, lockDir, pidFile, at, heard, polls, deaths, maker, handed>>

SeeLock(p) ==
  /\ doomed[p] = {}
  /\ Proceed(p, "sweep", IF lockDir THEN "peek" ELSE "look")
  /\ UNCHANGED <<binary, lockDir, pidFile, download, doomed, heard, polls, deaths, maker, handed>>

(* The pid is awaited, and its holder looked for only once it has come: by then the  *)
(* lock may be another's.                                                     *)
PeekHolder(p) ==
  /\ Proceed(p, "peek", "peeked")
  /\ Hear(p, pidFile)
  /\ UNCHANGED <<binary, lockDir, pidFile, download, doomed, polls, deaths, maker, handed>>

JudgePeeked(p) ==
  /\ \/ HeardOfDead(p) /\ Proceed(p, "peeked", "sweepDir") /\ UNCHANGED heard
     \/ ~HeardOfDead(p) /\ Proceed(p, "peeked", "look") /\ Hear(p, NoPid)
  /\ UNCHANGED <<binary, lockDir, pidFile, download, doomed, polls, deaths, maker, handed>>

RemoveLockDir(p) ==
  /\ Proceed(p, "sweepDir", "sweepPid") \/ Proceed(p, "takeDir", "takePid")
  /\ lockDir' = FALSE
  /\ handed' = (handed \/ (lockDir /\ heard[p] \notin {maker, NoPid}))
  /\ Hear(p, NoPid)
  /\ UNCHANGED <<binary, pidFile, download, doomed, polls, deaths, maker>>

RemovePidFile(p) ==
  /\ Proceed(p, "sweepPid", "look") \/ Proceed(p, "takePid", "acquire")
  /\ pidFile' = NoPid
  /\ UNCHANGED <<binary, lockDir, download, doomed, heard, polls, deaths, maker, handed>>

-----------------------------------------------------------------------------
(* main: what is installed is run, and what is not is installed in the background *)
(* while the session goes on without it.                                       *)
Resolve(p) ==
  /\ at[p].pc = "look"
  /\ \/ binary # "none" /\ Proceed(p, "look", "ended")
     \/ binary = "none" /\ at[p].role = "install" /\ Proceed(p, "look", "acquire")
     \/ /\ binary = "none" /\ at[p].role = "session"
        /\ LET idle == {q \in Invocation : at[q].pc = "off"} IN
             \/ idle = {} /\ Proceed(p, "look", "ended")
             \/ \E q \in idle : at' = [at EXCEPT ![p].pc = "ended",
                                                 ![q] = [role |-> "install", pc |-> "list"]]
  /\ UNCHANGED <<binary, lockDir, pidFile, download, doomed, heard, polls, deaths, maker, handed>>

(* acquireLock.                                                              *)
MakeLockDir(p) ==
  /\ \/ ~lockDir /\ Proceed(p, "acquire", "pid") /\ maker' = p
     \/ lockDir /\ Proceed(p, "acquire", "holder") /\ UNCHANGED maker
  /\ lockDir' = TRUE
  /\ UNCHANGED <<binary, pidFile, download, doomed, heard, polls, deaths, handed>>

ReadHolder(p) ==
  /\ Proceed(p, "holder", "judge")
  /\ Hear(p, pidFile)
  /\ UNCHANGED <<binary, lockDir, pidFile, download, doomed, polls, deaths, maker, handed>>

(* Mutant: a lock whose holder is not named is taken for a dead one's. *)
JudgeHolderOrNone(p) ==
  /\ \/ /\ heard[p] = NoPid \/ HeardOfDead(p)
        /\ Proceed(p, "judge", "takeDir")
        /\ UNCHANGED <<heard, polls>>
     \/ /\ heard[p] # NoPid /\ ~HeardOfDead(p) /\ Hear(p, NoPid)
        /\ \/ polls[p] = LockPolls /\ Proceed(p, "judge", "ended") /\ UNCHANGED polls
           \/ /\ polls[p] < LockPolls /\ Proceed(p, "judge", "acquire")
              /\ polls' = [polls EXCEPT ![p] = @ + 1]
  /\ UNCHANGED <<binary, lockDir, pidFile, download, doomed, deaths, maker, handed>>

JudgeHolder(p) ==
  /\ \/ HeardOfDead(p) /\ Proceed(p, "judge", "takeDir") /\ UNCHANGED <<heard, polls>>
     \/ /\ ~HeardOfDead(p) /\ Hear(p, NoPid)
        /\ \/ polls[p] = LockPolls /\ Proceed(p, "judge", "ended") /\ UNCHANGED polls
           \/ /\ polls[p] < LockPolls /\ Proceed(p, "judge", "acquire")
              /\ polls' = [polls EXCEPT ![p] = @ + 1]
  /\ UNCHANGED <<binary, lockDir, pidFile, download, doomed, deaths, maker, handed>>

WritePidFile(p) ==
  /\ Proceed(p, "pid", "recheck")
  /\ pidFile' = p
  /\ UNCHANGED <<binary, lockDir, download, doomed, heard, polls, deaths, maker, handed>>

-----------------------------------------------------------------------------
(* doInstall, installFromRelease.  A failure of any step leads to the cleanup.      *)
Recheck(p) ==
  /\ Proceed(p, "recheck", IF binary = "none" THEN "mkdtemp" ELSE "release")
  /\ UNCHANGED <<binary, lockDir, pidFile, download, doomed, heard, polls, deaths, maker, handed>>

MakeDownloadDir(p) ==
  /\ Proceed(p, "mkdtemp", "fetch")
  /\ download' = [download EXCEPT ![p] = "empty"]
  /\ UNCHANGED <<binary, lockDir, pidFile, doomed, heard, polls, deaths, maker, handed>>

Fetch(p) ==
  /\ \/ /\ download[p] # "none"
        /\ Proceed(p, "fetch", "hash")
        /\ \E asset \in {"released", "other"} : download' = [download EXCEPT ![p] = asset]
     \/ Proceed(p, "fetch", "cleanup") /\ UNCHANGED download
  /\ UNCHANGED <<binary, lockDir, pidFile, doomed, heard, polls, deaths, maker, handed>>

CompareDigest(p) ==
  /\ Proceed(p, "hash", IF download[p] = "released" THEN "publish" ELSE "cleanup")
  /\ UNCHANGED <<binary, lockDir, pidFile, download, doomed, heard, polls, deaths, maker, handed>>

PublishBinary(p) ==
  /\ Proceed(p, "publish", "cleanup")
  /\ IF download[p] = "none" THEN UNCHANGED <<binary, download>>
     ELSE binary' = download[p] /\ download' = [download EXCEPT ![p] = "empty"]
  /\ UNCHANGED <<lockDir, pidFile, doomed, heard, polls, deaths, maker, handed>>

RemoveDownloadDir(p) ==
  /\ Proceed(p, "cleanup", "release")
  /\ download' = [download EXCEPT ![p] = "none"]
  /\ UNCHANGED <<binary, lockDir, pidFile, doomed, heard, polls, deaths, maker, handed>>

(* releaseLock removes the two at once, in either order.                           *)
ReleasePid(p) ==
  /\ Proceed(p, "release", "pidGone") \/ Proceed(p, "dirGone", "ended")
  /\ pidFile' = NoPid
  /\ UNCHANGED <<binary, lockDir, download, doomed, heard, polls, deaths, maker, handed>>

ReleaseDir(p) ==
  /\ Proceed(p, "release", "dirGone") \/ Proceed(p, "pidGone", "ended")
  /\ lockDir' = FALSE
  /\ UNCHANGED <<binary, pidFile, download, doomed, heard, polls, deaths, maker, handed>>

Kill(p) ==
  /\ deaths < MaxDeaths
  /\ deaths' = deaths + 1
  /\ PidAlive(p)
  /\ at' = [at EXCEPT ![p].pc = "killed"]
  /\ UNCHANGED <<binary, lockDir, pidFile, download, doomed, heard, polls, maker, handed>>

BootNext ==
  \E p \in Invocation :
    \/ Invoke(p) \/ ListDownloads(p) \/ SeeLock(p) \/ PeekHolder(p)
    \/ JudgePeeked(p) \/ JudgeHolder(p)
    \/ \E q \in Invocation : Sweep(p, q)
    \/ RemoveLockDir(p) \/ RemovePidFile(p) \/ Resolve(p) \/ MakeLockDir(p) \/ ReadHolder(p)
    \/ WritePidFile(p) \/ Recheck(p) \/ MakeDownloadDir(p) \/ Fetch(p) \/ CompareDigest(p)
    \/ PublishBinary(p) \/ RemoveDownloadDir(p) \/ ReleasePid(p) \/ ReleaseDir(p) \/ Kill(p)

BootSpec == BootInit /\ [][BootNext]_bootVars

-----------------------------------------------------------------------------
(* One invocation at a time is past acquireLock (lines 445-476), whoever is killed at  *)
(* whatever step, as long as no lock directory was removed that had changed hands      *)
(* since its remover read the pid: no dead lock is left standing in two hands, and a    *)
(* lock not named yet is nobody's to take.                                      *)
OneInstaller ==
  ~handed => \A p, q \in Invocation : {at[p].pc, at[q].pc} \subseteq Holding => p = q

(* claudix-bootstrap.js:502 calls what is removed "orphan temp dirs": a download that  *)
(* is under way keeps its directory.                                           *)
OnlyOrphansAreSwept ==
  \A p \in Invocation : at[p].pc \in {"fetch", "hash"} => download[p] # "none"
=============================================================================
