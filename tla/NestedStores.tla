----------------------------- MODULE NestedStores -----------------------------
(***************************************************************************)
(* Where a store may be.  A process finds the repository its directory is in      *)
(* (enumeration/mod.rs, active_project_root), deletes the stores that earlier        *)
(* binaries left in the directories below (delete_nested_stores) and only then        *)
(* lays down its own (cli/mod.rs, IndexSession::new; the hooks do the same).           *)
(*                                                                         *)
(* Directories: a chain 0..Chain, each inside the one before it, and a sibling        *)
(* Aside of the second of them.  Above 0 there is no .git.                         *)
(***************************************************************************)
EXTENDS Integers, FiniteSets

CONSTANTS Chain, NoDir

ASSUME NestedAssumption == Chain \in Nat \ {0} /\ NoDir \notin 0..(Chain + 1)

Aside == Chain + 1
Dir == 0..(Chain + 1)

VARIABLES
  git,      \* what is at .git: nothing, a repository, or an orphan directory
  claudix,  \* what is at .claudix: a store, a directory of the user's, or nothing
  cwd, env, \* the working directory, CLAUDE_PROJECT_DIR
  walk      \* the root found, the directory looked at, the starts left, failures

nestVars == <<git, claudix, cwd, env, walk>>

NestTypeOK ==
  /\ git \in [Dir -> {"none", "orphan", "repo"}]
  /\ claudix \in [Dir -> {"none", "store", "users"}]
  /\ cwd \in Dir /\ env \in Dir \union {NoDir}
  /\ walk \in [phase : {"born", "sweep", "refused", "swept", "laid"},
               root : Dir \union {NoDir}, at : Dir \union {NoDir},
               starts : SUBSET Dir, failed : SUBSET Dir, before : [Dir -> {"none", "store", "users"}]]

Upward(d) == IF d = Aside THEN {0, Aside} ELSE 0..d
Parent(d) == CASE d = 0 -> NoDir [] d = Aside -> 0 [] OTHER -> d - 1

(* git_repo_root: the nearest .git decides.                                        *)
GitRepoRoot(d) ==
  LET marked == {k \in Upward(d) : git[k] # "none"}
      nearest == CHOOSE k \in marked : marked \subseteq Upward(k)
  IN  IF marked = {} \/ git[nearest] = "orphan" THEN NoDir ELSE nearest

ResolveProjectRoot(d) == IF GitRepoRoot(d) = NoDir THEN d ELSE GitRepoRoot(d)

NestInit ==
  /\ git \in [Dir -> {"none", "orphan", "repo"}]
  /\ claudix \in [Dir -> {"store", "users"}]
  /\ cwd \in Dir /\ env \in Dir \union {NoDir}
  /\ walk = [phase |-> "born", root |-> NoDir, at |-> NoDir,
             starts |-> {cwd} \union ({env} \ {NoDir}), failed |-> {}, before |-> claudix]

-----------------------------------------------------------------------------
(* active_project_root, and require_git_repo of what it gives.                    *)
FindRoot ==
  /\ walk.phase = "born"
  /\ LET root == ResolveProjectRoot(IF env # NoDir THEN env ELSE cwd)
     IN  walk' = [walk EXCEPT !.root = root,
                              !.phase = IF GitRepoRoot(root) = NoDir THEN "refused" ELSE "sweep"]
  /\ UNCHANGED <<git, claudix, cwd, env>>

(* delete_nested_stores_between: one of the starts, from itself upward.              *)
BeginSweep(d) ==
  /\ walk.phase = "sweep" /\ walk.at = NoDir
  /\ d \in walk.starts
  /\ cwd \in walk.starts => d = cwd
  /\ walk' = [walk EXCEPT !.at = d, !.starts = @ \ {d}]
  /\ UNCHANGED <<git, claudix, cwd, env>>

Outside == walk.at = walk.root \/ walk.root \notin Upward(walk.at)

(* A sweep that stops at a nested repository.                                      *)
EndSweepAtRepo ==
  /\ walk.phase = "sweep" /\ walk.at # NoDir
  /\ Outside \/ git[walk.at] = "repo"
  /\ walk' = [walk EXCEPT !.at = NoDir]
  /\ UNCHANGED <<git, claudix, cwd, env>>

EndSweep ==
  /\ walk.phase = "sweep" /\ walk.at # NoDir
  /\ Outside
  /\ walk' = [walk EXCEPT !.at = NoDir]
  /\ UNCHANGED <<git, claudix, cwd, env>>

HasOwnStore == git[walk.at] # "repo" /\ claudix[walk.at] = "store"

(* A repository's own store, a directory of the user's, or none.                   *)
StepOver ==
  /\ walk.phase = "sweep" /\ walk.at # NoDir
  /\ ~Outside /\ ~HasOwnStore
  /\ walk' = [walk EXCEPT !.at = Parent(walk.at)]
  /\ UNCHANGED <<git, claudix, cwd, env>>

DeleteNested ==
  /\ walk.phase = "sweep" /\ walk.at # NoDir
  /\ ~Outside /\ HasOwnStore
  /\ \/ /\ claudix' = [claudix EXCEPT ![walk.at] = "none"]
        /\ walk' = [walk EXCEPT !.at = Parent(walk.at)]
     \/ /\ walk' = [walk EXCEPT !.at = Parent(walk.at), !.failed = @ \union {walk.at}]
        /\ UNCHANGED claudix
  /\ UNCHANGED <<git, cwd, env>>

AllSwept ==
  /\ walk.phase = "sweep" /\ walk.at = NoDir /\ walk.starts = {}
  /\ walk' = [walk EXCEPT !.phase = "swept"]
  /\ UNCHANGED <<git, claudix, cwd, env>>

(* ensure_layout; a directory of the user's at the root is built into.               *)
LayDown ==
  /\ walk.phase = "swept"
  /\ claudix' = [claudix EXCEPT ![walk.root] = "store"]
  /\ walk' = [walk EXCEPT !.phase = "laid"]
  /\ UNCHANGED <<git, cwd, env>>

NestNext ==
  \/ FindRoot \/ EndSweep \/ StepOver \/ DeleteNested \/ AllSwept \/ LayDown
  \/ \E d \in Dir : BeginSweep(d)

NestSpec == NestInit /\ [][NestNext]_nestVars

-----------------------------------------------------------------------------
(* Litter is a store below the root, on the way to a start, that no repository owns.   *)
Litter(d) ==
  /\ walk.before[d] = "store" /\ git[d] # "repo"
  /\ d # walk.root /\ walk.root \in Upward(d)
  /\ \E s \in {cwd} \union ({env} \ {NoDir}) : d \in Upward(s)

(* enumeration/mod.rs:307-314.  When the store is laid down all the litter is gone,     *)
(* also above a nested repository and beside an orphan .git, and nothing else is: the    *)
(* stores of nested repositories, the user's directories, other trees; where a start       *)
(* is in no repository nothing is touched at all.                                     *)
SweepIsExact ==
  /\ walk.phase = "laid" =>
       \A d \in Dir \ {walk.root} :
         claudix[d] \in IF ~Litter(d) THEN {walk.before[d]}
                       ELSE IF d \in walk.failed THEN {"none", "store"} ELSE {"none"}
  /\ walk.phase = "refused" => claudix = walk.before
=============================================================================
