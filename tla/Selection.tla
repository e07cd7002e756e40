------------------------------ MODULE Selection ------------------------------
(***************************************************************************)
(* Which files are indexed, decided twice: for the whole tree by a full index     *)
(* (enumeration/mod.rs, enumerate) and for one file by a reindex of it (lib.rs,    *)
(* reindex_file), from the .gitignore, .indexignore and .indexinclude files of      *)
(* the directories above it.                                                 *)
(*                                                                         *)
(* One file, at depth Depth.  What the patterns of a rule file match is the file,    *)
(* the next directory on the way to it, or neither; patterns that take back others   *)
(* (!) are left out, and .git/info/exclude and the user's ignore file with them.     *)
(***************************************************************************)
EXTENDS Naturals

CONSTANT Depth

ASSUME SelectionAssumption == Depth \in Nat

Level == 0..Depth

VARIABLES
  rules,    \* what the rule files of each level match
  file,     \* what is there: its kind, its version, and whether git tracks it
  settings, \* of the configuration
  row,      \* the rows it has: how they were cut, and of which version
  phase

selVars == <<rules, file, settings, row, phase>>

NoRow == [cut |-> "none", version |-> 0]
Kind == {"file", "link", "large", "gone"}

SelTypeOK ==
  /\ phase \in {"none", "laid", "indexed", "edited", "reindexed"}
  /\ row \in [cut : {"none", "grammar", "lines"}, version : {0, 1}]

SelInit ==
  /\ rules = [gitignore |-> [l \in Level |-> "none"],
              ignore |-> [l \in Level |-> FALSE], include |-> [l \in Level |-> FALSE]]
  /\ file = [kind |-> "file", version |-> 0, tracked |-> FALSE, known |-> TRUE]
  /\ settings = [respect_gitignore |-> TRUE, follow_symlinks |-> FALSE]
  /\ row = NoRow
  /\ phase = "none"

-----------------------------------------------------------------------------
(* list_candidate_paths: what git tracks, and what a walk that minds .gitignore finds; *)
(* of a link a walk makes nothing.                                              *)
PrunedAbove(l) ==
  settings.respect_gitignore /\ \E k \in 0..(l - 1) : rules.gitignore[k] = "directory"

Walkable == file.kind \in {"file", "large"}
Ignored == \E l \in Level : rules.gitignore[l] # "none"
Candidate ==
  file.tracked \/ (Walkable /\ (settings.respect_gitignore => ~Ignored))

HasRule(l) == rules.ignore[l] \/ rules.include[l]

(* index_rules_present: at the top, in a directory of the top, or on the list.           *)
IndexRulesPresent == \E l \in Level : HasRule(l) /\ (l <= 1 \/ ~PrunedAbove(l))

(* PathFilters::from_paths over list_all_paths, or the default.                          *)
ForceIncluded == IndexRulesPresent /\ \E l \in Level : rules.include[l]
Included == ForceIncluded \/ ~IndexRulesPresent \/ \A l \in Level : ~rules.ignore[l]

(* enumerate_one.                                                             *)
IsIndexable == file.kind = "file" \/ (file.kind = "link" /\ settings.follow_symlinks)

(* collect_file_chunks: a file without a grammar is cut by lines, if it was asked for.    *)
RowsOf(forced) ==
  CASE file.known -> [cut |-> "grammar", version |-> file.version]
    [] ~file.known /\ forced -> [cut |-> "lines", version |-> file.version]
    [] OTHER -> NoRow

(* enumerate, and what index_full makes of it.                                         *)
FullRow ==
  IF (Candidate \/ (ForceIncluded /\ Walkable)) /\ Included /\ IsIndexable
    THEN RowsOf(ForceIncluded) ELSE NoRow

(* Mutant: what is ignored is looked at before what is asked for. *)
IsWatchableIgnoreFirst == rules.gitignore[0] = "none" /\ ~rules.ignore[0]

(* WatchFilter: the rule files of the top, .indexinclude first.                         *)
IsWatchable == rules.include[0] \/ (rules.gitignore[0] = "none" /\ ~rules.ignore[0])

(* PathFilters::for_path: those of every directory above the file.                       *)
ForcedByPath == \E l \in Level : rules.include[l]

-----------------------------------------------------------------------------
LayOut ==
  /\ phase = "none"
  /\ phase' = "laid"
  /\ \E g \in [Level -> {"none", "file", "directory"}], i, n \in [Level -> BOOLEAN] :
       /\ g[Depth] # "directory"
       /\ rules' = [gitignore |-> g, ignore |-> i, include |-> n]
  /\ \E k \in {"file", "link"}, t, w \in BOOLEAN :
       file' = [kind |-> k, version |-> 0, tracked |-> t, known |-> w]
  /\ \E r, s \in BOOLEAN :
       settings' = [respect_gitignore |-> r, follow_symlinks |-> s]
  /\ UNCHANGED row

IndexTree ==
  /\ phase = "laid"
  /\ phase' = "indexed"
  /\ row' = FullRow
  /\ UNCHANGED <<rules, file, settings>>

EditFileAt ==
  /\ phase = "indexed"
  /\ phase' = "edited"
  /\ \E k \in Kind :
       /\ k = "link" => file.kind = "link"
       /\ file' = [file EXCEPT !.kind = k, !.version = 1]
  /\ UNCHANGED <<rules, settings, row>>

ReindexOne ==
  /\ phase = "edited"
  /\ phase' = "reindexed"
  /\ row' = IF ~IsWatchable THEN row
            ELSE IF IsIndexable THEN RowsOf(ForcedByPath) ELSE NoRow
  /\ UNCHANGED <<rules, file, settings>>

SelNext == LayOut \/ IndexTree \/ EditFileAt \/ ReindexOne

SelSpec == SelInit /\ [][SelNext]_selVars

-----------------------------------------------------------------------------
RulesAtTheTop ==
  \A l \in 1..Depth : rules.gitignore[l] = "none" /\ ~HasRule(l)

(* The reindex of a file leaves what a full index would leave, as long as every rule file *)
(* is at the top, .gitignore is minded, and git tracks no ignored file and the file is no    *)
(* link; and wherever both take the file they cut it alike (lib.rs:472-476), unless the      *)
(* full index misses a rule that lies deep in an ignored directory                            *)
(* (enumeration/mod.rs:172-176).                                                *)
SelectionAgrees ==
  phase = "reindexed" =>
    /\ RulesAtTheTop /\ settings.respect_gitignore /\ ~file.tracked /\ file.kind # "link"
         => row = FullRow
    /\ IsWatchable /\ IsIndexable /\ FullRow # NoRow
       /\ (IndexRulesPresent \/ \A l \in Level : ~HasRule(l)) => row = FullRow
=============================================================================
