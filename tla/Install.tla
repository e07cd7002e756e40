------------------------------- MODULE Install -------------------------------
(* `claudix install` from a checkout (cli/install.rs): the plugin's files are  *)
(* copied to CLAUDE_PLUGIN_ROOT or to the checkout's own target directory, then *)
(* the global configuration is written. A run may die between any two calls, and *)
(* the checkout may change between two runs.                                 *)
EXTENDS Naturals, Sequences

CONSTANTS
  Entry,        \* the files of the commands directory of some release
  MaxKills,     \* bound: runs that die
  MaxUpdates    \* bound: changes of the checkout

ASSUME InstallAssumption ==
  /\ Entry \cap {"manifest", "hooks", "launcher"} = {}
  /\ MaxKills \in Nat
  /\ MaxUpdates \in Nat

VARIABLES
  checkout,     \* the release each file of the checkout is of, 0 where it has none
  plugin,       \* per root and file: the release its content is of, 0 none
  globalConfig, \* "none", "part", "default" or "user"
  chosen,       \* the root the run has chosen
  stepAt,       \* the file the run is at, "config", "ok", "failed", "idle"
  removing,     \* TRUE between the start of remove_dir_all and its end
  kills, updates

installVars == <<checkout, plugin, globalConfig, chosen, stepAt, removing, kills, updates>>

Single == {"manifest", "hooks", "launcher"}
Copied == Single \cup Entry
PluginRoot == {"env", "local"}
CutShort == MaxUpdates + 2   \* in place of a release: a content cut short

After(step) ==
  CASE step = "manifest" -> "hooks"
    [] step = "hooks" -> "launcher"
    [] step = "launcher" -> "commands"
    [] step = "commands" -> "config"
    [] step = "config" -> "ok"

(* is_claudix_plugin_root: the manifest is there and names the plugin.              *)
IsPluginRoot(root) == plugin[root]["manifest"] \notin {0, CutShort}

InstallInit ==
  /\ checkout \in [Copied -> {0, 1}] /\ \A f \in Single : checkout[f] = 1
  /\ \E f \in Entry : checkout[f] = 1
  /\ plugin \in [PluginRoot -> {[f \in Copied |-> 0], [f \in Copied |-> 1]}]
  /\ globalConfig \in {"none", "user"}
  /\ chosen = "env" /\ stepAt = "idle" /\ removing = FALSE
  /\ kills = 0 /\ updates = 0

(* plugin_root_from_env. The project is the checkout, and CLAUDE_PLUGIN_ROOT names     *)
(* the root "env" whether or not a plugin is there.                              *)
PluginRootFromEnv == IF IsPluginRoot("env") THEN "env" ELSE "local"

BeginInstall ==
  /\ stepAt \in {"idle", "ok", "failed"}
  /\ chosen' = PluginRootFromEnv
  /\ stepAt' = "manifest"
  /\ UNCHANGED <<checkout, plugin, globalConfig, removing, kills, updates>>

FilesMatchByLength(f) == plugin[chosen][f] \notin {0, CutShort}
FilesMatch(f) == plugin[chosen][f] = checkout[f]

(* copy_plugin_asset: a match is left alone; fs::copy empties the file and fills it.    *)
SkipFile ==
  /\ stepAt \in Single /\ FilesMatch(stepAt)
  /\ stepAt' = After(stepAt)
  /\ UNCHANGED <<checkout, plugin, globalConfig, chosen, removing, kills, updates>>

EmptyFile ==
  /\ stepAt \in Single /\ ~FilesMatch(stepAt)
  /\ plugin[chosen][stepAt] # CutShort
  /\ plugin' = [plugin EXCEPT ![chosen][stepAt] = CutShort]
  /\ UNCHANGED <<checkout, globalConfig, chosen, stepAt, removing, kills, updates>>

FillFile ==
  /\ stepAt \in Single /\ plugin[chosen][stepAt] = CutShort
  /\ plugin' = [plugin EXCEPT ![chosen][stepAt] = checkout[stepAt]]
  /\ stepAt' = After(stepAt)
  /\ UNCHANGED <<checkout, globalConfig, chosen, removing, kills, updates>>

DirectoriesMatchOneWay == \A f \in Entry : checkout[f] # 0 => FilesMatch(f)
DirectoriesMatch ==
  \A f \in Entry : IF checkout[f] = 0 THEN plugin[chosen][f] = 0 ELSE FilesMatch(f)

(* copy_plugin_directory: what is there goes entry by entry, then the source's entries  *)
(* are copied one by one.                                                       *)
SkipDirectory ==
  /\ stepAt = "commands" /\ DirectoriesMatch
  /\ stepAt' = "config"
  /\ UNCHANGED <<checkout, plugin, globalConfig, chosen, removing, kills, updates>>

StartRemoval ==
  /\ stepAt = "commands" /\ ~DirectoriesMatch
  /\ stepAt' = "copying" /\ removing' = TRUE
  /\ UNCHANGED <<checkout, plugin, globalConfig, chosen, kills, updates>>

RemoveEntry ==
  /\ stepAt = "copying" /\ removing
  /\ \E f \in Entry :
       /\ plugin[chosen][f] # 0
       /\ plugin' = [plugin EXCEPT ![chosen][f] = 0]
  /\ UNCHANGED <<checkout, globalConfig, chosen, stepAt, removing, kills, updates>>

EndRemoval ==
  /\ stepAt = "copying" /\ removing
  /\ \A f \in Entry : plugin[chosen][f] = 0
  /\ removing' = FALSE
  /\ UNCHANGED <<checkout, plugin, globalConfig, chosen, stepAt, kills, updates>>

CopyEntry ==
  /\ stepAt = "copying" /\ ~removing
  /\ \E f \in Entry :
       /\ checkout[f] # 0
       /\ plugin[chosen][f] \in {0, CutShort}
       /\ \A g \in Entry \ {f} : plugin[chosen][g] # CutShort
       /\ plugin' = [plugin EXCEPT ![chosen][f] = IF @ = 0 THEN CutShort ELSE checkout[f]]
  /\ UNCHANGED <<checkout, globalConfig, chosen, stepAt, removing, kills, updates>>

EndDirectory ==
  /\ stepAt = "copying" /\ ~removing
  /\ \A f \in Entry : plugin[chosen][f] = checkout[f]
  /\ stepAt' = "config"
  /\ UNCHANGED <<checkout, plugin, globalConfig, chosen, removing, kills, updates>>

(* ensure_global_config: a file that is there, an emptied one too, is left alone.       *)
EnsureGlobalConfig ==
  /\ stepAt = "config"
  /\ \/ globalConfig = "none" /\ globalConfig' = "part" /\ stepAt' = "writing config"
     \/ globalConfig # "none" /\ stepAt' \in {"ok", "failed"} /\ UNCHANGED globalConfig
  /\ UNCHANGED <<checkout, plugin, chosen, removing, kills, updates>>

(* What follows, loading the configuration and building the index, may fail.         *)
WriteGlobalConfig ==
  /\ stepAt = "writing config"
  /\ globalConfig' = "default"
  /\ stepAt' \in {"ok", "failed"}
  /\ UNCHANGED <<checkout, plugin, chosen, removing, kills, updates>>

KillInstall ==
  /\ stepAt \notin {"idle", "ok", "failed"} /\ kills < MaxKills
  /\ kills' = kills + 1
  /\ stepAt' = "failed" /\ removing' = FALSE
  /\ UNCHANGED <<checkout, plugin, globalConfig, chosen, updates>>

(* A new release in the checkout: some files change, entries come and go.             *)
UpdateCheckout ==
  /\ stepAt \in {"idle", "ok", "failed"} /\ updates < MaxUpdates
  /\ \E changed \in (SUBSET Copied) \ {{}} :
       checkout' = [f \in Copied |->
         IF f \notin changed THEN checkout[f]
         ELSE IF f \in Entry /\ checkout[f] # 0 THEN 0 ELSE updates + 2]
  /\ \E f \in Entry : checkout'[f] # 0
  /\ updates' = updates + 1
  /\ stepAt' = "idle"
  /\ UNCHANGED <<plugin, globalConfig, chosen, removing, kills>>

InstallNext ==
  \/ BeginInstall \/ SkipFile \/ EmptyFile \/ FillFile
  \/ SkipDirectory \/ StartRemoval \/ RemoveEntry \/ EndRemoval \/ CopyEntry \/ EndDirectory
  \/ EnsureGlobalConfig \/ WriteGlobalConfig \/ KillInstall \/ UpdateCheckout

InstallSpec == InstallInit /\ [][InstallNext]_installVars

-----------------------------------------------------------------------------
InstallTypeOK ==
  /\ checkout \in [Copied -> 0..(MaxUpdates + 1)]
  /\ plugin \in [PluginRoot -> [Copied -> (0..(MaxUpdates + 1)) \cup {CutShort}]]
  /\ globalConfig \in {"none", "part", "default", "user"}
  /\ chosen \in PluginRoot /\ removing \in BOOLEAN
  /\ stepAt \in Single \cup {"commands", "copying", "config", "writing config",
                             "ok", "failed", "idle"}

(* An install that reports success has left in the root it chose what the checkout       *)
(* holds and nothing else, whatever runs died there before, and a configuration: a file      *)
(* cut short or of another release never counts as copied (install.rs:82, 105).              *)
InstalledIsSource ==
  stepAt = "ok" =>
    /\ plugin[chosen] = checkout
    /\ IsPluginRoot(chosen)
    /\ globalConfig # "none"
=============================================================================
