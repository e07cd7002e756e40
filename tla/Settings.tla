------------------------------- MODULE Settings -------------------------------
(***************************************************************************)
(* The configuration (config/mod.rs, merge.rs, validate.rs): a global file and the    *)
(* project's, merged field by field over the defaults and accepted or refused as a     *)
(* whole; and the one setting the launcher reads for itself, with a pattern and not      *)
(* with a parser (bin/claudix-bootstrap.js, developmentModeOn).                        *)
(*                                                                         *)
(* Values stand for what validate tells apart; numbers for their order.              *)
(***************************************************************************)
EXTENDS Naturals, FiniteSets

CONSTANTS
  Field,       \* the fields the files of this instance may set
  MaxSettings  \* settings in all files together

(* The fields, by what they may hold.                                              *)
Switch == {"watch", "development_mode", "respect_gitignore", "follow_symlinks",
           "intercept_grep", "auto_reembed_on_edit", "auto_index_on_session_start",
           "surface_related_on_edit", "surface_related_on_read"}
Count == {"batch_size", "timeout_ms", "max_file_size_kb", "reindex_after_hours",
          "related_top_k", "top_k", "reindex_debounce_secs", "reindex_max_wait_secs"}
Fraction == {"related_min_similarity", "similarity_threshold", "min_score"}
Weight == {"dense", "bm25", "rrf"}
Place == {"index_dir", "log_dir"}
Identity == {"provider", "endpoint", "model", "dimensions"}
OwnKind == {"identifier_boost", "chunk_overlap_lines", "cross_repos"}

AllFields == Switch \union Count \union Fraction \union Weight \union Place \union Identity \union OwnKind

ASSUME SettingsAssumption == Field \subseteq AllFields /\ MaxSettings \in Nat

Values(f) ==
  CASE f \in Switch -> BOOLEAN
    [] f \in Count -> 0..3
    [] f \in Fraction -> {"below", "within", "above"}
    [] f \in Weight \union {"identifier_boost"} -> {"not_finite", "negative", "zero", "positive"}
    [] f \in Place -> {"inside", "outside"}
    [] f = "provider" -> {"bundled", "http"}
    [] f = "endpoint" -> {"blank", "url"}
    [] f = "model" -> {"gte", "bge", "other"}
    [] f = "dimensions" -> {0, 384, 768}
    [] f = "chunk_overlap_lines" -> {"under", "over"}
    [] f = "cross_repos" -> {"named", "blank"}

(* Config::default                                                                *)
OffByDefault == {"watch", "development_mode", "follow_symlinks", "surface_related_on_read"}

Default ==
  [f \in AllFields |->
    CASE f \in OffByDefault -> FALSE
      [] f \in Switch \ OffByDefault -> TRUE
      [] f = "reindex_max_wait_secs" -> 2
      [] f \in Count \ {"reindex_max_wait_secs"} -> 1
      [] f \in Fraction -> "within"
      [] f \in Weight \union {"identifier_boost"} -> "positive"
      [] f \in Place -> "inside"
      [] f = "provider" -> "bundled"
      [] f = "endpoint" -> "blank"
      [] f = "model" -> "gte"
      [] f = "dimensions" -> 768
      [] f = "chunk_overlap_lines" -> "under"
      [] f = "cross_repos" -> "named"]

(* What the first sets, and the other where the first is silent.                        *)
Over(first, other) ==
  [f \in DOMAIN first \union DOMAIN other |-> IF f \in DOMAIN first THEN first[f] ELSE other[f]]

Layer == {"global", "project"}

VARIABLES
  stated,   \* what each file sets: field to value
  section, \* whether development_mode stands below a section's header in a file
  session  \* whether the session was started in the root of the repository

settingVars == <<stated, section, session>>

SettingsMade == Cardinality(DOMAIN stated["global"]) + Cardinality(DOMAIN stated["project"])

SettingsTypeOK ==
  /\ \A l \in Layer : DOMAIN stated[l] \subseteq Field
  /\ \A l \in Layer : \A f \in DOMAIN stated[l] : stated[l][f] \in Values(f)
  /\ section \in [Layer -> BOOLEAN]
  /\ SettingsMade <= MaxSettings

SettingsInit ==
  /\ stated = [l \in Layer |-> <<>>]
  /\ section \in [Layer -> BOOLEAN]
  /\ session \in {"root", "below"}
  /\ session = "below" => section = [l \in Layer |-> FALSE]

-----------------------------------------------------------------------------
(* The user edits a file.                                                          *)
Write(l, f, v) ==
  /\ SettingsMade < MaxSettings
  /\ stated' = [stated EXCEPT ![l] = Over([g \in {f} |-> v], @)]
  /\ UNCHANGED <<section, session>>

SettingsNext ==
  \E l \in Layer, f \in Field : \E v \in Values(f) : Write(l, f, v)

SettingsSpec == SettingsInit /\ [][SettingsNext]_settingVars

-----------------------------------------------------------------------------
(* What a parser sees: a key below a section's header is not the setting.             *)
Partial(l) ==
  [f \in DOMAIN stated[l] \ (IF section[l] THEN {"development_mode"} ELSE {}) |-> stated[l][f]]

(* The first of them wins.                                                         *)
MergeGlobalFirst(partial, other) == Over(partial, other)

(* PartialConfig::merge: field by field, the later file wins.                         *)
Merge(partial, other) == Over(other, partial)

Config == Over(Merge(Partial("global"), Partial("project")), Default)

ModelWidth == [model \in {"gte", "bge"} |-> IF model = "gte" THEN 768 ELSE 384]

Validate(c) ==
  /\ \A f \in Place : c[f] = "inside"
  /\ c["provider"] = "http" => c["endpoint"] # "blank"
  /\ c["provider"] = "bundled" =>
       c["model"] \in DOMAIN ModelWidth /\ ModelWidth[c["model"]] = c["dimensions"]
  /\ c["dimensions"] # 0
  /\ \A f \in Count : c[f] # 0
  /\ c["reindex_max_wait_secs"] >= c["reindex_debounce_secs"]
  /\ \A f \in Fraction : c[f] = "within"
  /\ c["chunk_overlap_lines"] = "under" /\ c["cross_repos"] = "named"
  /\ c["identifier_boost"] = "positive"
  /\ \A w \in Weight : c[w] \in {"zero", "positive"}
  /\ \E w \in Weight : c[w] # "zero"

(* Each file is valid over the defaults.                                            *)
AcceptedEach ==
  Validate(Over(Partial("global"), Default)) /\ Validate(Over(Partial("project"), Default))

Accepted == Validate(Config)

(* configDevValue: any line that starts with the key, wherever it stands; the project   *)
(* is the directory of the session.                                                 *)
DevValue(l) ==
  IF "development_mode" \in DOMAIN stated[l] /\ (l = "project" => session = "root")
  THEN {stated[l]["development_mode"]} ELSE {}

(* The home file is asked first.                                                    *)
DevelopmentModeOnHomeFirst ==
  TRUE \in IF DevValue("global") = {} THEN DevValue("project") ELSE DevValue("global")

DevelopmentModeOn ==
  TRUE \in IF DevValue("project") = {} THEN DevValue("global") ELSE DevValue("project")

-----------------------------------------------------------------------------
(* config/mod.rs:192-231, merge.rs.  A configuration that is accepted is right as a      *)
(* whole, whichever file a part of it comes from: a bundled model has its own width,     *)
(* an endpoint is named where one is used, the hard cap does not cut the idle window     *)
(* short, and some weight counts; and what the project sets is what holds.              *)
AcceptedIsWhole ==
  Accepted =>
    /\ Config["provider"] = "bundled" => <<Config["model"], Config["dimensions"]>> \in {<<"gte", 768>>, <<"bge", 384>>}
    /\ Config["provider"] = "http" => Config["endpoint"] = "url"
    /\ 0 < Config["reindex_debounce_secs"]
    /\ Config["reindex_debounce_secs"] <= Config["reindex_max_wait_secs"]
    /\ {w \in Weight : Config[w] = "positive"} # {}
    /\ \A f \in DOMAIN Partial("project") : Config[f] = stated["project"][f]

(* bin/claudix-bootstrap.js:171, config/mod.rs:117-121.  The launcher starts the binary  *)
(* doctor speaks of, where the session is in the root of the repository and the key is    *)
(* above the sections.  (Elsewhere the two may differ.)                               *)
DevelopmentModeAgrees ==
  (session = "root" /\ \A l \in Layer : ~section[l]) =>
    (DevelopmentModeOn <=> Config["development_mode"])

(* Every reader of the settings finds the same ones in the files.                           *)
SettingsAgree == AcceptedIsWhole /\ DevelopmentModeAgrees
=============================================================================
