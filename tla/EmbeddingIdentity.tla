--------------------------- MODULE EmbeddingIdentity ---------------------------
(***************************************************************************)
(* Which embedding model the vectors of the table, the manifest, a provider   *)
(* and a query are of.  The configuration may change at any time; a full      *)
(* index rebuilds a store of another model (IndexSession::new), a drain worker *)
(* or watcher checks the model once, when it starts (Claudix::with_embedder),   *)
(* and a search ranks the rows it has read against the vector of its query     *)
(* (search_code of the MCP server, the interception of a grep).              *)
(*                                                                         *)
(* A step is a commit of the table, a manifest write or a read.  Writers are   *)
(* serialized by the lock of IndexLock.  What a full index finds changed, the   *)
(* chunks of a file and the ranking are left open; IndexStore has the hashes.  *)
(* A search of several repositories and of other schema versions is left out.  *)
(***************************************************************************)
EXTENDS Naturals

CONSTANTS
  TableFile,
  Model,       \* embedding models
  Width,       \* the dimensions of each; 0 is no table
  Search,      \* searches of the MCP server
  Grep,        \* PreToolUse hooks
  LongLived,   \* whether a drain worker or watcher may be running
  MaxChanges,  \* bound: changes of the configuration
  MaxInterruptions,   \* bound: writers that die
  NoModel

Reader == Search \cup Grep

ASSUME IdentityAssumption ==
  /\ Width \in [Model -> Nat \ {0}]
  /\ NoModel \notin Model
  /\ Search \cap Grep = {}
  /\ LongLived \in BOOLEAN
  /\ {MaxChanges, MaxInterruptions} \subseteq Nat

VARIABLES
  config,    \* embedding.model of the configuration
  recorded,  \* its model, and whether it records a full index of some chunks
  rows,      \* the model of each file's vectors; NoModel when it has no rows
  width,     \* the vector width of the table
  writer,    \* the operation that holds the lock
  worker,    \* the model of the running worker; NoModel when there is none
  cache,     \* the provider in the MCP server's ProviderCache
  reader,    \* where each search and hook is
  excused,   \* history: the readers that a rebuild overtook, or that saw no manifest
  tainted,   \* history: since it was last emptied the table was written under a
             \* manifest of another model, or kept rows no manifest spoke for
  changes, interruptions

store == <<recorded, rows, width, tainted>>
identityVars == <<config, store, writer, worker, cache, reader, excused, changes, interruptions>>

NoManifest == [model |-> NoModel, indexed |-> FALSE]
AtRest == [at |-> "idle"]
StoredFiles == {f \in TableFile : rows[f] # NoModel}

IdentityTypeOK ==
  /\ config \in Model
  /\ recorded \in [model : Model, indexed : BOOLEAN] \cup {NoManifest}
  /\ rows \in [TableFile -> Model \cup {NoModel}]
  /\ width \in {Width[m] : m \in Model} \cup {0}
  /\ \A f \in StoredFiles : Width[rows[f]] = width
  /\ writer \in {AtRest} \cup [at : {"drop", "reset", "scan"}, model : Model]
                       \cup [at : {"fill"}, model : Model, todo : SUBSET TableFile]
                       \cup [at : {"delete", "append", "tally"}, model : Model, file : TableFile]
  /\ worker \in Model \cup {NoModel}
  /\ cache \in Model \cup {NoModel}
  /\ reader \in [Reader -> {AtRest} \cup [at : {"warm"}, model : Model, of : Model]
                                  \cup [at : {"rows"}, model : Model, gate : BOOLEAN]
                                  \cup [at : {"gate", "rank"}, model : Model \cup {NoModel},
                                        got : SUBSET Model]]
  /\ excused \subseteq Reader
  /\ tainted \in BOOLEAN
  /\ changes \in 0..MaxChanges
  /\ interruptions \in 0..MaxInterruptions

IdentityInit ==
  /\ config \in Model
  /\ recorded = NoManifest
  /\ rows = [f \in TableFile |-> NoModel]
  /\ width = 0
  /\ writer = AtRest
  /\ worker = NoModel
  /\ cache = NoModel
  /\ reader = [r \in Reader |-> AtRest]
  /\ excused = {}
  /\ tainted = FALSE
  /\ changes = 0
  /\ interruptions = 0

-----------------------------------------------------------------------------
(* Mutant: a store of the same width is taken for compatible. *)
CompatibleByWidth(m) == IF recorded = NoManifest THEN TRUE ELSE Width[recorded.model] = Width[m]

(* validate_manifest_compatibility: no manifest is compatible with every model.  *)
Compatible(m) == recorded.model \in {NoModel, m}

(* A row commit of vectors of m: the table is created with their width, or has it. *)
Fits(m) == width \in {0, Width[m]}

(* Readers in flight that a rebuild may have overtaken.                        *)
Overtaken == {r \in Reader : reader[r] # AtRest}
SetManifest(m, indexed) ==
  /\ recorded' = [model |-> m, indexed |-> indexed]
  /\ excused' = IF recorded.model = m THEN excused ELSE excused \cup Overtaken

ChangeConfig ==
  /\ changes < MaxChanges
  /\ \E m \in Model \ {config} : config' = m
  /\ changes' = changes + 1
  /\ UNCHANGED <<store, writer, worker, cache, reader, excused, interruptions>>

-----------------------------------------------------------------------------
(* IndexSession::new and index_full: an incompatible store is cleared first.     *)
BeginIndex ==
  /\ writer = AtRest
  /\ writer' = [at |-> IF Compatible(config) THEN "scan" ELSE "drop", model |-> config]
  /\ UNCHANGED <<config, store, worker, cache, reader, excused, changes, interruptions>>

EmptyTable ==
  /\ writer.at = "drop"
  /\ writer' = [writer EXCEPT !.at = "reset"]
  /\ rows' = [f \in TableFile |-> NoModel]
  /\ width' = 0
  /\ tainted' = FALSE
  /\ UNCHANGED <<config, recorded, worker, cache, reader, excused, changes, interruptions>>

ForgetManifest ==
  /\ writer.at = "reset"
  /\ writer' = [writer EXCEPT !.at = "scan"]
  /\ SetManifest(writer.model, FALSE)
  /\ UNCHANGED <<config, rows, width, tainted, worker, cache, reader, changes, interruptions>>

(* incremental_file_state goes by content hashes, whatever model a row is of: a    *)
(* file without rows is changed, another may be.  The rows of changed files go,   *)
(* or the whole table when no row stays.                                      *)
Scan ==
  /\ writer.at = "scan"
  /\ \E changed \in SUBSET TableFile :
       /\ TableFile \ StoredFiles \subseteq changed
       /\ writer' = [at |-> "fill", model |-> writer.model, todo |-> changed]
       /\ rows' = [f \in TableFile |-> IF f \in changed THEN NoModel ELSE rows[f]]
       /\ width' = IF changed = TableFile THEN Width[writer.model] ELSE width
       /\ tainted' = /\ changed # TableFile
                     /\ \/ tainted
                        \/ recorded = NoManifest /\ \E f \in TableFile \ changed : rows[f] # writer.model
  /\ UNCHANGED <<config, recorded, worker, cache, reader, excused, changes, interruptions>>

Fill(f) ==
  /\ writer.at = "fill"
  /\ f \in writer.todo
  /\ IF Fits(writer.model)
     THEN /\ rows' = [rows EXCEPT ![f] = writer.model]
          /\ width' = Width[writer.model]
          /\ writer' = [writer EXCEPT !.todo = @ \ {f}]
     ELSE writer' = AtRest /\ UNCHANGED <<rows, width>>
  /\ UNCHANGED <<config, recorded, tainted, worker, cache, reader, excused, changes, interruptions>>

EndIndexRun ==
  /\ writer.at = "fill"
  /\ writer.todo = {}
  /\ writer' = AtRest
  /\ SetManifest(writer.model, StoredFiles # {})
  /\ UNCHANGED <<config, rows, width, tainted, worker, cache, reader, changes, interruptions>>

(* The writer is killed, or an embedding fails; the lock is free again.          *)
Die ==
  /\ writer # AtRest
  /\ interruptions < MaxInterruptions
  /\ interruptions' = interruptions + 1
  /\ writer' = AtRest
  /\ UNCHANGED <<config, store, worker, cache, reader, excused, changes>>

-----------------------------------------------------------------------------
(* A drain worker or a watcher: its provider is built and checked once.          *)
StartWorker ==
  /\ LongLived
  /\ worker = NoModel
  /\ Compatible(config)
  /\ worker' = config
  /\ UNCHANGED <<config, store, writer, cache, reader, excused, changes, interruptions>>

StopWorker ==
  /\ worker # NoModel
  /\ writer.at \notin {"delete", "append", "tally"}
  /\ worker' = NoModel
  /\ UNCHANGED <<config, store, writer, cache, reader, excused, changes, interruptions>>

BeginReindex(f) ==
  /\ writer = AtRest
  /\ worker # NoModel
  /\ writer' = [at |-> "delete", model |-> worker, file |-> f]
  /\ UNCHANGED <<config, store, worker, cache, reader, excused, changes, interruptions>>

(* A write by a worker that the manifest, or a row without one, does not match.   *)
Mismatched ==
  IF recorded = NoManifest THEN \E f \in StoredFiles : rows[f] # writer.model
  ELSE recorded.model # writer.model

DeleteRows ==
  /\ writer.at = "delete"
  /\ writer' = [writer EXCEPT !.at = "append"]
  /\ rows' = [rows EXCEPT ![writer.file] = NoModel]
  /\ width' = IF width = 0 THEN Width[writer.model] ELSE width
  /\ tainted' = (tainted \/ Mismatched)
  /\ UNCHANGED <<config, recorded, worker, cache, reader, excused, changes, interruptions>>

(* The new rows, if the file has chunks; an append of another width fails.       *)
AppendVectors ==
  /\ writer.at = "append"
  /\ \/ /\ writer' = [writer EXCEPT !.at = "tally"]
        /\ UNCHANGED <<rows, width>>
     \/ /\ Fits(writer.model)
        /\ writer' = [writer EXCEPT !.at = "tally"]
        /\ rows' = [rows EXCEPT ![writer.file] = writer.model]
        /\ width' = Width[writer.model]
     \/ /\ ~Fits(writer.model)
        /\ writer' = AtRest
        /\ UNCHANGED <<rows, width>>
  /\ UNCHANGED <<config, recorded, tainted, worker, cache, reader, excused, changes, interruptions>>

TallyRows ==
  /\ writer.at = "tally"
  /\ writer' = AtRest
  /\ SetManifest(writer.model, recorded.indexed)
  /\ UNCHANGED <<config, rows, width, tainted, worker, cache, reader, changes, interruptions>>

-----------------------------------------------------------------------------
MovesTo(r, to) == reader' = [reader EXCEPT ![r] = to]

(* ProviderCache::get_or_build: the cached provider is kept while its             *)
(* configuration stays.                                                      *)
ProviderFor(c) == IF cache = c THEN cache ELSE c

(* search_code: a mismatch is left to the gate below.                           *)
BeginSearch(r) ==
  /\ r \in Search
  /\ reader[r] = AtRest
  /\ MovesTo(r, [at |-> "rows", model |-> ProviderFor(config), gate |-> TRUE])
  /\ cache' = ProviderFor(config)
  /\ excused' = excused \ {r}
  /\ UNCHANGED <<config, store, writer, worker, changes, interruptions>>

(* An intercepted grep: the manifest is of a full index with chunks.             *)
BeginGrep(r) ==
  /\ r \in Grep
  /\ reader[r] = AtRest
  /\ recorded.indexed
  /\ MovesTo(r, [at |-> "warm", model |-> config, of |-> recorded.model])
  /\ excused' = excused \ {r}
  /\ UNCHANGED <<config, store, writer, worker, cache, changes, interruptions>>

(* Mutant: any vector of the table's width is used. *)
WarmEmbedByWidth(r) ==
  /\ reader[r].at = "warm"
  /\ LET v == ProviderFor(config) IN
       /\ cache' = v
       /\ Width[v] = Width[reader[r].of]
       /\ MovesTo(r, [at |-> "rows", model |-> v, gate |-> FALSE])
  /\ UNCHANGED <<config, store, writer, worker, excused, changes, interruptions>>

(* The side channel embeds with the configuration of that moment; a vector of the  *)
(* manifest's model is used.                                                  *)
WarmEmbed(r) ==
  /\ reader[r].at = "warm"
  /\ LET v == ProviderFor(config) IN
       /\ cache' = v
       /\ v = reader[r].of
       /\ MovesTo(r, [at |-> "rows", model |-> v, gate |-> FALSE])
  /\ UNCHANGED <<config, store, writer, worker, excused, changes, interruptions>>

(* No such vector: the grep passes through.                                    *)
PassThrough(r) ==
  /\ reader[r].at = "warm"
  /\ MovesTo(r, AtRest)
  /\ UNCHANGED <<config, store, writer, worker, cache, excused, changes, interruptions>>

(* Or, with an embedding endpoint, the hook builds a provider of its own and       *)
(* searches if it is compatible.                                              *)
ColdSearch(r) ==
  /\ reader[r].at = "warm"
  /\ Compatible(reader[r].model)
  /\ MovesTo(r, [at |-> "rows", model |-> reader[r].model, gate |-> TRUE])
  /\ UNCHANGED <<config, store, writer, worker, cache, excused, changes, interruptions>>

(* collect_labeled_rows comes first.                                          *)
ReadRows(r) ==
  /\ reader[r].at = "rows"
  /\ MovesTo(r, [at |-> IF reader[r].gate THEN "gate" ELSE "rank",
              model |-> reader[r].model, got |-> {rows[f] : f \in StoredFiles}])
  /\ excused' = IF tainted THEN excused \cup {r} ELSE excused
  /\ UNCHANGED <<config, store, writer, worker, cache, changes, interruptions>>

(* search_all: a provider that the manifest does not match, and an endpoint that   *)
(* is down, rank without a vector.                                            *)
Gate(r) ==
  /\ reader[r].at = "gate"
  /\ \E down \in BOOLEAN :
       MovesTo(r, [reader[r] EXCEPT !.at = "rank",
                                 !.model = IF Compatible(@) /\ ~down THEN @ ELSE NoModel])
  /\ excused' = IF recorded = NoManifest THEN excused \cup {r} ELSE excused
  /\ UNCHANGED <<config, store, writer, worker, cache, changes, interruptions>>

Rank(r) ==
  /\ reader[r].at = "rank"
  /\ MovesTo(r, AtRest)
  /\ UNCHANGED <<config, store, writer, worker, cache, excused, changes, interruptions>>

WriterStep ==
  \/ BeginIndex \/ EmptyTable \/ ForgetManifest \/ Scan \/ EndIndexRun
  \/ DeleteRows \/ AppendVectors \/ TallyRows \/ Die
  \/ \E f \in TableFile : Fill(f) \/ BeginReindex(f)

ReaderStep(r) ==
  \/ BeginSearch(r) \/ BeginGrep(r) \/ WarmEmbed(r) \/ PassThrough(r) \/ ColdSearch(r)
  \/ ReadRows(r) \/ Gate(r) \/ Rank(r)

IdentityNext ==
  \/ ChangeConfig
  \/ WriterStep
  \/ StartWorker \/ StopWorker
  \/ \E r \in Reader : ReaderStep(r)

IdentitySpec == IdentityInit /\ [][IdentityNext]_identityVars

-----------------------------------------------------------------------------
(* Every row is of the manifest's model, at every step and death of a writer,      *)
(* unless a worker outlived the model it was checked against or a first index      *)
(* died before there was a manifest (lib.rs:209-221).                           *)
TableHasManifestModel ==
  recorded # NoManifest /\ ~tainted => \A f \in StoredFiles : rows[f] = recorded.model

Comparable(r) ==
  reader[r].at = "rank" /\ reader[r].model # NoModel => reader[r].got \subseteq {reader[r].model}

(* search/mod.rs:172-177, pre_tool_use.rs:92-94: a dense ranking compares vectors   *)
(* of one model, also when the configuration changes under the search; a store      *)
(* that is rebuilt while it reads, or is mixed already, is beyond the gate.         *)
RankedAlike == \A r \in Reader \ excused : Comparable(r)

=============================================================================
