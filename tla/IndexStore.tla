------------------------------ MODULE IndexStore ------------------------------
(***************************************************************************)
(* The chunk table and the manifest: what a full index (lib.rs index_full),  *)
(* a per-file reindex (lib.rs reindex_file) and `clear` write to them, in    *)
(* which order, and what a failed embedding or a killed process leaves       *)
(* behind.  One operation runs at a time: that is the lock of IndexLock.     *)
(*                                                                         *)
(* A file's content is a value of Content and its hash the same value.  The    *)
(* rows of a file carry one text and one hash, which need not be the hash of   *)
(* that text: a full index hashes a file when it enumerates it and reads it    *)
(* again when it chunks it.  Windows carry whole files, an append is one       *)
(* commit of the table and so is each batch of deletes.  The manifest's        *)
(* timestamps, model and floor are left out, and so are the include rules.     *)
(***************************************************************************)
EXTENDS Naturals, FiniteSets

CONSTANTS
  File, Content,
  Chunks,       \* how many chunks each content yields
  WindowCap,    \* WindowCaps.max_chunks
  DeleteBatch,  \* DELETE_PATH_BATCH
  MaxFaults,    \* bound on failures and deaths
  None

ASSUME StoreAssumption ==
  /\ IsFiniteSet(File)
  /\ Chunks \in [Content -> Nat]
  /\ {WindowCap, DeleteBatch} \subseteq Nat \ {0}
  /\ MaxFaults \in Nat
  /\ None \notin Content \cup [hash : Content, text : Content]

VARIABLES
  disk,     \* the content of each file; None when it is absent
  table,    \* the rows of each file: the hash they carry and the text they come from
  manifest, \* whether it exists, its file_hashes and its chunk_count
  pc,       \* where the running operation is
  snap,     \* full index: the enumerated contents
  changed,  \* full index: the paths to re-embed
  todo,     \* full index: the targets not yet chunked
  window,   \* full index: the texts chunked and not yet flushed
  target,   \* reindex: the file
  got,      \* reindex: the content it has read
  missing,  \* reindex: the indexed paths its prune found absent
  torn,     \* history: an operation has changed the table and not recorded it
  doubted,  \* history: files that are what the store has on record and not in its rows
  faults

vars == <<disk, table, manifest, pc, snap, changed, todo, window, target, got,
          missing, torn, doubted, faults>>

index == <<snap, changed, todo, window>>
reindex == <<target, got, missing>>

Location == {"idle", "remove", "delete", "fill", "indexed", "insync", "embed", "drop", "append",
             "tally", "note", "prune", "pruneTally", "clear"}

Hashes == [File -> Content \cup {None}]

-----------------------------------------------------------------------------
NoHashes == [f \in File |-> None]

(* The text of a content that can have rows: None when it yields no chunk.     *)
Indexable(c) == IF c # None /\ Chunks[c] > 0 THEN c ELSE None

Stored == {f \in File : table[f] # None}

(* What the rows of each file say of it: their hash, and their text.           *)
RowHashes == [f \in File |-> IF f \in Stored THEN table[f].hash ELSE None]
RowTexts == [f \in File |-> IF f \in Stored THEN table[f].text ELSE None]

(* The chunks of files with these texts, each known by its place.              *)
ChunksOf(texts) ==
  UNION {{f} \X (1..Chunks[texts[f]]) : f \in {g \in File : texts[g] # None}}

RowCount == Cardinality(ChunksOf(RowTexts))

(* result_is_stale: what a search says of the rows of a file.                 *)
ResultIsStale(f) == disk[f] # table[f].hash

(* table_matches_manifest_chunk_count.                                      *)
TableMatches ==
  manifest.exists /\ manifest.count > 0 => RowCount = manifest.count

(* stored_file_hashes_from_metadata: the manifest's hashes, unless there are  *)
(* none or the table is empty against its claim; then those of the rows.     *)
StoredHashes ==
  IF \/ ~manifest.exists
     \/ manifest.hashes = NoHashes
     \/ Stored = {} /\ manifest.count > 0
  THEN RowHashes
  ELSE manifest.hashes

(* incremental_file_state: the enumerated files whose stored hash differs.   *)
Changed(files) == {f \in File : files[f] # None /\ StoredHashes[f] # files[f]}

(* Both fast paths of index_full.                                           *)
InSync(files) ==
  /\ TableMatches
  /\ Changed(files) = {}
  /\ manifest.exists
  /\ manifest.hashes = files

(* The manifest of a completed full index.                                  *)
FullManifest == [exists |-> TRUE, hashes |-> snap, count |-> RowCount]

(* Mutant: the count is carried over from the old manifest. *)
TalliedOldCount(paths) ==
  [exists |-> TRUE,
   hashes |-> [f \in File |-> IF f \in Stored THEN table[f].hash
                              ELSE IF f \in paths THEN None
                              ELSE manifest.hashes[f]],
   count |-> manifest.count]

(* The manifest of a per-file write: the hashes of the rows over the old       *)
(* ones, those of the written paths forgotten.                              *)
Tallied(paths) ==
  [exists |-> TRUE,
   hashes |-> [f \in File |-> IF f \in Stored THEN table[f].hash
                              ELSE IF f \in paths THEN None
                              ELSE manifest.hashes[f]],
   count |-> RowCount]

-----------------------------------------------------------------------------
TypeOK ==
  /\ disk \in Hashes
  /\ table \in [File -> [hash : Content, text : Content] \cup {None}]
  /\ \A f \in Stored : Chunks[table[f].text] > 0
  /\ manifest \in [exists : BOOLEAN, hashes : Hashes, count : Nat]
  /\ pc \in Location
  /\ snap \in Hashes
  /\ {changed, todo, missing} \subseteq SUBSET File
  /\ todo \subseteq changed
  /\ window \in Hashes
  /\ target \in File \cup {None}
  /\ got \in Content \cup {None}
  /\ torn \in BOOLEAN
  /\ doubted \subseteq File
  /\ faults \in 0..MaxFaults

Init ==
  /\ disk \in Hashes
  /\ table = NoHashes
  /\ manifest = [exists |-> FALSE, hashes |-> NoHashes, count |-> 0]
  /\ pc = "idle"
  /\ snap = NoHashes
  /\ changed = {}
  /\ todo = {}
  /\ window = NoHashes
  /\ target = None
  /\ got = None
  /\ missing = {}
  /\ torn = FALSE
  /\ doubted = {}
  /\ faults = 0

Goto(from, to) == pc = from /\ pc' = to

-----------------------------------------------------------------------------
(* What the store says of a file and does not have: its manifest names a content    *)
(* that is not in the rows, or the rows are of another text than their hash.     *)
Unsettled ==
  {f \in File :
     \/ manifest.hashes[f] # None /\ RowTexts[f] # Indexable(manifest.hashes[f])
     \/ f \in Stored /\ table[f].hash # table[f].text}

(* The files the running operation is at.                                    *)
InHand ==
  changed \cup {target}
    \cup {f \in File : pc \in {"remove", "delete", "fill"} /\ snap[f] = None}

(* The contents by which the store knows a file.                              *)
OnRecord(f) == {manifest.hashes[f], RowHashes[f], snap[f]}

(* A manifest that is written settles what it now says and the rows bear out.   *)
Settle == doubted' = doubted \cap Unsettled'

(* The working tree changes under the index: an edit, a checkout, a removal. *)

Edit(f) ==
  /\ \E c \in Content \ {disk[f]} :
       /\ disk' = [disk EXCEPT ![f] = c]
       /\ doubted' = IF c \in OnRecord(f) /\ f \in Unsettled \cup InHand
                     THEN doubted \cup {f}
                     ELSE doubted \ {f}
  /\ UNCHANGED <<table, manifest, pc, index, reindex, torn, faults>>

RemoveFromDisk(f) ==
  /\ disk[f] # None
  /\ disk' = [disk EXCEPT ![f] = None]
  /\ doubted' = doubted \ {f}
  /\ UNCHANGED <<table, manifest, pc, index, reindex, torn, faults>>

-----------------------------------------------------------------------------
(* index_full: enumerate, compare, and stop at once when all is in sync.     *)
StartIndex ==
  /\ pc = "idle"
  /\ snap' = disk
  /\ IF InSync(disk)
     THEN pc' = "insync" /\ UNCHANGED changed
     ELSE pc' = "remove" /\ changed' = Changed(disk)
  /\ UNCHANGED <<disk, table, manifest, todo, window, reindex, torn, doubted, faults>>

(* The rows that must not survive: those of a changed file and of a file the  *)
(* enumeration no longer has.                                               *)
Stale == {f \in Stored : f \in changed \/ snap[f] = None}

(* Mutant: the manifest is written before the rows. *)
ResetTableManifestFirst ==
  /\ Goto("remove", "fill")
  /\ Stored = Stale
  /\ table' = NoHashes
  /\ manifest' = [exists |-> TRUE, hashes |-> snap, count |-> RowCount]
  /\ todo' = changed
  /\ torn' = TRUE
  /\ UNCHANGED <<disk, snap, changed, window, reindex, doubted, faults>>

(* When no stored row is of an unchanged file, the table is made anew.        *)
ResetTable ==
  /\ Goto("remove", "fill")
  /\ Stored = Stale
  /\ table' = NoHashes
  /\ todo' = changed
  /\ torn' = TRUE
  /\ UNCHANGED <<disk, manifest, snap, changed, window, reindex, doubted, faults>>

(* Otherwise delete_paths removes the stale rows, batch by batch.            *)
DeleteStale ==
  /\ Goto("remove", "delete")
  /\ Stored # Stale
  /\ torn' = TRUE
  /\ UNCHANGED <<disk, table, manifest, index, reindex, doubted, faults>>

DeleteOneBatch(batch) ==
  /\ pc = "delete"
  /\ batch \subseteq Stale
  /\ batch # {}
  /\ Cardinality(batch) <= DeleteBatch
  /\ table' = [f \in File |-> IF f \in batch THEN None ELSE table[f]]
  /\ UNCHANGED <<disk, manifest, pc, index, reindex, torn, doubted, faults>>

EndDelete ==
  /\ Goto("delete", "fill")
  /\ Stale = {}
  /\ todo' = changed
  /\ UNCHANGED <<disk, table, manifest, snap, changed, window, reindex, torn, doubted, faults>>

Waiting == {f \in File : window[f] # None}

WindowFull == Cardinality(ChunksOf(window)) >= WindowCap

(* One target is read again and chunked; a file without chunks is skipped.    *)
ChunkFile(f) ==
  /\ pc = "fill"
  /\ f \in todo
  /\ disk[f] # None
  /\ ~WindowFull
  /\ todo' = todo \ {f}
  /\ window' = [window EXCEPT ![f] = Indexable(disk[f])]
  /\ UNCHANGED <<disk, table, manifest, pc, snap, changed, reindex, torn, doubted, faults>>

(* flush_window: the window is embedded and appended, once it is full and at *)
(* the end, its rows under the hashes of the enumeration.                     *)
FlushWindow ==
  /\ pc = "fill"
  /\ WindowFull \/ (todo = {} /\ Waiting # {})
  /\ table' = [f \in File |-> IF f \in Waiting THEN [hash |-> snap[f], text |-> window[f]]
                              ELSE table[f]]
  /\ window' = NoHashes
  /\ UNCHANGED <<disk, manifest, pc, snap, changed, todo, reindex, torn, doubted, faults>>

(* Mutant: the manifest does not wait for the last window. *)
SyncManifestEarly ==
  /\ Goto("fill", "indexed")
  /\ todo = {}
  /\ manifest' = FullManifest
  /\ torn' = FALSE
  /\ UNCHANGED <<disk, table, index, reindex, faults>>
  /\ Settle

(* sync_full_index_manifest: the enumerated hashes, the rows that landed.     *)
SyncManifest ==
  /\ Goto("fill", "indexed")
  /\ todo = {}
  /\ Waiting = {}
  /\ manifest' = FullManifest
  /\ torn' = FALSE
  /\ UNCHANGED <<disk, table, index, reindex, faults>>
  /\ Settle

FinishIndex ==
  /\ pc \in {"indexed", "insync"}
  /\ pc' = "idle"
  /\ snap' = NoHashes
  /\ changed' = {}
  /\ UNCHANGED <<disk, table, manifest, todo, window, reindex, torn, doubted, faults>>

-----------------------------------------------------------------------------
(* reindex_file: a content the manifest already names is skipped.            *)
StartReindex(f) ==
  /\ pc = "idle"
  /\ target' = f
  /\ got' = disk[f]
  /\ pc' = IF disk[f] # None /\ manifest.hashes[f] = disk[f] THEN "prune" ELSE "embed"
  /\ UNCHANGED <<disk, table, manifest, index, missing, torn, doubted, faults>>

(* The file is chunked and embedded before the table is touched.             *)
EmbedFile ==
  /\ Goto("embed", "drop")
  /\ UNCHANGED <<disk, table, manifest, index, reindex, torn, doubted, faults>>

(* delete_paths_and_append, in two commits, for replace_file_chunks and,      *)
(* with nothing to append, for delete_file_chunks.                          *)
DropRows ==
  /\ Goto("drop", IF Indexable(got) = None THEN "tally" ELSE "append")
  /\ table' = [table EXCEPT ![target] = None]
  /\ torn' = TRUE
  /\ UNCHANGED <<disk, manifest, index, reindex, doubted, faults>>

AppendRows ==
  /\ Goto("append", "tally")
  /\ table' = [table EXCEPT ![target] = [hash |-> got, text |-> got]]
  /\ UNCHANGED <<disk, manifest, index, reindex, torn, doubted, faults>>

Tally ==
  /\ Goto("tally", IF got # None /\ Indexable(got) = None THEN "note" ELSE "prune")
  /\ manifest' = Tallied({target})
  /\ torn' = FALSE
  /\ UNCHANGED <<disk, table, index, reindex, faults>>
  /\ Settle

(* note_file_hash: a file without chunks is not to be read again.            *)
NoteHash ==
  /\ Goto("note", "prune")
  /\ manifest' = [manifest EXCEPT !.hashes[target] = got]
  /\ UNCHANGED <<disk, table, index, reindex, torn, faults>>
  /\ Settle

EndReindex ==
  /\ pc' = "idle"
  /\ target' = None
  /\ got' = None
  /\ missing' = {}

(* prune_missing_files: the rows of files that are gone, then the manifest.   *)
Prune ==
  LET gone == {f \in Stored : disk[f] = None} IN
  /\ pc = "prune"
  /\ IF gone = {}
     THEN EndReindex /\ UNCHANGED <<table, torn>>
     ELSE /\ missing' = gone
          /\ table' = [f \in File |-> IF f \in gone THEN None ELSE table[f]]
          /\ torn' = TRUE
          /\ pc' = "pruneTally"
          /\ UNCHANGED <<target, got>>
  /\ UNCHANGED <<disk, manifest, index, doubted, faults>>

PruneTally ==
  /\ pc = "pruneTally"
  /\ manifest' = Tallied(missing)
  /\ torn' = FALSE
  /\ EndReindex
  /\ UNCHANGED <<disk, table, index, faults>>
  /\ Settle

-----------------------------------------------------------------------------
(* clear_chunks: the table is dropped, then an empty manifest written.        *)

ClearTable ==
  /\ Goto("idle", "clear")
  /\ table' = NoHashes
  /\ torn' = TRUE
  /\ UNCHANGED <<disk, manifest, index, reindex, doubted, faults>>

ClearManifest ==
  /\ Goto("clear", "idle")
  /\ manifest' = [exists |-> TRUE, hashes |-> NoHashes, count |-> 0]
  /\ torn' = FALSE
  /\ UNCHANGED <<disk, table, index, reindex, faults>>
  /\ Settle

-----------------------------------------------------------------------------
(* The operation ends where it is.  Nothing is undone.                       *)
Abandon ==
  /\ EndReindex
  /\ snap' = NoHashes
  /\ changed' = {}
  /\ todo' = {}
  /\ window' = NoHashes
  /\ UNCHANGED <<disk, table, manifest, torn>>

(* The process is killed, or a step returns Err, as a failed embedding does.  *)
Fail ==
  /\ pc # "idle"
  /\ faults < MaxFaults
  /\ faults' = faults + 1
  /\ doubted' = IF pc = "clear"
                THEN doubted \cup {f \in Unsettled : disk[f] = manifest.hashes[f]}
                ELSE doubted
  /\ Abandon

(* A target that was enumerated is gone when it is to be chunked: read_to_string *)
(* returns Err and with it the whole index.                                   *)
TargetGone ==
  /\ pc = "fill"
  /\ ~WindowFull
  /\ \E f \in todo : disk[f] = None
  /\ Abandon
  /\ UNCHANGED <<doubted, faults>>

Next ==
  \/ \E f \in File : Edit(f) \/ RemoveFromDisk(f) \/ ChunkFile(f) \/ StartReindex(f)
  \/ StartIndex \/ ResetTable \/ DeleteStale
  \/ \E batch \in SUBSET File : DeleteOneBatch(batch)
  \/ EndDelete \/ FlushWindow \/ SyncManifest \/ FinishIndex
  \/ EmbedFile \/ DropRows \/ AppendRows \/ Tally \/ NoteHash \/ Prune \/ PruneTally
  \/ ClearTable \/ ClearManifest \/ Fail \/ TargetGone

Spec == Init /\ [][Next]_vars

-----------------------------------------------------------------------------
(* store/mod.rs:288-292: a manifest that names a file's content vouches for    *)
(* its rows.  Whenever no operation runs, a file whose hash on disk is the one *)
(* the next comparison will find stored has exactly the rows of that content:  *)
(* no death or failed embedding has left a file the index would skip unread,   *)
(* but one that has come back to what was on record of it.  While one runs, a   *)
(* search reads the table too: a result it does not mark is of the text on disk *)
(* (search/mod.rs:507-560).                                                   *)
TrustedMeansStored ==
  /\ pc = "idle" =>
       \A f \in File \ doubted :
         disk[f] # None /\ StoredHashes[f] = disk[f] => RowTexts[f] = Indexable(disk[f])
  /\ \A f \in Stored \ doubted : ~ResultIsStale(f) => table[f].text = disk[f]

(* A full index that reports success, on its fast path too, has the rows of every *)
(* file that is as it was enumerated, however the runs before it ended, but of     *)
(* those that came back to a content on record.                                *)
CompletedIndexIsComplete ==
  pc \in {"indexed", "insync"} =>
    \A f \in File \ doubted :
      disk[f] # None /\ snap[f] = disk[f] => RowTexts[f] = Indexable(disk[f])

(* It leaves no rows of a file that is gone, and takes the fast path past none,   *)
(* unless the manifest claims no row at all, when                            *)
(* table_matches_manifest_chunk_count does not look at the table, or more than the  *)
(* files it names have, or a file is in doubt.                                 *)
CompletedIndexHasNoGhosts ==
  /\ pc = "indexed" => \A f \in File : disk[f] = None /\ snap[f] = None => f \notin Stored
  /\ /\ pc = "idle"
     /\ InSync(disk)
     /\ doubted = {}
     /\ manifest.count \in 1..Cardinality(ChunksOf(manifest.hashes))
     => \A f \in Stored : disk[f] # None

(* A full index that ends leaves exactly the files it saw, with the contents it saw.   *)
CompletedIndexIsExact == CompletedIndexIsComplete /\ CompletedIndexHasNoGhosts

(* store/mod.rs:290-292: "Every completed write path sets `chunk_count` from a *)
(* scan of what actually landed, so equality holds whenever the store is       *)
(* consistent": the row-count gate fails only after an operation cut short.    *)
CountsAgree ==
  pc = "idle" /\ ~torn /\ manifest.exists => manifest.count = RowCount

(* lib.rs:367-369: "a crash leaves the table short of what the manifest claims and  *)
(* the row-count gate forces a rebuild": where the table is short between          *)
(* operations, the next full index embeds every file that lacks its rows.        *)
GateForcesRebuild ==
  pc = "idle" /\ RowCount < manifest.count =>
    \A f \in File : disk[f] # None /\ RowTexts[f] # Indexable(disk[f]) => f \in Changed(disk)
=============================================================================
