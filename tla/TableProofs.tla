------------------------------ MODULE TableProofs ------------------------------
(***************************************************************************)
(* Theorems about the chunk table and its manifest: what they hold of the   *)
(* files, and which model the rows are of.                                  *)
(***************************************************************************)
EXTENDS IndexStore, EmbeddingIdentity, FiniteSetTheorems, TLAPS

(* The table and the manifest, for any files, contents, windows and failures.        *)

Text(f) == IF table[f] # None THEN table[f].text ELSE None

(* The types, the count of the manifest aside, of which nothing is needed.          *)
Typed ==
  /\ disk \in Hashes
  /\ table \in [File -> [hash : Content, text : Content] \cup {None}]
  /\ manifest = [exists |-> manifest.exists, hashes |-> manifest.hashes, count |-> manifest.count]
  /\ manifest.exists \in BOOLEAN
  /\ manifest.hashes \in Hashes
  /\ pc \in Location
  /\ snap \in Hashes
  /\ changed \subseteq File
  /\ todo \subseteq changed
  /\ pc # "fill" => todo = {}
  /\ window \in Hashes
  /\ got \in Content \cup {None}
  /\ doubted \subseteq File
  /\ pc \in {"embed", "drop", "append", "tally", "note"} => target \in File

(* Rows have chunks, and those of another text than their hash says are of a file    *)
(* that has moved on from that hash, or is in doubt.                             *)
RowsAreHonest ==
  \A f \in File : table[f] # None =>
    /\ Chunks[table[f].text] > 0
    /\ f \notin doubted /\ disk[f] = table[f].hash => table[f].text = disk[f]

(* Whatever the manifest says of a file that is what the file is, its rows bear out,   *)
(* but for a file in doubt.                                                      *)
ManifestVouches ==
  /\ ~manifest.exists => manifest.hashes = NoHashes
  /\ pc # "clear" =>
       \A f \in File \ doubted :
         disk[f] # None /\ manifest.hashes[f] = disk[f] => Text(f) = Indexable(disk[f])

(* The manifest does not vouch for what the file is, or the file is in doubt.          *)
Outdated(f) == f \in doubted \/ (disk[f] # None => manifest.hashes[f] # disk[f])

(* What Unsettled says of one file.                                             *)
Unborne(f) ==
  \/ manifest.hashes[f] # None /\ Text(f) # Indexable(manifest.hashes[f])
  \/ table[f] # None /\ table[f].hash # table[f].text

(* A full index touches the rows of files only that the manifest does not vouch for,   *)
(* and those of a file it has done are of its content, unless that has changed.        *)
IndexOnTrack ==
  /\ pc \in {"remove", "delete", "fill"} =>
       \A f \in File :
         /\ f \in changed => snap[f] # None
         /\ f \notin changed /\ snap[f] # None /\ Text(f) # Indexable(snap[f]) =>
              Unborne(f) /\ (disk[f] = snap[f] => f \in doubted)
  /\ pc \in {"remove", "delete"} =>
       \A f \in File : table[f] # None /\ (f \in changed \/ snap[f] = None) => Outdated(f)
  /\ pc = "fill" =>
       /\ \A f \in todo : table[f] = None
       /\ \A f \in changed \ todo : f \notin doubted /\ disk[f] = snap[f] =>
            (IF window[f] # None THEN window[f] ELSE Text(f)) = Indexable(disk[f])
  /\ \A f \in File : window[f] # None =>
       /\ pc = "fill"
       /\ f \in changed \ todo
       /\ Chunks[window[f]] > 0
       /\ Outdated(f)
  /\ pc \in {"indexed", "insync"} => manifest.hashes = snap

(* A reindex replaces the rows of a file the manifest does not vouch for.             *)
ReindexOnTrack ==
  /\ pc \in {"embed", "drop", "append", "tally"} => Outdated(target)
  /\ pc = "append" => got # None /\ Chunks[got] > 0
  /\ pc = "tally" /\ Indexable(got) = None => table[target] = None
  /\ pc = "note" => manifest.exists /\ got # None /\ Indexable(got) = None /\ table[target] = None

Sound == Typed /\ RowsAreHonest /\ ManifestVouches /\ IndexOnTrack /\ ReindexOnTrack

(* A file is unsettled if it is unborne.                                         *)
LEMMA UnsettledIsUnborne == \A f \in File : f \in Unsettled <=> Unborne(f)
BY DEF Unsettled, Unborne, RowTexts, Stored, Text

(* After a write of the manifest, a file that is out of doubt was never in doubt or    *)
(* is borne out.                                                               *)
LEMMA Settling ==
  ASSUME Settle, NEW f \in File, f \notin doubted'
  PROVE  f \notin doubted \/ ~Unborne(f)'
<1>1. f \in Unsettled' <=> Unborne(f)'
  BY DEF Unsettled, Unborne, RowTexts, Stored, Text
<1> QED
  BY <1>1 DEF Settle

(* An edit puts a file in doubt that comes back to what the store has on record, while *)
(* that is not in its rows or an operation is at it.                              *)
LEMMA Editing ==
  ASSUME Typed, NEW f \in File, Edit(f)
  PROVE  /\ disk' \in Hashes
         /\ disk'[f] # None
         /\ \A g \in File \ {f} : disk'[g] = disk[g] /\ (g \in doubted' <=> g \in doubted)
         /\ doubted' \subseteq File
         /\ f \notin doubted' /\ disk'[f] \in OnRecord(f) => ~Unborne(f) /\ f \notin InHand
<1>1. PICK c \in Content :
        /\ disk' = [disk EXCEPT ![f] = c]
        /\ doubted' = IF c \in OnRecord(f) /\ f \in Unsettled \cup InHand
                      THEN doubted \cup {f}
                      ELSE doubted \ {f}
  BY DEF Edit
<1>2. disk'[f] = c /\ disk' \in Hashes /\ \A g \in File \ {f} : disk'[g] = disk[g]
  BY <1>1 DEF Typed, Hashes
<1>3. c # None
  BY StoreAssumption
<1> QED
  BY <1>1, <1>2, <1>3, UnsettledIsUnborne DEF Typed

(* Every step of an operation or the working tree keeps the types.                *)
LEMMA Types == ASSUME Sound, [Next]_vars PROVE Typed'
<1> USE StoreAssumption DEF Sound, Typed, Hashes, Location, Goto, NoHashes, Indexable
<1>1. ASSUME NEW f \in File, Edit(f) PROVE Typed'
  BY <1>1, Editing DEF Edit, index, reindex
<1>2. ASSUME NEW f \in File, RemoveFromDisk(f) PROVE Typed'
  BY <1>2 DEF RemoveFromDisk, index, reindex
<1>3. ASSUME NEW f \in File, ChunkFile(f) PROVE Typed'
  BY <1>3 DEF ChunkFile, reindex
<1>4. ASSUME NEW f \in File, StartReindex(f) PROVE Typed'
  BY <1>4 DEF StartReindex, index
<1>5. CASE StartIndex
  BY <1>5 DEF StartIndex, reindex, Changed
<1>6. CASE ResetTable
  BY <1>6 DEF ResetTable, reindex
<1>7. CASE DeleteStale
  BY <1>7 DEF DeleteStale, reindex, index
<1>8. ASSUME NEW batch \in SUBSET File, DeleteOneBatch(batch) PROVE Typed'
  BY <1>8 DEF DeleteOneBatch, reindex, index
<1>9. CASE EndDelete
  BY <1>9 DEF EndDelete, reindex
<1>10. CASE FlushWindow
  BY <1>10 DEF FlushWindow, reindex, Waiting, IndexOnTrack
<1>11. CASE SyncManifest
  BY <1>11 DEF SyncManifest, reindex, index, FullManifest, Settle
<1>12. CASE FinishIndex
  BY <1>12 DEF FinishIndex, reindex
<1>13. CASE EmbedFile
  BY <1>13 DEF EmbedFile, reindex, index
<1>14. CASE DropRows
  BY <1>14 DEF DropRows, reindex, index
<1>15. CASE AppendRows
  BY <1>15 DEF AppendRows, reindex, index, ReindexOnTrack
<1>16. CASE Tally
  BY <1>16 DEF Tally, reindex, index, Tallied, Stored, Settle
<1>17. CASE NoteHash
  BY <1>17 DEF NoteHash, reindex, index, Settle
<1>18. CASE Prune
  BY <1>18 DEF Prune, EndReindex, index, Stored
<1>19. CASE PruneTally
  BY <1>19 DEF PruneTally, EndReindex, index, Tallied, Stored, Settle
<1>20. CASE ClearTable
  BY <1>20 DEF ClearTable, reindex, index
<1>21. CASE ClearManifest
  BY <1>21 DEF ClearManifest, reindex, index, Settle
<1>22. CASE Fail \/ TargetGone
  BY <1>22 DEF Fail, TargetGone, Abandon, EndReindex, Unsettled
<1>23. CASE UNCHANGED vars
  BY <1>23 DEF vars
<1> QED
  BY <1>1, <1>2, <1>3, <1>4, <1>5, <1>6, <1>7, <1>8, <1>9, <1>10, <1>11, <1>12, <1>13, <1>14,
     <1>15, <1>16, <1>17, <1>18, <1>19, <1>20, <1>21, <1>22, <1>23 DEF Next

(* The rows change by commits, and a file that returns to what it was is in doubt.   *)
LEMMA Honest == ASSUME Sound, [Next]_vars PROVE RowsAreHonest'
<1> USE StoreAssumption DEF Sound, Typed, RowsAreHonest, Hashes, Goto, NoHashes
<1>1. ASSUME NEW f \in File, Edit(f) PROVE RowsAreHonest'
  <2>1. table' = table
    BY <1>1 DEF Edit
  <2>2. table[f] # None => table[f].hash \in OnRecord(f)
    BY DEF OnRecord, RowHashes, Stored
  <2>3. table[f] # None /\ f \notin doubted' /\ disk'[f] = table[f].hash =>
          table[f].text = disk'[f]
    BY <1>1, <2>2, Editing DEF Unborne
  <2> QED
    BY <1>1, <2>1, <2>3, Editing
<1>2. ASSUME NEW f \in File, RemoveFromDisk(f) PROVE RowsAreHonest'
  BY <1>2 DEF RemoveFromDisk
<1>3. ASSUME NEW f \in File, ChunkFile(f) \/ StartReindex(f) PROVE RowsAreHonest'
  BY <1>3 DEF ChunkFile, StartReindex
<1>4. CASE StartIndex \/ DeleteStale \/ EndDelete \/ FinishIndex \/ EmbedFile
  BY <1>4 DEF StartIndex, DeleteStale, EndDelete, FinishIndex, EmbedFile
<1>5. CASE ResetTable \/ ClearTable
  BY <1>5 DEF ResetTable, ClearTable
<1>6. ASSUME NEW batch \in SUBSET File, DeleteOneBatch(batch) PROVE RowsAreHonest'
  BY <1>6 DEF DeleteOneBatch
<1>7. CASE FlushWindow
  <2>1. disk' = disk /\ doubted' = doubted
    BY <1>7 DEF FlushWindow
  <2>2. ASSUME NEW f \in File, window[f] = None PROVE table'[f] = table[f]
    BY <1>7, <2>2 DEF FlushWindow, Waiting
  <2>3. ASSUME NEW f \in File, window[f] # None
        PROVE  /\ table'[f] = [hash |-> snap[f], text |-> window[f]]
               /\ Chunks[window[f]] > 0
               /\ f \notin doubted /\ disk[f] = snap[f] => window[f] = disk[f]
    <3>1. pc = "fill" /\ f \in changed \ todo /\ Chunks[window[f]] > 0
      BY <2>3 DEF IndexOnTrack
    <3>2. f \notin doubted /\ disk[f] = snap[f] => window[f] = Indexable(disk[f])
      BY <2>3, <3>1 DEF IndexOnTrack
    <3>3. f \notin doubted /\ disk[f] = snap[f] => window[f] = disk[f]
      BY <2>3, <3>2 DEF Indexable
    <3>4. table'[f] = [hash |-> snap[f], text |-> window[f]]
      BY <1>7, <2>3 DEF FlushWindow, Waiting
    <3> QED
      BY <3>1, <3>3, <3>4
  <2> SUFFICES ASSUME NEW f \in File, table'[f] # None
               PROVE  /\ Chunks[table'[f].text] > 0
                      /\ f \notin doubted /\ disk[f] = table'[f].hash => table'[f].text = disk[f]
    BY <2>1
  <2>4. CASE window[f] = None
    BY <2>2, <2>4
  <2>5. CASE window[f] # None
    <3>1. table'[f] = [hash |-> snap[f], text |-> window[f]]
      BY <2>3, <2>5
    <3>2. Chunks[window[f]] > 0
      BY <2>3, <2>5
    <3>3. f \notin doubted /\ disk[f] = snap[f] => window[f] = disk[f]
      BY <2>3, <2>5
    <3> QED
      BY <3>1, <3>2, <3>3
  <2> QED
    BY <2>4, <2>5
<1>8. CASE DropRows
  BY <1>8 DEF DropRows
<1>9. CASE AppendRows
  BY <1>9 DEF AppendRows, ReindexOnTrack
<1>10. ASSUME Settle, UNCHANGED <<disk, table>> PROVE RowsAreHonest'
  BY <1>10, Settling DEF Unborne
<1>14. CASE SyncManifest \/ Tally \/ NoteHash \/ PruneTally \/ ClearManifest
  BY <1>10, <1>14 DEF SyncManifest, Tally, NoteHash, PruneTally, ClearManifest
<1>11. CASE Prune
  BY <1>11 DEF Prune, Stored
<1>12. CASE Fail \/ TargetGone
  BY <1>12 DEF Fail, TargetGone, Abandon
<1>13. CASE UNCHANGED vars
  BY <1>13 DEF vars
<1> QED
  BY <1>1, <1>2, <1>3, <1>4, <1>5, <1>6, <1>7, <1>8, <1>9, <1>11, <1>12, <1>13, <1>14
     DEF Next

(* The manifest is written last, so that it vouches for no row that is gone.         *)
LEMMA Vouching == ASSUME Sound, [Next]_vars PROVE ManifestVouches'
<1> USE StoreAssumption
    DEF Sound, Typed, ManifestVouches, Hashes, Goto, NoHashes, Text, Indexable
<1>1. ASSUME NEW f \in File, Edit(f) PROVE ManifestVouches'
  <2>1. UNCHANGED <<table, manifest, pc>>
    BY <1>1 DEF Edit
  <2>2. manifest.hashes[f] \in OnRecord(f)
    BY DEF OnRecord
  <2>3. f \notin doubted' /\ manifest.hashes[f] = disk'[f] => Text(f) = Indexable(disk'[f])
    BY <1>1, <2>2, Editing DEF Unborne
  <2> QED
    BY <1>1, <2>1, <2>3, Editing
<1>2. ASSUME NEW f \in File, RemoveFromDisk(f) PROVE ManifestVouches'
  BY <1>2 DEF RemoveFromDisk
<1>3. ASSUME NEW f \in File, ChunkFile(f) \/ StartReindex(f) PROVE ManifestVouches'
  BY <1>3 DEF ChunkFile, StartReindex
<1>4. CASE StartIndex \/ DeleteStale \/ EndDelete \/ FinishIndex \/ EmbedFile
  BY <1>4 DEF StartIndex, DeleteStale, EndDelete, FinishIndex, EmbedFile
<1>5. CASE ResetTable
  BY <1>5 DEF ResetTable, Stored, Stale, IndexOnTrack, Outdated
<1>6. ASSUME NEW batch \in SUBSET File, DeleteOneBatch(batch) PROVE ManifestVouches'
  BY <1>6 DEF DeleteOneBatch, Stored, Stale, IndexOnTrack, Outdated
<1>7. CASE FlushWindow
  <2>1. manifest' = manifest /\ disk' = disk /\ pc' = pc /\ doubted' = doubted
    BY <1>7 DEF FlushWindow
  <2>2. ASSUME NEW f \in File, window[f] = None PROVE table'[f] = table[f]
    BY <1>7, <2>2 DEF FlushWindow, Waiting
  <2>3. ASSUME NEW f \in File, window[f] # None 
        PROVE  f \in doubted \/ (disk[f] # None => manifest.hashes[f] # disk[f])
    BY <2>3 DEF IndexOnTrack, Outdated
  <2> QED
    BY <2>1, <2>2, <2>3
<1>8. ASSUME Settle, UNCHANGED <<disk, table>>, pc' # "clear",
             ~manifest'.exists => manifest'.hashes = NoHashes,
             \A f \in File \ doubted :
               disk[f] # None /\ manifest'.hashes[f] = disk[f] => Text(f) = Indexable(disk[f])
      PROVE  ManifestVouches'
  <2>1. ASSUME NEW f \in File \ doubted', disk[f] # None, manifest'.hashes[f] = disk[f]
        PROVE  Text(f) = Indexable(disk[f])
    <3>1. CASE f \notin doubted
      BY <1>8, <2>1, <3>1
    <3>2. CASE ~Unborne(f)'
      BY <1>8, <2>1, <3>2 DEF Unborne
    <3> QED
      BY <1>8, <2>1, <3>1, <3>2, Settling
  <2> QED
    BY <1>8, <2>1
<1>18. CASE SyncManifest
  <2>1. /\ manifest'.exists /\ manifest'.hashes = snap /\ pc' # "clear"
        /\ UNCHANGED <<disk, table>>
        /\ pc = "fill" /\ todo = {} /\ \A f \in File : window[f] = None
    BY <1>18 DEF SyncManifest, FullManifest, Waiting
  <2>2. \A f \in File \ doubted :
          disk[f] # None /\ manifest'.hashes[f] = disk[f] => Text(f) = Indexable(disk[f])
    BY <2>1 DEF IndexOnTrack
  <2> QED
    BY <1>8, <1>18, <2>1, <2>2 DEF SyncManifest
<1>9. CASE DropRows
  BY <1>9 DEF DropRows, ReindexOnTrack, Outdated
<1>10. CASE AppendRows
  BY <1>10 DEF AppendRows, ReindexOnTrack, Outdated
<1>19. ASSUME NEW paths, manifest' = Tallied(paths), Settle, UNCHANGED <<disk, table>>,
              pc' # "clear", pc # "clear"
       PROVE  ManifestVouches'
  <2>1. manifest'.exists
    BY <1>19 DEF Tallied
  <2>2. \A f \in File \ doubted :
          disk[f] # None /\ manifest'.hashes[f] = disk[f] => Text(f) = Indexable(disk[f])
    BY <1>19 DEF Tallied, Stored, RowsAreHonest
  <2> QED
    BY <1>8, <1>19, <2>1, <2>2
<1>11. CASE Tally \/ PruneTally
  BY <1>11, <1>19 DEF Tally, PruneTally, EndReindex
<1>12. CASE NoteHash
  <2>1. \A f \in File \ doubted :
          disk[f] # None /\ manifest'.hashes[f] = disk[f] => Text(f) = Indexable(disk[f])
    BY <1>12 DEF NoteHash, ReindexOnTrack
  <2>2. manifest'.exists
    BY <1>12 DEF NoteHash, ReindexOnTrack
  <2> QED
    BY <1>8, <1>12, <2>1, <2>2 DEF NoteHash
<1>13. CASE Prune
  BY <1>13 DEF Prune, Stored, EndReindex
<1>15. CASE ClearTable \/ ClearManifest
  BY <1>15 DEF ClearTable, ClearManifest
<1>16. CASE Fail \/ TargetGone
  <2>1. UNCHANGED <<disk, table, manifest>> /\ pc' # "clear" /\ doubted \subseteq doubted'
    BY <1>16 DEF Fail, TargetGone, Abandon, EndReindex
  <2>2. ASSUME NEW f \in File \ doubted', pc = "clear", manifest.hashes[f] = disk[f], disk[f] # None
        PROVE  Text(f) = Indexable(disk[f])
    <3>1. f \notin Unsettled
      BY <1>16, <2>2 DEF Fail, TargetGone
    <3> QED
      BY <2>2, <3>1, UnsettledIsUnborne DEF Unborne
  <2> QED
    BY <2>1, <2>2
<1>17. CASE UNCHANGED vars
  BY <1>17 DEF vars
<1> QED
  BY <1>1, <1>2, <1>3, <1>4, <1>5, <1>6, <1>7, <1>9, <1>10, <1>11, <1>12, <1>13,
     <1>15, <1>16, <1>17, <1>18 DEF Next

(* Between operations the next comparison finds stored what rows are not of only for a *)
(* file that is in doubt.                                                      *)
LEMMA Trusting ==
  ASSUME Sound, pc = "idle", NEW f \in File, disk[f] # None, StoredHashes[f] = disk[f],
         Text(f) # Indexable(disk[f])
  PROVE  f \in doubted /\ Unborne(f)
<1>1. CASE StoredHashes = manifest.hashes
  BY <1>1 DEF Sound, ManifestVouches, Unborne
<1>2. CASE StoredHashes = RowHashes
  BY <1>2, StoreAssumption
     DEF Sound, Typed, RowsAreHonest, RowHashes, Stored, Text, Indexable, Hashes, Unborne
<1> QED
  BY <1>1, <1>2 DEF StoredHashes

(* A reindex that is not skipped stays one of a file not vouched for.               *)
LEMMA Reindexing == ASSUME Sound, [Next]_vars PROVE ReindexOnTrack'
<1> USE StoreAssumption
    DEF Sound, Typed, ReindexOnTrack, Hashes, Goto, NoHashes, Indexable, Outdated
<1>1. ASSUME NEW f \in File, Edit(f) PROVE ReindexOnTrack'
  <2>1. UNCHANGED <<manifest, table, pc, target, got>>
    BY <1>1 DEF Edit, reindex
  <2>2. target \in InHand /\ manifest.hashes[f] \in OnRecord(f)
    BY DEF InHand, OnRecord
  <2> QED
    BY <1>1, <2>1, <2>2, Editing
<1>2. ASSUME NEW f \in File, RemoveFromDisk(f) PROVE ReindexOnTrack'
  BY <1>2 DEF RemoveFromDisk, index, reindex
<1>3. ASSUME NEW f \in File, ChunkFile(f) PROVE ReindexOnTrack'
  BY <1>3 DEF ChunkFile
<1>4. ASSUME NEW f \in File, StartReindex(f) PROVE ReindexOnTrack'
  BY <1>4 DEF StartReindex
<1>5. CASE StartIndex \/ ResetTable \/ DeleteStale \/ EndDelete \/ FinishIndex
  BY <1>5 DEF StartIndex, ResetTable, DeleteStale, EndDelete, FinishIndex
<1>6. ASSUME NEW batch \in SUBSET File, DeleteOneBatch(batch) PROVE ReindexOnTrack'
  BY <1>6 DEF DeleteOneBatch
<1>7. CASE FlushWindow \/ SyncManifest
  BY <1>7 DEF FlushWindow, SyncManifest
<1>8. CASE EmbedFile
  BY <1>8 DEF EmbedFile, reindex
<1>9. CASE DropRows
  BY <1>9 DEF DropRows, reindex
<1>10. CASE AppendRows
  BY <1>10 DEF AppendRows, reindex
<1>11. CASE Tally
  BY <1>11 DEF Tally, Tallied, reindex
<1>12. CASE NoteHash \/ Prune \/ PruneTally \/ ClearTable \/ ClearManifest
  BY <1>12 DEF NoteHash, Prune, PruneTally, EndReindex, ClearTable, ClearManifest
<1>13. CASE Fail \/ TargetGone
  BY <1>13 DEF Fail, TargetGone, Abandon, EndReindex
<1>14. CASE UNCHANGED vars
  BY <1>14 DEF vars
<1> QED
  BY <1>1, <1>2, <1>3, <1>4, <1>5, <1>6, <1>7, <1>8, <1>9, <1>10, <1>11, <1>12, <1>13, <1>14 DEF Next

(* A full index leaves the rows of unchanged files and gives changed ones theirs.     *)
LEMMA Indexing == ASSUME Sound, [Next]_vars PROVE IndexOnTrack'
<1> USE StoreAssumption
    DEF Sound, Typed, IndexOnTrack, Hashes, Goto, NoHashes, Indexable, Outdated, Text, Unborne
<1>1. ASSUME NEW f \in File, Edit(f) PROVE IndexOnTrack'
  <2>1. UNCHANGED <<table, manifest, pc, snap, changed, todo, window>>
    BY <1>1 DEF Edit, index
  <2>2. {manifest.hashes[f], snap[f]} \subseteq OnRecord(f) /\ changed \subseteq InHand
    BY DEF InHand, OnRecord
  <2>3. pc \in {"remove", "delete", "fill"} /\ snap[f] = None => f \in InHand
    BY DEF InHand
  <2>4. f \notin doubted' /\ disk'[f] \in OnRecord(f) => ~Unborne(f) /\ f \notin InHand
    BY <1>1, Editing
  <2> QED
    BY <1>1, <2>1, <2>2, <2>3, <2>4, Editing
<1>2. ASSUME NEW f \in File, RemoveFromDisk(f) PROVE IndexOnTrack'
  BY <1>2 DEF RemoveFromDisk, index, reindex
<1>3. ASSUME NEW f \in File, ChunkFile(f) PROVE IndexOnTrack'
  BY <1>3 DEF ChunkFile, ManifestVouches
<1>4. ASSUME NEW f \in File, StartReindex(f) PROVE IndexOnTrack'
  BY <1>4 DEF StartReindex, index
<1>5. CASE StartIndex
  <2>1. CASE InSync(disk)
    BY <1>5, <2>1 DEF StartIndex, InSync
  <2>2. CASE ~InSync(disk)
    <3>1. \A f \in File : window[f] = None
      BY <1>5 DEF StartIndex
    <3>2. \A f \in File : f \in changed' <=> disk[f] # None /\ StoredHashes[f] # disk[f]
      BY <1>5, <2>2 DEF StartIndex, Changed
    <3>3. snap' = disk /\ pc' = "remove" /\ pc = "idle"
      BY <1>5, <2>2 DEF StartIndex
    <3>4. \A f \in File :
            f \notin changed' /\ disk[f] # None /\ Text(f) # Indexable(disk[f]) =>
              f \in doubted /\ Unborne(f)
      BY <3>2, <3>3, Trusting
    <3>5. ASSUME NEW f \in File, table[f] # None, f \in changed' PROVE Outdated(f)
      BY <3>2, <3>5 DEF StoredHashes, Stored, ManifestVouches
    <3> QED
      BY <1>5, <3>1, <3>2, <3>3, <3>4, <3>5 DEF StartIndex, index, reindex
  <2> QED
    BY <2>1, <2>2
<1>6. CASE ResetTable
  BY <1>6 DEF ResetTable, Stored, Stale
<1>7. CASE DeleteStale
  BY <1>7 DEF DeleteStale, index
<1>8. ASSUME NEW batch \in SUBSET File, DeleteOneBatch(batch) PROVE IndexOnTrack'
  BY <1>8 DEF DeleteOneBatch, index, Stored, Stale
<1>9. CASE EndDelete
  BY <1>9 DEF EndDelete, Stored, Stale
<1>10. CASE FlushWindow
  BY <1>10 DEF FlushWindow, Waiting
<1>11. CASE SyncManifest
  BY <1>11 DEF SyncManifest, Waiting, FullManifest, index
<1>12. CASE FinishIndex
  BY <1>12 DEF FinishIndex
<1>13. CASE EmbedFile \/ DropRows \/ AppendRows
  BY <1>13 DEF EmbedFile, DropRows, AppendRows, index
<1>14. CASE Tally \/ NoteHash \/ Prune \/ PruneTally
  BY <1>14 DEF Tally, NoteHash, Prune, PruneTally, EndReindex, index
<1>15. CASE ClearTable \/ ClearManifest
  BY <1>15 DEF ClearTable, ClearManifest, index
<1>16. CASE Fail \/ TargetGone
  BY <1>16 DEF Fail, TargetGone, Abandon, EndReindex
<1>17. CASE UNCHANGED vars
  BY <1>17 DEF vars
<1> QED
  BY <1>1, <1>2, <1>3, <1>4, <1>5, <1>6, <1>7, <1>8, <1>9, <1>10, <1>11, <1>12, <1>13, <1>14,
     <1>15, <1>16, <1>17 DEF Next

(* The table, the manifest and the operation under way stay sound.                  *)
THEOREM StoreIsSound == Spec => []Sound
<1>1. Init => Sound
  BY StoreAssumption
     DEF Init, Sound, Typed, RowsAreHonest, ManifestVouches, IndexOnTrack,
         ReindexOnTrack, Hashes, NoHashes, Location, Text, Indexable
<1>2. Sound /\ [Next]_vars => Sound'
  <2> SUFFICES ASSUME Sound, [Next]_vars PROVE Sound'
    OBVIOUS
  <2>1. Typed'
    BY Types
  <2> QED
    BY <2>1, Honest, Vouching, Indexing, Reindexing DEF Sound
<1> QED
  BY <1>1, <1>2, PTL DEF Spec

(* What the next index would skip unread has its rows, whenever an operation failed   *)
(* or died, and a search result that is not marked stale is of the text on disk, but of  *)
(* the files that came back to what was on record of them and not in their rows.      *)
THEOREM TrustIsWarranted == Spec => []TrustedMeansStored
<1>1. Sound => TrustedMeansStored
  <2> SUFFICES ASSUME Sound PROVE TrustedMeansStored
    OBVIOUS
  <2>1. \A f \in File : RowTexts[f] = Text(f)
    BY DEF RowTexts, Stored, Text
  <2>2. pc = "idle" =>
          \A f \in File \ doubted :
            disk[f] # None /\ StoredHashes[f] = disk[f] => RowTexts[f] = Indexable(disk[f])
    BY <2>1, Trusting
  <2>3. \A f \in Stored \ doubted : ~ResultIsStale(f) => table[f].text = disk[f]
    BY DEF Sound, RowsAreHonest, Stored, ResultIsStale
  <2> QED
    BY <2>2, <2>3 DEF TrustedMeansStored
<1> QED
  BY <1>1, StoreIsSound, PTL

(* A full index that ends has the rows of every file that is as it found it and not in  *)
(* doubt, on the fast path too.                                                *)
THEOREM CompletedIndex == Spec => []CompletedIndexIsComplete
<1>1. Sound => CompletedIndexIsComplete
  BY DEF Sound, ManifestVouches, IndexOnTrack, CompletedIndexIsComplete, RowTexts, Stored, Text
<1> QED
  BY <1>1, StoreIsSound, PTL

-----------------------------------------------------------------------------
(* The manifest counts the rows whenever no operation has left the table torn.       *)
CountHolds ==
  /\ pc \in {"delete", "fill", "append", "tally", "pruneTally", "clear"} => torn
  /\ manifest.exists /\ ~torn => manifest.count = RowCount
  /\ pc = "clear" => table = NoHashes

(* No text, no chunk.                                                          *)
LEMMA NoChunks ==
  ASSUME NEW texts, \A f \in File : texts[f] = None
  PROVE  Cardinality(ChunksOf(texts)) = 0
<1>1. ChunksOf(texts) = {}
  BY DEF ChunksOf
<1> QED
  BY <1>1, FS_EmptySet

(* The count of the manifest is that of the table after every operation that was not  *)
(* cut short, for any files and failures, whatever files return to.                 *)
THEOREM CountIsKept == Spec => []CountsAgree
<1>1. Init => CountHolds
  BY DEF Init, CountHolds
<1>2. CountHolds /\ [Next]_vars => CountHolds'
  <2> SUFFICES ASSUME CountHolds, [Next]_vars PROVE CountHolds'
    OBVIOUS
  <2> USE DEF CountHolds, Goto
  <2>1. ASSUME UNCHANGED <<table, manifest, torn>> PROVE RowCount' = RowCount
    BY <2>1 DEF RowCount, RowTexts, Stored, ChunksOf
  <2>2. ASSUME NEW f \in File, Edit(f) \/ RemoveFromDisk(f) \/ ChunkFile(f) \/ StartReindex(f)
        PROVE  CountHolds'
    BY <2>1, <2>2 DEF Edit, RemoveFromDisk, ChunkFile, StartReindex
  <2>3. CASE StartIndex \/ EndDelete \/ FinishIndex \/ EmbedFile
    BY <2>1, <2>3 DEF StartIndex, EndDelete, FinishIndex, EmbedFile
  <2>4. CASE ResetTable \/ DeleteStale
    BY <2>4 DEF ResetTable, DeleteStale
  <2>5. ASSUME NEW batch \in SUBSET File, DeleteOneBatch(batch) PROVE CountHolds'
    BY <2>5 DEF DeleteOneBatch
  <2>6. CASE FlushWindow
    BY <2>6 DEF FlushWindow
  <2>7. CASE SyncManifest
    BY <2>7 DEF SyncManifest, FullManifest, RowCount, RowTexts, Stored, ChunksOf
  <2>8. CASE DropRows \/ AppendRows
    BY <2>8 DEF DropRows, AppendRows
  <2>9. CASE Tally
    BY <2>9 DEF Tally, Tallied, RowCount, RowTexts, Stored, ChunksOf
  <2>10. CASE NoteHash
    <3>1. RowCount' = RowCount
      BY <2>10 DEF NoteHash, RowCount, RowTexts, Stored, ChunksOf
    <3>2. manifest'.exists = manifest.exists /\ manifest'.count = manifest.count
      BY <2>10 DEF NoteHash
    <3> QED
      BY <2>10, <3>1, <3>2 DEF NoteHash
  <2>11. CASE Prune
    BY <2>1, <2>11 DEF Prune, EndReindex
  <2>12. CASE PruneTally
    BY <2>12 DEF PruneTally, Tallied, EndReindex, RowCount, RowTexts, Stored, ChunksOf
  <2>13. CASE ClearTable
    BY <2>13 DEF ClearTable
  <2>14. CASE ClearManifest
    <3>1. \A f \in File : RowTexts'[f] = None
      BY <2>14 DEF ClearManifest, RowTexts, Stored, NoHashes
    <3>2. RowCount' = Cardinality(ChunksOf(RowTexts'))
      BY DEF RowCount, ChunksOf
    <3>3. RowCount' = 0
      BY <3>1, <3>2, NoChunks
    <3> QED
      BY <2>14, <3>3 DEF ClearManifest
  <2>15. CASE Fail \/ TargetGone
    BY <2>1, <2>15 DEF Fail, TargetGone, Abandon, EndReindex
  <2>16. CASE UNCHANGED vars
    BY <2>1, <2>16 DEF vars
  <2> QED
    BY <2>2, <2>3, <2>4, <2>5, <2>6, <2>7, <2>8, <2>9, <2>10, <2>11, <2>12, <2>13, <2>14, <2>15, <2>16
       DEF Next
<1>3. CountHolds => CountsAgree
  BY DEF CountHolds, CountsAgree
<1> QED
  BY <1>1, <1>2, <1>3, PTL DEF Spec

-----------------------------------------------------------------------------
(* A full index that ends leaves no rows of a file that is gone.                   *)

(* What a chunk of files with these texts is.                                    *)
LEMMA ChunkMember ==
  ASSUME NEW texts, NEW x
  PROVE  x \in ChunksOf(texts) <=>
           \E f \in File : texts[f] # None /\ \E i \in 1..Chunks[texts[f]] : x = <<f, i>>
BY DEF ChunksOf

(* Files have finitely many chunks.                                            *)
LEMMA FinitelyManyChunks ==
  ASSUME NEW texts \in Hashes
  PROVE  IsFiniteSet(ChunksOf(texts)) /\ Cardinality(ChunksOf(texts)) \in Nat
<1> DEFINE Full == {f \in File : texts[f] # None}
           Of == [f \in Full |-> {f} \X (1..Chunks[texts[f]])]
           Each == {Of[f] : f \in Full}
<1>1. IsFiniteSet(Full)
  BY FS_Subset, StoreAssumption
<1>2. IsFiniteSet(Each)
  <2>1. Of \in Surjection(Full, Each)
    BY DEF Surjection
  <2> QED
    BY <1>1, <2>1, FS_Surjection
<1>3. ASSUME NEW S \in Each PROVE IsFiniteSet(S)
  <2>1. PICK f \in Full : S = {f} \X (1..Chunks[texts[f]])
    BY <1>3
  <2>2. Chunks[texts[f]] \in Nat
    BY StoreAssumption DEF Hashes
  <2>3. IsFiniteSet({f})
    BY FS_Singleton
  <2>4. IsFiniteSet(1..Chunks[texts[f]])
    <3> DEFINE n == Chunks[texts[f]]
    <3>1. 1 \in Int /\ n \in Int
      BY <2>2
    <3> HIDE DEF n
    <3>2. IsFiniteSet(1..n)
      BY <3>1, FS_Interval
    <3> QED
      BY <3>2 DEF n
  <2> QED
    BY <2>1, <2>3, <2>4, FS_Product
<1>4. ChunksOf(texts) = UNION Each
  BY DEF ChunksOf
<1>5. IsFiniteSet(ChunksOf(texts))
  BY <1>2, <1>3, <1>4, FS_UNION
<1> QED
  BY <1>5, FS_CardinalityType

(* A full index has dealt with the rows of files it did not find before it adds any.   *)
NoGhosts ==
  pc \in {"fill", "indexed"} => \A f \in File : snap[f] = None => table[f] = None

(* The rows of a table whose texts are among other texts are no more than theirs.    *)
LEMMA FewerChunks ==
  ASSUME NEW these \in Hashes, NEW those \in Hashes,
         \A f \in File : these[f] # None /\ Chunks[these[f]] > 0 => those[f] = these[f]
  PROVE  /\ ChunksOf(these) \subseteq ChunksOf(those)
         /\ Cardinality(ChunksOf(these)) <= Cardinality(ChunksOf(those))
<1>1. ASSUME NEW x \in ChunksOf(these) PROVE x \in ChunksOf(those)
  <2>1. PICK f \in File : these[f] # None /\ \E i \in 1..Chunks[these[f]] : x = <<f, i>>
    BY <1>1, ChunkMember
  <2>2. Chunks[these[f]] \in Nat
    BY <2>1, StoreAssumption DEF Hashes
  <2>3. Chunks[these[f]] > 0
    BY <2>1, <2>2
  <2>4. those[f] = these[f]
    BY <2>1, <2>3
  <2> QED
    BY <2>1, <2>4, ChunkMember
<1> QED
  BY <1>1, FinitelyManyChunks, FS_Subset

(* What rows say of their files are contents.                                    *)
LEMMA RowTextsAre == ASSUME Typed PROVE RowTexts \in Hashes /\ RowCount \in Nat
<1>1. RowTexts \in Hashes
  BY DEF Typed, RowTexts, Stored, Hashes
<1> QED
  BY <1>1, FinitelyManyChunks DEF RowCount

(* A table in step with its manifest has no row of a file that is gone, where no file is  *)
(* in doubt and the manifest counts no more rows than its files have.                *)
LEMMA InSyncHasNoGhosts ==
  ASSUME Sound, pc = "idle", InSync(disk), doubted = {},
         manifest.count \in 1..Cardinality(ChunksOf(manifest.hashes)),
         NEW f \in File, disk[f] = None
  PROVE  table[f] = None
<1>1. manifest.hashes = disk /\ RowCount = manifest.count
  BY DEF InSync, TableMatches
<1>2. RowTexts \in Hashes /\ disk \in Hashes
  BY RowTextsAre DEF Sound, Typed
<1>3. \A g \in File : disk[g] # None /\ Chunks[disk[g]] > 0 => RowTexts[g] = disk[g]
  BY <1>1 DEF Sound, ManifestVouches, Text, Indexable, RowTexts, Stored
<1>4. ChunksOf(disk) \subseteq ChunksOf(RowTexts)
  BY <1>2, <1>3, FewerChunks
<1>5. Cardinality(ChunksOf(RowTexts)) <= Cardinality(ChunksOf(disk))
  BY <1>1 DEF RowCount
<1>6. ChunksOf(RowTexts) = ChunksOf(disk)
  <2>1. /\ IsFiniteSet(ChunksOf(RowTexts))
        /\ Cardinality(ChunksOf(RowTexts)) \in Nat
        /\ Cardinality(ChunksOf(disk)) \in Nat
    BY <1>2, FinitelyManyChunks
  <2>2. Cardinality(ChunksOf(RowTexts)) = Cardinality(ChunksOf(disk))
    BY <1>2, <1>3, <1>5, <2>1, FewerChunks
  <2> QED
    BY <1>4, <2>1, <2>2, FS_Subset
<1>7. ASSUME table[f] # None PROVE FALSE
  <2>1. RowTexts[f] = table[f].text /\ Chunks[table[f].text] > 0 /\ table[f].text # None
    BY <1>7, StoreAssumption DEF Sound, Typed, RowsAreHonest, RowTexts, Stored
  <2>2. Chunks[table[f].text] \in Nat
    BY <1>7, StoreAssumption DEF Sound, Typed
  <2>3. 1 \in 1..Chunks[RowTexts[f]]
    BY <2>1, <2>2
  <2>4. <<f, 1>> \in ChunksOf(RowTexts)
    BY <2>1, <2>3, ChunkMember
  <2>5. PICK g \in File : disk[g] # None /\ \E i \in 1..Chunks[disk[g]] : <<f, 1>> = <<g, i>>
    BY <1>6, <2>4, ChunkMember
  <2> QED
    BY <2>5
<1> QED
  BY <1>7

(* Each step keeps the rows of files that are gone out of a full index.             *)
LEMMA KeepingOut == ASSUME Sound, NoGhosts, [Next]_vars PROVE NoGhosts'
<1> USE DEF Goto, NoGhosts
<1>1. ASSUME NEW f \in File, Edit(f) \/ RemoveFromDisk(f) \/ ChunkFile(f) \/ StartReindex(f)
      PROVE  NoGhosts'
  BY <1>1 DEF Edit, RemoveFromDisk, ChunkFile, StartReindex, index, reindex
<1>2. CASE StartIndex
  BY <1>2 DEF StartIndex
<1>3. CASE ResetTable
  BY <1>3 DEF ResetTable, NoHashes
<1>4. CASE EndDelete
  BY <1>4 DEF EndDelete, Stale, Stored
<1>5. CASE DeleteStale \/ FinishIndex \/ EmbedFile \/ DropRows \/ AppendRows
  BY <1>5 DEF DeleteStale, FinishIndex, EmbedFile, DropRows, AppendRows
<1>6. ASSUME NEW batch \in SUBSET File, DeleteOneBatch(batch) PROVE NoGhosts'
  BY <1>6 DEF DeleteOneBatch
<1>7. CASE FlushWindow
  BY <1>7 DEF FlushWindow, Waiting, Sound, IndexOnTrack
<1>8. CASE SyncManifest
  BY <1>8 DEF SyncManifest, index
<1>9. CASE Tally
  BY <1>9 DEF Tally
<1>10. CASE NoteHash \/ Prune \/ PruneTally \/ ClearTable \/ ClearManifest
  BY <1>10 DEF NoteHash, Prune, PruneTally, EndReindex, ClearTable, ClearManifest
<1>11. CASE Fail \/ TargetGone
  BY <1>11 DEF Fail, TargetGone, Abandon, EndReindex
<1>12. CASE UNCHANGED vars
  BY <1>12 DEF vars
<1> QED
  BY <1>1, <1>2, <1>3, <1>4, <1>5, <1>6, <1>7, <1>8, <1>9, <1>10, <1>11, <1>12 DEF Next

(* A full index that ends has the rows of every file that is as it found it and not in  *)
(* doubt, and none of a file that is gone, however the runs before it ended.         *)
THEOREM CompletedIndexExact == Spec => []CompletedIndexIsExact
<1>1. Init => NoGhosts
  BY DEF Init, NoGhosts
<1>2. Sound /\ NoGhosts /\ [Next]_vars => NoGhosts'
  BY KeepingOut
<1>3. Sound /\ NoGhosts => CompletedIndexHasNoGhosts
  BY InSyncHasNoGhosts DEF NoGhosts, CompletedIndexHasNoGhosts, Stored
<1>4. Spec => []Sound
  BY StoreIsSound
<1> QED
  BY <1>1, <1>2, <1>3, <1>4, CompletedIndex, PTL DEF Spec, CompletedIndexIsExact

-----------------------------------------------------------------------------
(* The models of the table, the manifest and the queries, for any models of any    *)
(* widths, readers, changes of the configuration and deaths.                     *)

NoRowsBut(m) == \A f \in TableFile : rows[f] # NoModel => rows[f] = m

WriterState ==
  {AtRest}
    \cup [at : {"drop", "reset", "scan"}, model : Model]
    \cup [at : {"fill"}, model : Model, todo : SUBSET TableFile]
    \cup [at : {"delete", "append", "tally"}, model : Model, file : TableFile]

(* Where the writer is, the manifest and the rows agree with its model, unless the    *)
(* table is tainted.                                                           *)
WriterAgrees ==
  /\ writer \in WriterState
  /\ recorded \in [model : Model, indexed : BOOLEAN] \cup {NoManifest}
  /\ rows \in [TableFile -> Model \cup {NoModel}]
  /\ tainted \in BOOLEAN
  /\ config \in Model
  /\ worker \in Model \cup {NoModel}
  /\ recorded # NoManifest /\ ~tainted => NoRowsBut(recorded.model)
  /\ writer.at = "reset" => ~tainted /\ NoRowsBut(NoModel)
  /\ writer.at \in {"scan", "fill"} => Compatible(writer.model)
  /\ writer.at \in {"append", "tally"} /\ ~tainted => Compatible(writer.model)
  /\ writer.at \in {"fill", "append", "tally"} /\ ~tainted => NoRowsBut(writer.model)

(* A writer's place says which fields it has, and its model is one.              *)
LEMMA WriterFields ==
  ASSUME NEW w \in WriterState
  PROVE  /\ w.at \in {"drop", "reset", "scan", "fill", "delete", "append", "tally"} => w.model \in Model
         /\ w.at \in {"delete", "append", "tally"} =>
              w \in [at : {"delete", "append", "tally"}, model : Model, file : TableFile]
         /\ w.at = "fill" => w \in [at : {"fill"}, model : Model, todo : SUBSET TableFile]
         /\ w.at \in {"drop", "reset", "scan"} => w \in [at : {"drop", "reset", "scan"}, model : Model]
BY DEF WriterState, AtRest

(* Only the absent manifest names no model.                                     *)
LEMMA ManifestFields ==
  ASSUME recorded \in [model : Model, indexed : BOOLEAN] \cup {NoManifest}
  PROVE  /\ recorded = NoManifest <=> recorded.model = NoModel
         /\ recorded.model \in Model \cup {NoModel}
         /\ recorded.indexed \in BOOLEAN
<1>1. CASE recorded = NoManifest
  BY <1>1 DEF NoManifest
<1>2. CASE recorded \in [model : Model, indexed : BOOLEAN]
  BY <1>2, IdentityAssumption DEF NoManifest
<1> QED
  BY <1>1, <1>2

(* The writers keep the table of one model, or taint it.                         *)
THEOREM Agreeing == IdentitySpec => []WriterAgrees
<1>1. IdentityInit => WriterAgrees
  <2> SUFFICES ASSUME IdentityInit PROVE WriterAgrees
    OBVIOUS
  <2>1. writer \in WriterState /\ writer.at = "idle"
    BY DEF IdentityInit, WriterState, AtRest
  <2> QED
    BY <2>1 DEF IdentityInit, WriterAgrees
<1>2. WriterAgrees /\ [IdentityNext]_identityVars => WriterAgrees'
  <2> SUFFICES ASSUME WriterAgrees, [IdentityNext]_identityVars
               PROVE  WriterAgrees'
    OBVIOUS
  <2> USE IdentityAssumption, ManifestFields, WriterFields DEF WriterAgrees, Compatible, NoRowsBut, store
  <2>1. CASE ChangeConfig
    BY <2>1 DEF ChangeConfig
  <2>2. CASE BeginIndex
    BY <2>2 DEF BeginIndex, WriterState, AtRest
  <2>3. CASE EmptyTable
    BY <2>3 DEF EmptyTable, WriterState
  <2>4. CASE ForgetManifest
    BY <2>4 DEF ForgetManifest, SetManifest, WriterState
  <2>5. CASE Scan
    BY <2>5 DEF Scan, StoredFiles, WriterState
  <2>6. ASSUME NEW f \in TableFile, Fill(f) PROVE WriterAgrees'
    BY <2>6 DEF Fill, WriterState, AtRest
  <2>7. CASE EndIndexRun
    BY <2>7 DEF EndIndexRun, SetManifest, WriterState, AtRest
  <2>8. CASE Die
    BY <2>8 DEF Die, WriterState, AtRest
  <2>9. CASE StartWorker \/ StopWorker
    BY <2>9 DEF StartWorker, StopWorker
  <2>10. ASSUME NEW f \in TableFile, BeginReindex(f) PROVE WriterAgrees'
    BY <2>10 DEF BeginReindex, WriterState
  <2>11. CASE DeleteRows
    BY <2>11 DEF DeleteRows, Mismatched, StoredFiles, WriterState
  <2>12. CASE AppendVectors
    BY <2>12 DEF AppendVectors, WriterState, AtRest
  <2>13. CASE TallyRows
    <3>1. writer.model \in Model /\ writer' = AtRest /\ AtRest.at = "idle" /\ AtRest \in WriterState
      BY <2>13 DEF TallyRows, AtRest, WriterState
    <3>2. recorded' = [model |-> writer.model, indexed |-> recorded.indexed]
      BY <2>13 DEF TallyRows, SetManifest
    <3>3. recorded' \in [model : Model, indexed : BOOLEAN] /\ recorded'.model = writer.model
      BY <3>1, <3>2
    <3> QED
      BY <2>13, <3>1, <3>3 DEF TallyRows
  <2>14. ASSUME NEW r \in Reader, ReaderStep(r) PROVE WriterAgrees'
    <3>1. UNCHANGED <<config, store, writer, worker>>
      BY <2>14 DEF ReaderStep, BeginSearch, BeginGrep, WarmEmbed, PassThrough, ColdSearch, ReadRows,
                   Gate, Rank
    <3> QED
      BY <3>1
  <2>15. CASE UNCHANGED identityVars
    BY <2>15 DEF identityVars
  <2> QED
    BY <2>1, <2>2, <2>3, <2>4, <2>5, <2>6, <2>7, <2>8, <2>9, <2>10, <2>11, <2>12, <2>13, <2>14, <2>15
       DEF IdentityNext, WriterStep
<1> QED
  BY <1>1, <1>2, PTL DEF IdentitySpec

(* Every row is of the model the manifest names, whatever dies and when, unless a     *)
(* worker that outlived its model or a first index cut short tainted the table.       *)
THEOREM OneModel == IdentitySpec => []TableHasManifestModel
<1>1. WriterAgrees => TableHasManifestModel
  BY DEF WriterAgrees, NoRowsBut, TableHasManifestModel, StoredFiles
<1> QED
  BY <1>1, Agreeing, PTL

ReaderState ==
  {AtRest}
    \cup [at : {"warm"}, model : Model, of : Model]
    \cup [at : {"rows"}, model : Model, gate : BOOLEAN]
    \cup [at : {"gate", "rank"}, model : Model \cup {NoModel}, got : SUBSET Model]

(* A reader that no rebuild has overtaken knows the manifest's model, and has rows   *)
(* of that model only.                                                         *)
ReadersAgree ==
  /\ reader \in [Reader -> ReaderState]
  /\ excused \subseteq Reader
  /\ cache \in Model \cup {NoModel}
  /\ \A r \in Reader \ excused :
       /\ reader[r].at = "warm" => recorded.model = reader[r].of
       /\ reader[r].at = "rows" /\ ~reader[r].gate => recorded.model = reader[r].model
       /\ reader[r].at = "gate" /\ recorded # NoManifest =>
            reader[r].got \subseteq {recorded.model}
       /\ Comparable(r)

(* A reader's place says which fields it has.                                   *)
LEMMA ReaderFields ==
  ASSUME NEW x \in ReaderState
  PROVE  /\ x.at = "warm" => x \in [at : {"warm"}, model : Model, of : Model]
         /\ x.at = "rows" => x \in [at : {"rows"}, model : Model, gate : BOOLEAN]
         /\ x.at \in {"gate", "rank"} =>
              x \in [at : {"gate", "rank"}, model : Model \cup {NoModel}, got : SUBSET Model]
         /\ x # AtRest => x.at # "idle"
BY DEF ReaderState, AtRest

(* What a reader in flight relies on changes with the manifest's model only, and      *)
(* then it is excused.                                                         *)
LEMMA ManifestMoves ==
  ASSUME ReadersAgree, WriterAgrees, NEW m \in Model, NEW b \in BOOLEAN, SetManifest(m, b),
         UNCHANGED <<reader, cache>>
  PROVE  ReadersAgree'
<1>1. CASE recorded.model = m
  <2>1. recorded # NoManifest
    BY <1>1, IdentityAssumption DEF NoManifest
  <2>2. recorded'.model = recorded.model /\ excused' = excused
    BY <1>1 DEF SetManifest
  <2> QED
    BY <2>1, <2>2 DEF ReadersAgree, Comparable
<1>2. CASE recorded.model # m
  <2>1. excused' = excused \cup {r \in Reader : reader[r] # AtRest}
    BY <1>2 DEF SetManifest, Overtaken
  <2>2. ASSUME NEW r \in Reader \ excused' PROVE reader[r] = AtRest
    BY <2>1, <2>2
  <2> QED
    BY <2>1, <2>2 DEF ReadersAgree, Comparable, AtRest
<1> QED
  BY <1>1, <1>2

(* The readers that are not excused compare vectors of one model, through any         *)
(* change of the configuration, search or rebuild.                              *)
THEOREM ReadersKeep == IdentitySpec => []ReadersAgree
<1>1. IdentityInit => ReadersAgree
  BY DEF IdentityInit, ReadersAgree, ReaderState, AtRest, Comparable
<1>2. WriterAgrees /\ WriterAgrees' /\ ReadersAgree /\ [IdentityNext]_identityVars => ReadersAgree'
  <2> SUFFICES ASSUME WriterAgrees, WriterAgrees', ReadersAgree, [IdentityNext]_identityVars
               PROVE  ReadersAgree'
    OBVIOUS
  <2>1. CASE EndIndexRun \/ ForgetManifest
    BY <2>1, ManifestMoves, WriterFields DEF EndIndexRun, ForgetManifest, WriterAgrees
  <2>2. CASE TallyRows
    <3>1. writer.model \in Model /\ recorded.indexed \in BOOLEAN
      BY <2>2, WriterFields, ManifestFields DEF TallyRows, WriterAgrees
    <3> QED
      BY <2>2, <3>1, ManifestMoves DEF TallyRows
  <2>3. ASSUME UNCHANGED <<recorded, reader, excused, cache>> PROVE ReadersAgree'
    BY <2>3 DEF ReadersAgree, Comparable
  <2>4. ASSUME NEW f \in TableFile, Fill(f) \/ BeginReindex(f) PROVE ReadersAgree'
    BY <2>3, <2>4 DEF Fill, BeginReindex, store
  <2>5. CASE ChangeConfig \/ BeginIndex \/ EmptyTable \/ Scan \/ Die
    BY <2>3, <2>5 DEF ChangeConfig, BeginIndex, EmptyTable, Scan, Die, store
  <2>6. CASE DeleteRows \/ AppendVectors \/ StartWorker \/ StopWorker
    BY <2>3, <2>6 DEF DeleteRows, AppendVectors, StartWorker, StopWorker, store
  <2>7. ASSUME NEW r \in Reader, BeginSearch(r) PROVE ReadersAgree'
    BY <2>7 DEF BeginSearch, ReadersAgree, MovesTo, ReaderState, ProviderFor, Comparable, store, WriterAgrees
  <2>8. ASSUME NEW r \in Reader, BeginGrep(r) PROVE ReadersAgree'
    <3>1. recorded.model \in Model
      BY <2>8 DEF BeginGrep, WriterAgrees, NoManifest
    <3> QED
      BY <2>8, <3>1 DEF BeginGrep, ReadersAgree, MovesTo, ReaderState, Comparable, store, WriterAgrees
  <2>9. ASSUME NEW r \in Reader, WarmEmbed(r) PROVE ReadersAgree'
    BY <2>9, ReaderFields DEF WarmEmbed, ReadersAgree, MovesTo, ReaderState, ProviderFor, Comparable,
       store, WriterAgrees
  <2>10. ASSUME NEW r \in Reader, PassThrough(r) \/ Rank(r) PROVE ReadersAgree'
    BY <2>10 DEF PassThrough, Rank, ReadersAgree, MovesTo, ReaderState, AtRest, Comparable, store
  <2>11. ASSUME NEW r \in Reader, ColdSearch(r) PROVE ReadersAgree'
    BY <2>11, ReaderFields DEF ColdSearch, ReadersAgree, MovesTo, ReaderState, Comparable, store
  <2>12. ASSUME NEW r \in Reader, ReadRows(r) PROVE ReadersAgree'
    BY <2>12, ReaderFields, ManifestFields, IdentityAssumption
       DEF ReadRows, ReadersAgree, MovesTo, ReaderState, Comparable, store, WriterAgrees, NoRowsBut,
           StoredFiles
  <2>13. ASSUME NEW r \in Reader, Gate(r) PROVE ReadersAgree'
    <3>1. reader[r] \in [at : {"gate", "rank"}, model : Model \cup {NoModel}, got : SUBSET Model]
      BY <2>13, ReaderFields DEF Gate, ReadersAgree
    <3>2. recorded' = recorded /\ cache' = cache
      BY <2>13 DEF Gate, store
    <3>3. PICK m : /\ m = NoModel \/ (m = reader[r].model /\ Compatible(reader[r].model))
                   /\ reader' = [reader EXCEPT ![r] = [reader[r] EXCEPT !.at = "rank", !.model = m]]
      BY <2>13 DEF Gate, MovesTo
    <3>4. reader' \in [Reader -> ReaderState] /\ excused' \subseteq Reader
      <4>1. [reader[r] EXCEPT !.at = "rank", !.model = m] \in ReaderState
        BY <3>1, <3>3 DEF ReaderState
      <4> QED
        BY <2>13, <3>3, <4>1 DEF Gate, ReadersAgree
    <3>5. ASSUME r \notin excused', m # NoModel PROVE reader[r].got \subseteq {m}
      <4>1. recorded # NoManifest /\ r \notin excused
        BY <2>13, <3>5 DEF Gate
      <4>2. recorded.model = m
        BY <3>3, <3>5, <4>1, ManifestFields DEF Compatible, WriterAgrees
      <4> QED
        BY <2>13, <4>1, <4>2 DEF Gate, ReadersAgree
    <3>6. excused \subseteq excused'
      BY <2>13 DEF Gate
    <3>7. reader'[r].at = "rank" /\ reader'[r].model = m /\ reader'[r].got = reader[r].got
      BY <3>1, <3>3 DEF ReadersAgree
    <3>8. \A o \in Reader \ {r} : reader'[o] = reader[o]
      BY <3>3 DEF ReadersAgree
    <3> QED
      BY <3>2, <3>4, <3>5, <3>6, <3>7, <3>8 DEF ReadersAgree, Comparable
  <2>14. CASE UNCHANGED identityVars
    BY <2>3, <2>14 DEF identityVars, store
  <2> QED
    BY <2>1, <2>2, <2>4, <2>5, <2>6, <2>7, <2>8, <2>9, <2>10, <2>11, <2>12, <2>13, <2>14
       DEF IdentityNext, WriterStep, ReaderStep
<1> QED
  BY <1>1, <1>2, Agreeing, PTL DEF IdentitySpec

(* A dense ranking compares vectors of one model, also when the configuration        *)
(* changes under the search.                                                   *)
THEOREM RankingIsAlike == IdentitySpec => []RankedAlike
<1>1. ReadersAgree => RankedAlike
  BY DEF ReadersAgree, RankedAlike
<1> QED
  BY <1>1, ReadersKeep, PTL
=============================================================================
