------------------------------- MODULE ChunkRows -------------------------------
(***************************************************************************)
(* Chunks as rows of the table and back: what a window of embedded chunks     *)
(* becomes (store/chunk_row.rs, store/arrow.rs), the reads of the store with    *)
(* their projections, and what searches, statistics and the overview make of    *)
(* the rows (store/mod.rs, search/mod.rs, cli/mod.rs).                        *)
(*                                                                         *)
(* A path is a sequence of tokens, of which "/", "\\" and "." have a meaning;  *)
(* a vector is a sequence of numbers, of which NaN is not finite.  Hashes, ids  *)
(* and positions are carried along.  Rows keep the order they were written in:   *)
(* the sort of read_chunks (sort_rows) is left out.                           *)
(***************************************************************************)
EXTENDS Naturals, Sequences, FiniteSets, SequencesExt, FiniteSetsExt

CONSTANTS
  Embedded,     \* the embedded chunks an index may bring: an EmbeddedChunk each
  Dimension,    \* dimensions of embedding models
  NaN,          \* a number that is not finite
  MaxWindow,    \* bound: chunks of a window
  MaxBatches    \* bound: windows of one table

VARIABLES
  batches,  \* the record batches of the table, a column each
  width,    \* the width of its vector column; 0 while there is no table
  brought   \* history: the chunks of the windows that were accepted

rowVars == <<batches, width, brought>>

-----------------------------------------------------------------------------
(* Names of languages and kinds.                                             *)

(* Mutant: a language is stored as the one whose grammar it shares. *)
LanguageNameShared ==
  [Rust |-> "rust", Python |-> "python", JavaScript |-> "typescript",
   TypeScript |-> "typescript", Go |-> "go", Java |-> "java", C |-> "c", Cpp |-> "cpp",
   CSharp |-> "csharp", Sql |-> "sql", Unknown |-> "unknown"]

LanguageName ==
  [Rust |-> "rust", Python |-> "python", JavaScript |-> "javascript",
   TypeScript |-> "typescript", Go |-> "go", Java |-> "java", C |-> "c", Cpp |-> "cpp",
   CSharp |-> "csharp", Sql |-> "sql", Unknown |-> "unknown"]

Language == DOMAIN LanguageName

FromExtension(ext) ==
  CASE ext = "rs" -> "Rust"
    [] ext = "py" -> "Python"
    [] ext \in {"js", "mjs", "cjs"} -> "JavaScript"
    [] ext \in {"ts", "tsx"} -> "TypeScript"
    [] ext = "go" -> "Go"
    [] ext = "java" -> "Java"
    [] ext \in {"c", "h"} -> "C"
    [] ext \in {"cpp", "cc", "cxx", "hpp", "hxx"} -> "Cpp"
    [] ext = "cs" -> "CSharp"
    [] ext = "sql" -> "Sql"
    [] OTHER -> "Unknown"

LanguageStored ==
  [rust |-> "Rust", python |-> "Python", javascript |-> "JavaScript",
   typescript |-> "TypeScript", go |-> "Go", java |-> "Java", c |-> "C", cpp |-> "Cpp",
   csharp |-> "CSharp", sql |-> "Sql"]

KindName ==
  [Function |-> "function", Method |-> "method", Struct |-> "struct", Class |-> "class",
   Enum |-> "enum", Trait |-> "trait", Interface |-> "interface", Module |-> "module",
   Impl |-> "impl", Macro |-> "macro", Table |-> "table", View |-> "view",
   Trigger |-> "trigger", Other |-> "other"]

ChunkKind == DOMAIN KindName

KindStored ==
  [function |-> "Function", method |-> "Method", struct |-> "Struct", class |-> "Class",
   enum |-> "Enum", trait |-> "Trait", interface |-> "Interface", module |-> "Module",
   impl |-> "Impl", macro |-> "Macro", table |-> "Table", view |-> "View",
   trigger |-> "Trigger"]

(* A name that is not known reads as the language or kind of everything else.     *)
FromStorage(stored, name, otherwise) ==
  IF name \in DOMAIN stored THEN stored[name] ELSE otherwise

(* from_filter_input: what a caller may call a language; "c++" and "c#" too.      *)
FilterInput ==
  [rust |-> "Rust", python |-> "Python", javascript |-> "JavaScript", js |-> "JavaScript",
   typescript |-> "TypeScript", ts |-> "TypeScript", go |-> "Go", java |-> "Java", c |-> "C",
   cpp |-> "Cpp", csharp |-> "CSharp", cs |-> "CSharp", sql |-> "Sql", unknown |-> "Unknown"]

-----------------------------------------------------------------------------
(* Paths.                                                                   *)

(* RelativePath::new.                                                        *)
NewPath(path) == [i \in DOMAIN path |-> IF path[i] = "\\" THEN "/" ELSE path[i]]

(* language_for_path: a name that only begins with a dot has no extension.        *)
LanguageForPath(path) ==
  LET n == Len(path) IN
    IF n > 2 /\ path[n - 1] = "." /\ path[n - 2] # "/" THEN FromExtension(path[n]) ELSE "Unknown"

Trimmed(p) == SubSeq(p, 1, Max({0} \cup {i \in DOMAIN p : p[i] # "/"}))

(* Mutant: a directory is matched by its own files only with an extension. *)
PathPrefixMatchesName(path, prefix) ==
  LET p == Trimmed(prefix)
      rest == SubSeq(path, Len(p) + 1, Len(path)) IN
    /\ IsPrefix(p, path)
    /\ rest = <<>> \/ rest[1] = "."

(* path_prefix_matches: the path itself, below it, or with an extension only.     *)
PathPrefixMatches(path, prefix) ==
  LET p == Trimmed(prefix)
      rest == SubSeq(path, Len(p) + 1, Len(path)) IN
    /\ IsPrefix(p, path)
    /\ \/ rest = <<>>
       \/ rest[1] = "/"
       \/ rest[1] = "." /\ \A i \in 2..Len(rest) : rest[i] \notin {"/", "."}

ImmediateParentDir(path) ==
  LET slashes == {i \in DOMAIN path : path[i] = "/"} IN
    IF slashes = {} THEN <<".">> ELSE SubSeq(path, 1, Max(slashes) - 1)

-----------------------------------------------------------------------------
(* Rows and record batches.                                                  *)

Column == {"chunk_id", "file_path", "language", "kind", "name", "line_start", "line_end",
           "byte_start", "byte_end", "file_hash", "content", "vector"}

(* validate_vector.                                                          *)
Valid(vector, d) == Len(vector) = d /\ \A i \in DOMAIN vector : vector[i] # NaN

(* StoredChunk::from_embedded_chunk.                                          *)
StoredChunk(e) ==
  [chunk_id |-> e.id, file_path |-> e.file_path, language |-> LanguageName[e.language],
   kind |-> KindName[e.kind], name |-> e.name,
   line_start |-> e.line_range.start, line_end |-> e.line_range.end,
   byte_start |-> e.byte_range.start, byte_end |-> e.byte_range.end,
   file_hash |-> e.file_hash, content |-> e.content, vector |-> e.vector]

(* record_batch_from_rows.                                                    *)
RecordBatch(rows) == [column \in Column |-> [i \in DOMAIN rows |-> rows[i][column]]]

RowsIn(batch, columns) ==
  [i \in DOMAIN batch["file_path"] |-> [column \in columns |-> batch[column][i]]]

(* rows_from_batches, batches_to_metadata_rows, read_path_rows: the rows of every   *)
(* batch, in the columns that are selected.                                    *)
ReadBatches(columns) ==
  LET Read[n \in 0..Len(batches)] ==
        IF n = 0 THEN <<>> ELSE Read[n - 1] \o RowsIn(batches[n], columns)
  IN  Read[Len(batches)]

AllRows == ReadBatches(Column)
WithoutContent == ReadBatches(Column \ {"content"})
Metadata == ReadBatches({"file_path", "file_hash", "language", "name"})
Paths == ReadBatches({"file_path"})
FileRows(path) == {i \in DOMAIN AllRows : AllRows[i].file_path = path}

(* stored_chunk_to_chunk.                                                    *)
ChunkOf(r) ==
  [id |-> r.chunk_id, file_path |-> NewPath(r.file_path),
   language |-> FromStorage(LanguageStored, r.language, "Unknown"),
   kind |-> FromStorage(KindStored, r.kind, "Other"), name |-> r.name,
   line_range |-> [start |-> r.line_start, end |-> r.line_end],
   byte_range |-> [start |-> r.byte_start, end |-> r.byte_end],
   file_hash |-> r.file_hash, content |-> r.content]

(* stats_from_rows, stats_from_metadata, stats_from_paths, of the rows in some places.   *)
Stats(rows, places) ==
  [chunks |-> Cardinality(places), files |-> Cardinality({rows[i].file_path : i \in places})]

(* apply_filters: the places of the rows it keeps, by language names, and by a path      *)
(* prefix.                                                                  *)
OfLanguages(rows, languages) ==
  {i \in DOMAIN rows : rows[i].language \in {LanguageName[l] : l \in languages}}

UnderPrefix(rows, prefix) ==
  {i \in DOMAIN rows : PathPrefixMatches(rows[i].file_path, NewPath(prefix))}

(* run_overview: a rollup of each directory, and the totals.                     *)
Rollup(rows, places, dir) ==
  LET here == {i \in places : ImmediateParentDir(rows[i].file_path) = dir} IN
    [stats |-> Stats(rows, here),
     languages |-> [l \in {rows[i].language : i \in here} |->
                      Cardinality({i \in here : rows[i].language = l})]]

Overview(rows, places) ==
  [dir \in {ImmediateParentDir(rows[i].file_path) : i \in places} |-> Rollup(rows, places, dir)]

(* One directory after another; the order they are sorted in does not matter to a sum.      *)
Totals(overview) ==
  LET directories == SetToSeq(DOMAIN overview)
      Sums[n \in 0..Len(directories)] ==
        IF n = 0 THEN [chunks |-> 0, files |-> 0]
        ELSE [chunks |-> Sums[n - 1].chunks + overview[directories[n]].stats.chunks,
              files |-> Sums[n - 1].files + overview[directories[n]].stats.files]
  IN  Sums[Len(directories)]

-----------------------------------------------------------------------------
(* An EmbeddedChunk is of a path that was normalized, in the language of that path; a        *)
(* model has some dimensions (config/validate.rs:52).                                *)
Embeddable(e) ==
  /\ e = [id |-> e.id, file_path |-> e.file_path, language |-> e.language, kind |-> e.kind,
          name |-> e.name, line_range |-> e.line_range, byte_range |-> e.byte_range,
          file_hash |-> e.file_hash, content |-> e.content, vector |-> e.vector]
  /\ \A range \in {e.line_range, e.byte_range} : range \in [start : Nat, end : Nat]
  /\ e.file_path \in Seq(STRING) /\ e.file_path = NewPath(e.file_path)
  /\ e.language = LanguageForPath(e.file_path) /\ e.kind \in ChunkKind

ASSUME RowsAssumption ==
  /\ \A e \in Embedded : Embeddable(e)
  /\ Dimension \subseteq Nat \ {0} /\ MaxWindow \in Nat

(* The writes.                                                              *)

RowsInit ==
  /\ batches = <<>>
  /\ width = 0
  /\ brought = <<>>

(* stored_chunks_from_embedded and append_rows: a vector that is not valid refuses   *)
(* the whole window, and a table of another width refuses the batch.              *)
AppendRows(window, d) ==
  /\ Len(batches) < MaxBatches
  /\ \A i \in DOMAIN window : Valid(window[i].vector, d)
  /\ width \in {0, d}
  /\ width' = d
  /\ batches' = Append(batches, RecordBatch([i \in DOMAIN window |-> StoredChunk(window[i])]))
  /\ brought' = brought \o window

(* reset_chunks_table.                                                       *)
ResetTable(d) ==
  /\ width' = d
  /\ batches' = <<>>
  /\ brought' = <<>>

Window == UNION {[1..n -> Embedded] : n \in 1..MaxWindow}

RowsNext ==
  \E d \in Dimension :
    \/ ResetTable(d)
    \/ \E window \in Window : AppendRows(window, d)

RowsSpec == RowsInit /\ [][RowsNext]_rowVars

-----------------------------------------------------------------------------
(* What a search answers is the chunk that was indexed: every field of it comes    *)
(* back from its column, under the name it was stored by (search/mod.rs:779-806),    *)
(* and the read without chunk text has the same vectors (store/mod.rs:366-371).     *)
ChunksSurviveStorage ==
  /\ Len(AllRows) = Len(brought)
  /\ \A i \in DOMAIN brought :
       /\ \A f \in DOMAIN ChunkOf(AllRows[i]) : ChunkOf(AllRows[i])[f] = brought[i][f]
       /\ AllRows[i].vector = brought[i].vector
       /\ WithoutContent[i].vector = brought[i].vector
       /\ Len(brought[i].vector) = width

(* A filter by any alias of a language keeps the chunks of the files with one of     *)
(* its extensions, and no others (search/mod.rs:584-613, types.rs:160-215).        *)
LanguageFilterIsExact ==
  LET rows == AllRows IN
    \A alias \in DOMAIN FilterInput :
      OfLanguages(rows, {FilterInput[alias]})
        = {i \in DOMAIN rows : LanguageForPath(rows[i].file_path) = FilterInput[alias]}

(* What was indexed is what a search finds, with and without a filter.             *)
SearchesSeeTheChunks == ChunksSurviveStorage /\ LanguageFilterIsExact

(* The counts of the manifest, from the path column, are those of a reindex, from   *)
(* whole rows or metadata, and the directories of the overview add up to them.     *)
StatsAgree ==
  LET all == Stats(AllRows, DOMAIN AllRows) IN
    /\ Stats(Paths, DOMAIN Paths) = all
    /\ Stats(Metadata, DOMAIN Metadata) = all
    /\ Totals(Overview(Metadata, DOMAIN Metadata)) = all

(* Asking the overview for a directory it has shown shows the directory again, as     *)
(* it was, with everything below it (cli/mod.rs:320-350).                        *)
DrillDownShowsTheDirectory ==
  LET shown == Overview(Metadata, DOMAIN Metadata) IN
    \A dir \in DOMAIN shown \ {<<".">>} :
      LET below == Overview(Metadata, UnderPrefix(Metadata, dir)) IN
        /\ dir \in DOMAIN below
        /\ below[dir] = shown[dir]
        /\ \A other \in DOMAIN shown : IsPrefix(Append(dir, "/"), other) => other \in DOMAIN below

(* Manifest, reindex and overview tell of one table, whichever column they read.    *)
OverviewIsExact == StatsAgree /\ DrillDownShowsTheDirectory
=============================================================================
