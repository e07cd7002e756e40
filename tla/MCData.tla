-------------------------------- MODULE MCData --------------------------------
(* Instances of the components that share no state with one another; `part`       *)
(* names the one that runs, the others rest in one state.                       *)
EXTENDS Chunking, Ranking, Selection, Floor, Declarations, Embedding,
        Settings, GrepIntercept, Calendar, ChunkRows

MCFileShape ==
  {[grammar |-> TRUE, chunks |-> <<s>>] : s \in 0..2}
    \cup {[grammar |-> g, chunks |-> <<2, 0>>] : g \in BOOLEAN}

(* Rows that do not match, that do by their vector, their text, their name or all three,   *)
(* alone or not.                                                              *)
MCMatch ==
  {<<0, 0, FALSE>>, <<1, 0, FALSE>>, <<0, 1, FALSE>>, <<0, 0, TRUE>>, <<1, 1, TRUE>>}

(* Chunks of files of a directory, below it, beside it with a longer name, and at the     *)
(* root; an alias language, a file of none, two chunks of one file; two widths and a       *)
(* vector that is not finite.                                                    *)
MCChunk(id, path, kind, name, vector) ==
  [id |-> id, file_path |-> NewPath(path), language |-> LanguageForPath(NewPath(path)),
   kind |-> kind, name |-> name,
   line_range |-> [start |-> id, end |-> id + 1],
   byte_range |-> [start |-> 10 * id, end |-> 10 * id + 9],
   file_hash |-> Len(path), content |-> "text", vector |-> vector]

MCEmbedded ==
  {MCChunk(1, <<"src", "/", "lib", ".", "rs">>, "Function", <<"f">>, <<1, 2>>),
   MCChunk(2, <<"src", "/", "lib", ".", "rs">>, "Trigger", <<>>, <<2, 1>>),
   MCChunk(3, <<"src", "\\", "hooks", "/", "run", ".", "tsx">>, "Class", <<"g">>, <<1, 1>>),
   MCChunk(4, <<"src", ".", "py">>, "Method", <<>>, <<1>>),
   MCChunk(5, <<"src", ".", "py">>, "Impl", <<>>, <<1, 3>>),
   MCChunk(6, <<"srcs", "/", ".", "hpp">>, "Other", <<>>, <<3, 3>>),
   MCChunk(7, <<"a", ".", "js">>, "View", <<>>, <<3, 2>>),
   MCChunk(8, <<"a", ".", "js">>, "Table", <<>>, <<3, NaN>>)}

VARIABLE part

Part ==
  {"chunking", "ranking", "selection", "floor", "declarations",
   "embedding", "settings", "grep", "calendar", "rows"}

(* Where one of many initial states is chosen, the components that rest take one.       *)
DataInit ==
  /\ part \in Part
  /\ ChunkingInit /\ RankInit /\ SelInit /\ RowsInit
  /\ IF part = "floor" THEN FloorInit
     ELSE scored = <<>> /\ configured = 0 /\ floorKept = {}
  /\ IF part = "declarations" THEN DeclInit ELSE lang = "" /\ text = <<>> /\ nodes = <<>>
  /\ IF part = "embedding" THEN EmbedInit
     ELSE /\ provider = "" /\ tokens = <<>> /\ embedded = <<>> /\ requests = <<>>
          /\ groups = <<>> /\ embedding = ""
  /\ IF part = "settings" THEN SettingsInit
     ELSE /\ stated = [l \in Layer |-> "index_dir" :> "outside"]
          /\ section = [l \in Layer |-> TRUE] /\ session = "below"
  /\ IF part = "grep" THEN GrepInit ELSE wrappers = <<>> /\ tool = "" /\ args = <<>>
  /\ IF part = "calendar" THEN CalendarInit
     ELSE /\ day = 0 /\ date = [year |-> 1970, month |-> 1, day |-> 1] /\ second = 0
          /\ walked = 0

(* All components but one stay as they are.                                          *)
Rest(running) ==
  /\ UNCHANGED part
  /\ IF running = "chunking" THEN TRUE ELSE UNCHANGED chunkVars
  /\ IF running = "ranking" THEN TRUE ELSE UNCHANGED rankVars
  /\ IF running = "selection" THEN TRUE ELSE UNCHANGED selVars
  /\ IF running = "floor" THEN TRUE ELSE UNCHANGED floorVars
  /\ IF running = "declarations" THEN TRUE ELSE UNCHANGED declVars
  /\ IF running = "embedding" THEN TRUE ELSE UNCHANGED embedVars
  /\ IF running = "settings" THEN TRUE ELSE UNCHANGED settingVars
  /\ IF running = "grep" THEN TRUE ELSE UNCHANGED grepVars
  /\ IF running = "calendar" THEN TRUE ELSE UNCHANGED calVars
  /\ IF running = "rows" THEN TRUE ELSE UNCHANGED rowVars

ChunkingPart == part = "chunking" /\ ChunkingNext /\ Rest("chunking")
RankingPart == part = "ranking" /\ RankNext /\ Rest("ranking")
SelectionPart == part = "selection" /\ SelNext /\ Rest("selection")
FloorPart == part = "floor" /\ FloorNext /\ Rest("floor")
DeclarationsPart == part = "declarations" /\ DeclNext /\ Rest("declarations")
EmbeddingPart == part = "embedding" /\ EmbedNext /\ Rest("embedding")
SettingsPart == part = "settings" /\ SettingsNext /\ Rest("settings")
GrepPart == part = "grep" /\ GrepNext /\ Rest("grep")
CalendarPart == part = "calendar" /\ CalendarNext /\ Rest("calendar")
RowsPart == part = "rows" /\ RowsNext /\ Rest("rows")

DataNext ==
  \/ ChunkingPart \/ RankingPart \/ SelectionPart \/ FloorPart
  \/ DeclarationsPart \/ EmbeddingPart
  \/ SettingsPart \/ GrepPart \/ CalendarPart \/ RowsPart

dataVars ==
  <<part, chunkVars, rankVars, selVars, floorVars, declVars, embedVars, settingVars, grepVars,
    calVars, rowVars>>

DataSpec == DataInit /\ [][DataNext]_dataVars

DataTypeOK ==
  /\ part = "chunking" => ChunkingTypeOK
  /\ part = "ranking" => RankTypeOK
  /\ part = "selection" => SelTypeOK
  /\ part = "floor" => FloorTypeOK
  /\ part = "declarations" => DeclTypeOK
  /\ part = "embedding" => EmbedTypeOK
  /\ part = "settings" => SettingsTypeOK
  /\ part = "grep" => GrepTypeOK
  /\ part = "calendar" => CalendarTypeOK
===============================================================================
