--------------------------------- MODULE Floor ---------------------------------
(***************************************************************************)
(* The similarity floor of related-code hints: a percentile of the corpus, taken by   *)
(* a full index (search/floor.rs, lib.rs corpus_floor_from_store) and kept in the      *)
(* manifest, against the one that is configured (config/mod.rs,                        *)
(* resolve_similarity_floor).                                                     *)
(*                                                                         *)
(* A file is the scores of its chunks, each the best of that chunk against the chunks   *)
(* of all other files, in the order of the lines; files are in the order of their paths. *)
(***************************************************************************)
EXTENDS Naturals, Sequences, FiniteSets, FiniteSetsExt

CONSTANTS
  FileShape,    \* files there may be: [grammar : BOOLEAN, chunks : scores]
  MaxFiles,     \* files of a corpus
  MinFloorFiles,\* MIN_FILES_FOR_FLOOR
  MaxSeedFiles, \* MAX_SEED_FILES
  MaxFloorRows, \* MAX_CHUNKS_FOR_FLOOR, or what MAX_FLOOR_VECTOR_BYTES allows
  Percentile,   \* FLOOR_PERCENTILE
  DefaultFloor, \* DEFAULT_RELATED_MIN_SIMILARITY
  TopSimilarity

ASSUME FloorAssumption ==
  /\ MaxFiles \in Nat /\ MinFloorFiles \in Nat \ {0} /\ MaxSeedFiles \in Nat \ {0}
  /\ MaxFloorRows \in Nat /\ Percentile \in 1..99
  /\ TopSimilarity \in Nat /\ DefaultFloor \in 0..TopSimilarity
  /\ \A file \in FileShape :
       /\ file.grammar \in BOOLEAN
       /\ file.chunks \in Seq(0..TopSimilarity) /\ file.chunks # <<>>

VARIABLES
  scored,     \* the files whose chunks are in the table
  configured, \* hooks.related_min_similarity
  floorKept      \* the floor in the manifest: a set of at most one

floorVars == <<scored, configured, floorKept>>

FloorTypeOK ==
  /\ configured \in 0..TopSimilarity
  /\ floorKept \subseteq 0..TopSimilarity /\ Cardinality(floorKept) <= 1

FloorInit ==
  /\ \E n \in 0..MaxFiles : scored \in [1..n -> FileShape]
  /\ configured \in 0..TopSimilarity
  /\ floorKept = {}

-----------------------------------------------------------------------------
DivCeil(n, d) == (n + d - 1) \div d
FloorRows == FoldSet(LAMBDA f, n : n + Len(scored[f].chunks), 0, DOMAIN scored)

(* seed_vectors: a file no grammar cuts is queried whole, another by its median chunk.    *)
SeedScore(file) ==
  IF file.grammar THEN file.chunks[(Len(file.chunks) \div 2) + 1]
  ELSE Max({file.chunks[i] : i \in DOMAIN file.chunks})

Stride == Max({1, DivCeil(Len(scored), MaxSeedFiles)})
Sampled == {f \in DOMAIN scored : (f - 1) % Stride = 0}

(* best_scores.sort_by: each to the place that as many others come before.                *)
Ahead(f) ==
  {g \in Sampled : \/ SeedScore(scored[g]) < SeedScore(scored[f])
                  \/ (SeedScore(scored[g]) = SeedScore(scored[f]) /\ g < f)}
BestScores ==
  [k \in 1..Cardinality(Sampled) |->
     SeedScore(scored[CHOOSE f \in Sampled : Cardinality(Ahead(f)) = k - 1])]

(* The rank counted from one.                                                      *)
RankFromOne(n) == Min({DivCeil(n * Percentile, 100), n - 1})

(* percentile_value: the nearest rank, counted from nought.                           *)
Rank(n) == Min({DivCeil(n * Percentile, 100) - 1, n - 1})

CorpusFloor ==
  IF FloorRows = 0 \/ FloorRows > MaxFloorRows \/ Len(scored) < MinFloorFiles THEN {}
  ELSE {BestScores[Rank(Len(BestScores)) + 1]}

(* The end of a full index; a store that cannot be read leaves no floor.               *)
UpdateFloor ==
  /\ floorKept' \in {CorpusFloor, {}}
  /\ UNCHANGED <<scored, configured>>

(* resolve_similarity_floor                                                         *)
EffectiveFloor ==
  IF floorKept = {} THEN configured
  ELSE IF configured = DefaultFloor THEN Max(floorKept)
  ELSE Max(floorKept \union {configured})

(* A chunk goes from a file, or a file from the corpus, by a reindex: the floor stays.     *)
Forget(f) ==
  /\ scored' = [k \in 1..(Len(scored) - 1) |-> scored[IF k < f THEN k ELSE k + 1]]
  /\ UNCHANGED <<configured, floorKept>>

FloorNext == UpdateFloor \/ \E f \in DOMAIN scored : Forget(f)

FloorSpec == FloorInit /\ [][FloorNext]_floorVars
-----------------------------------------------------------------------------
(* search/floor.rs:9-25, 112-123, config/mod.rs:24-33.  A floor just taken leaves the    *)
(* hints to the share of files the percentile promises: fewer than Percentile per cent of  *)
(* the files asked fall below it, one of them is at it, no more are asked than allowed,  *)
(* and all of them where that many are allowed.  Under a setting the user left as it     *)
(* was these are the files that lose their hints; under another one, those below the     *)
(* setting lose theirs as well.                                                  *)
FloorKeepsItsShare ==
  [][UpdateFloor /\ floorKept' # {} =>
       LET floor == Max(floorKept')
           below(cut) == {f \in Sampled : SeedScore(scored[f]) < cut}
       IN  /\ 100 * Cardinality(below(floor)) < Percentile * Cardinality(Sampled)
           /\ \E f \in Sampled : SeedScore(scored[f]) = floor
           /\ Cardinality(Sampled) <= MaxSeedFiles
           /\ Len(scored) <= MaxSeedFiles => Sampled = DOMAIN scored
           /\ below(EffectiveFloor') =
                below(floor) \cup (IF configured = DefaultFloor THEN {} ELSE below(configured))
    ]_floorVars
=============================================================================
