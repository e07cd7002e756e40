------------------------------- MODULE Ranking -------------------------------
(***************************************************************************)
(* Which of the scored rows come out (search/mod.rs, neighbors.rs,             *)
(* duplicates.rs): a table is scanned in its order, which nothing fixes, and      *)
(*   - the related code of an edit is the best row of each other file, drained     *)
(*     from a hash map in any order into a heap of bounded size;                 *)
(*   - near-duplicates are the pairs of rows of different files, into such a heap; *)
(*   - the answer of a search is sorted, one row to a file, and cut.             *)
(*                                                                         *)
(* A score is a small number, 1.0 is Unit of them; the cosine, BM25 and the weights   *)
(* are not modelled, only that the sum grows with each.  A row is named by its place   *)
(* in the table.                                                             *)
(***************************************************************************)
EXTENDS Integers, Sequences, FiniteSets

CONSTANTS
  Places,      \* bound: the rows of the table
  Files,     \* bound: their files
  TopScore,  \* bound
  Match,     \* bound: how a row may match a query: dense, bm25, by its name
  Unit,      \* bound: the score 1.0
  Boost,     \* identifier_boost, in tenths
  MinScore,  \* min_score
  Floor,     \* min_similarity, similarity_threshold
  Limit      \* top_k, limit

ASSUME RankingAssumption ==
  /\ {Places, Files, TopScore, Unit, Boost, MinScore, Floor} \subseteq Nat
  /\ Match \subseteq Nat \X Nat \X BOOLEAN
  /\ Limit \in Nat \ {0}

VARIABLES
  job,      \* what is asked of the table
  corpus,    \* its rows
  likeness, \* of the rows, two by two
  scanned,  \* the rows seen so far; of pairs, the next
  best,     \* the best row so far of each file, 0: none
  heap,     \* the candidates kept
  answer    \* of a search: its rows

rankVars == <<job, corpus, likeness, scanned, best, heap, answer>>

RankedFile == 1..Files
Pairs == {p \in (1..Places) \X (1..Places) : p[1] < p[2]}

RankTypeOK ==
  /\ job \in {"none", "neighbors", "drain", "ranked", "duplicates", "paired", "search", "answered"}
  /\ best \in [RankedFile -> 0..Places]
  /\ Cardinality(heap) <= Limit
  /\ Len(answer) <= Limit

RankInit ==
  /\ job = "none"
  /\ corpus = << >>
  /\ likeness = << >>
  /\ scanned = 0
  /\ best = [f \in RankedFile |-> 0]
  /\ heap = {}
  /\ answer = << >>

-----------------------------------------------------------------------------
LexBefore(p, q) == p[1] < q[1] \/ (p[1] = q[1] /\ p[2] < q[2])

(* neighbor_rank, pair_rank: by score, then by where it is.                       *)
Better(a, b) ==
  \/ a.score > b.score
  \/ a.score = b.score /\ LexBefore(a.key, b.key)

(* Mutant: the candidate has to score more, not to rank better. *)
OfferByScore(kept, c) ==
  IF Cardinality(kept) < Limit THEN kept \cup {c}
  ELSE LET weakest == CHOOSE w \in kept : \A k \in kept : k = w \/ Better(k, w)
       IN  IF c.score > weakest.score THEN (kept \ {weakest}) \cup {c} ELSE kept

(* Mutant: a full heap is one that has passed its cap. *)
OfferPastCap(kept, c) ==
  IF Cardinality(kept) <= Limit THEN kept \cup {c}
  ELSE LET weakest == CHOOSE w \in kept : \A k \in kept : k = w \/ Better(k, w)
       IN  IF Better(c, weakest) THEN (kept \ {weakest}) \cup {c} ELSE kept

(* A heap of Limit, its weakest on top.                                          *)
Offer(kept, c) ==
  IF Cardinality(kept) < Limit THEN kept \cup {c}
  ELSE LET weakest == CHOOSE w \in kept : \A k \in kept : k = w \/ Better(k, w)
       IN  IF Better(c, weakest) THEN (kept \ {weakest}) \cup {c} ELSE kept

FileCandidate(f) == [score |-> corpus[best[f]].dense, key |-> <<f, best[f]>>]
PairCandidate(p) == [score |-> likeness[p], key |-> p]

-----------------------------------------------------------------------------
(* The neighbor scan of an edit; the edited file is not in the table.                *)
AskNeighbors ==
  /\ job = "none"
  /\ job' = "neighbors"
  /\ \E scores \in [1..Places -> RankedFile \X (0..TopScore)] :
       corpus' = [i \in 1..Places |-> [file |-> scores[i][1], dense |-> scores[i][2]]]
  /\ UNCHANGED <<likeness, scanned, best, heap, answer>>

ScanRow ==
  /\ job = "neighbors"
  /\ IF scanned = Places THEN job' = "drain" /\ scanned' = 0 /\ UNCHANGED best
     ELSE LET row == corpus[scanned + 1]
              held == best[row.file] IN
            /\ scanned' = scanned + 1
            /\ best' = IF held = 0 \/ row.dense > corpus[held].dense
                         THEN [best EXCEPT ![row.file] = scanned + 1] ELSE best
            /\ UNCHANGED job
  /\ UNCHANGED <<corpus, likeness, heap, answer>>

(* The map gives its entries in any order; a file that is below the floor is left.     *)
DrainFile(f) ==
  /\ job = "drain"
  /\ best[f] # 0
  /\ best' = [best EXCEPT ![f] = 0]
  /\ heap' = IF corpus[best[f]].dense < Floor THEN heap ELSE Offer(heap, FileCandidate(f))
  /\ UNCHANGED <<job, corpus, likeness, scanned, answer>>

Drained ==
  /\ job = "drain"
  /\ \A f \in RankedFile : best[f] = 0
  /\ job' = "ranked"
  /\ UNCHANGED <<corpus, likeness, scanned, best, heap, answer>>

(* find_duplicates: the pairs in the order of the table.                           *)
AskDuplicates ==
  /\ job = "none"
  /\ job' = "duplicates"
  /\ likeness' \in [Pairs -> 0..TopScore]
  /\ corpus' = [i \in 1..Places |-> [file |-> IF i <= Files THEN i ELSE Files]]
  /\ scanned' = <<1, 2>>
  /\ UNCHANGED <<best, heap, answer>>

NextPair(p) == IF p[2] < Places THEN <<p[1], p[2] + 1>> ELSE <<p[1] + 1, p[1] + 2>>
Qualifies(p) == corpus[p[1]].file # corpus[p[2]].file /\ likeness[p] >= Floor

ScanPair ==
  /\ job = "duplicates"
  /\ IF scanned[1] >= Places THEN job' = "paired" /\ UNCHANGED <<scanned, heap>>
     ELSE /\ scanned' = NextPair(scanned)
          /\ heap' = IF Qualifies(scanned) THEN Offer(heap, PairCandidate(scanned)) ELSE heap
          /\ UNCHANGED job
  /\ UNCHANGED <<corpus, likeness, best, answer>>

-----------------------------------------------------------------------------
(* A search.  rank_positions_from: those that score, ties by their place.            *)
Position(i, field) ==
  LET v == corpus[i][field] IN
    1 + Cardinality({j \in 1..Places :
                       \/ corpus[j][field] > v
                       \/ corpus[j][field] = v /\ j < i})

Points(i, field) == IF corpus[i][field] = 0 THEN 0 ELSE Places + 1 - Position(i, field)

(* rank_rows: a row whose name has a token of the query is boosted, and not to less     *)
(* than 0.3 of the boost; no score is above 1.0.                                  *)
Combined(i) ==
  corpus[i].dense + corpus[i].bm25 + Points(i, "dense") + Points(i, "bm25")
Boosted(i) ==
  LET raised == (Combined(i) * Boost) \div 10
      least == (3 * Boost * Unit) \div 100
  IN  IF ~corpus[i].named THEN Combined(i) ELSE IF raised < least THEN least ELSE raised
Score(i) == IF Boosted(i) > Unit THEN Unit ELSE Boosted(i)

(* A row counts that has a token of the query, in its text or its name, or its vector    *)
(* near, and scores enough.                                                    *)
Hit(i) ==
  /\ corpus[i].bm25 > 0 \/ corpus[i].named \/ corpus[i].dense >= Floor
  /\ Score(i) >= MinScore

(* sort_results: each row to the place that as many others come before.            *)
Scores == [i \in 1..Places |-> Score(i)]
Before(score, i, j) ==
  \/ score[i] > score[j]
  \/ score[i] = score[j] /\ LexBefore(<<corpus[i].file, i>>, <<corpus[j].file, j>>)
Hits == {i \in 1..Places : Hit(i)}
Sorted ==
  LET score == Scores
      rank == [i \in Hits |-> 1 + Cardinality({j \in Hits : Before(score, j, i)})]
  IN  [n \in 1..Cardinality(Hits) |-> CHOOSE i \in Hits : rank[i] = n]

(* deduplicate_by_file_path.                                                  *)
FirstOfFiles(rows) ==
  LET first == {k \in DOMAIN rows :
                  \A m \in 1..(k - 1) : corpus[rows[m]].file # corpus[rows[k]].file}
  IN  [n \in 1..Cardinality(first) |-> rows[CHOOSE k \in first : Cardinality(first \cap (1..k)) = n]]

Cut(rows) == SubSeq(rows, 1, IF Len(rows) < Limit THEN Len(rows) ELSE Limit)

(* search_impl.                                                              *)
Found == Cut(FirstOfFiles(Sorted))

AskSearch ==
  /\ job = "none"
  /\ job' = "search"
  /\ \E rows \in [1..Places -> RankedFile \X Match] :
       corpus' = [i \in 1..Places |->
                   [file |-> rows[i][1],
                    dense |-> rows[i][2][1], bm25 |-> rows[i][2][2], named |-> rows[i][2][3]]]
  /\ UNCHANGED <<likeness, scanned, best, heap, answer>>

AnswerSearch ==
  /\ job = "search"
  /\ job' = "answered"
  /\ answer' = Found
  /\ UNCHANGED <<corpus, likeness, scanned, best, heap>>

RankNext ==
  \/ AskNeighbors \/ ScanRow \/ (\E f \in RankedFile : DrainFile(f)) \/ Drained
  \/ AskDuplicates \/ ScanPair \/ AskSearch \/ AnswerSearch

RankSpec == RankInit /\ [][RankNext]_rankVars

-----------------------------------------------------------------------------
(* The row a file stands by.                                                     *)
BestOfFile(f) ==
  {[score |-> corpus[i].dense, key |-> <<f, i>>] : i \in
     {j \in 1..Places : /\ corpus[j].file = f /\ corpus[j].dense >= Floor
                      /\ \A k \in 1..Places : corpus[k].file = f =>
                           \/ corpus[k].dense < corpus[j].dense
                           \/ corpus[k].dense = corpus[j].dense /\ j <= k}}

KeepsBestOf(candidates) ==
  /\ heap \subseteq candidates
  /\ \A c \in candidates \ heap : Cardinality(heap) = Limit /\ \A k \in heap : Better(k, c)

(* neighbors.rs:18-20, duplicates.rs:22-25: when more candidates tie than are kept, which *)
(* of them are does not hang on the order they come in: nothing is kept that another      *)
(* one, left out, ranks before.                                                  *)
HeapIsBest ==
  /\ job = "ranked" => KeepsBestOf(UNION {BestOfFile(f) : f \in RankedFile})
  /\ job = "paired" => KeepsBestOf({PairCandidate(p) : p \in {q \in Pairs : Qualifies(q)}})

(* A search answers with as many files as it may and have a row that counts (line 442    *)
(* leaves out what scores below min_score), best first, whatever rows of one file come     *)
(* before those of another (search/mod.rs:139-140).                               *)
SearchFillsItsLimit ==
  job = "answered" =>
    LET files == {corpus[i].file : i \in Hits}
        score == Scores
    IN  /\ Len(answer) = IF Cardinality(files) < Limit THEN Cardinality(files) ELSE Limit
        /\ \A k \in DOMAIN answer : \A i \in Hits :
             Before(score, i, answer[k]) => \E m \in 1..k : corpus[answer[m]].file = corpus[i].file

(* What comes out is the best of what is in the table, and as much of it as was asked for. *)
RankedIsBest == HeapIsBest /\ SearchFillsItsLimit
==============================================================================
