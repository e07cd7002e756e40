--------------------------------- MODULE DataProofs ---------------------------------
(***************************************************************************)
(* Theorems about the components that share no state with the others.      *)
(***************************************************************************)
EXTENDS MCData, FiniteSetTheorems, SequenceTheorems, TLAPS

(* Some numbers have a least one, and some numbers up to a bound a last.              *)
LEMMA Least ==
  ASSUME NEW S \in SUBSET Nat, S # {} PROVE \E k \in S : \A j \in S : k <= j
<1>1. IsWellFoundedOn(OpToRel(<, Nat), Nat)
  BY NatLessThanWellFounded
<1>2. PICK k \in S : \A j \in S : <<j, k>> \notin OpToRel(<, Nat)
  BY <1>1, WFMin
<1>3. \A j \in S : ~(j < k)
  BY <1>2 DEF OpToRel
<1> QED
  BY <1>3

LEMMA LastOf ==
  ASSUME NEW n \in Nat, NEW S \in SUBSET (0..n), S # {} PROVE \E k \in S : \A j \in S : j <= k
<1> DEFINE Left == {i \in 0..n : n - i \in S}
<1>1. Left \in SUBSET Nat /\ Left # {}
  <2>1. PICK j \in S : TRUE
    OBVIOUS
  <2>2. n - j \in 0..n /\ n - (n - j) = j
    BY <2>1
  <2>3. n - j \in Left
    BY <2>1, <2>2
  <2>4. 0..n \subseteq Nat
    OBVIOUS
  <2> QED
    BY <2>3, <2>4
<1>2. PICK i \in Left : \A j \in Left : i <= j
  BY <1>1, Least
<1>3. ASSUME NEW j \in S PROVE j <= n - i
  <2>1. j \in 0..n /\ n - j \in 0..n /\ n - (n - j) = j
    OBVIOUS
  <2>2. i <= n - j
    BY <1>2, <2>1
  <2> QED
    BY <1>2, <2>1, <2>2
<1> QED
  BY <1>2, <1>3

(* What holds at first and goes on holding holds of every number up to a bound.            *)
LEMMA UpTo ==
  ASSUME NEW n \in Nat, NEW S, 0 \in S, \A i \in 1..n : i - 1 \in S => i \in S
  PROVE  \A i \in 0..n : i \in S
<1> DEFINE Missed == {i \in 0..n : i \notin S}
<1>1. SUFFICES ASSUME Missed # {} PROVE FALSE
  OBVIOUS
<1>2. Missed \in SUBSET Nat
  OBVIOUS
<1>3. PICK k \in Missed : \A j \in Missed : k <= j
  BY <1>1, <1>2, Least
<1>4. k \in 1..n /\ k - 1 \in 0..n /\ ~(k <= k - 1)
  BY <1>3
<1>5. k - 1 \in S
  BY <1>3, <1>4
<1> QED
  BY <1>3, <1>4, <1>5

(* A step can be taken any number of times.                                          *)
StepsStay(step, n, A) == \A x \in A, i \in 1..n : step[<<x, i>>] \in A
IsRun(f, n, start, step) == f[0] = start /\ \A i \in 1..n : f[i] = step[<<f[i - 1], i>>]

LEMMA Iterated ==
  ASSUME NEW n \in Nat, NEW A, NEW start \in A, NEW step, StepsStay(step, n, A)
  PROVE  \E f \in [0..n -> A] : IsRun(f, n, start, step)
<1> USE DEF StepsStay, IsRun
<1> DEFINE Taken(m) == {f \in [0..m -> A] : IsRun(f, m, start, step)}
           S == {m \in 0..n : Taken(m) # {}}
<1>1. 0 \in S
  <2>1. [i \in 0..0 |-> start] \in Taken(0)
    OBVIOUS
  <2> QED
    BY <2>1
<1>2. ASSUME NEW m \in 1..n, m - 1 \in S PROVE m \in S
  <2>1. PICK f : f \in Taken(m - 1)
    BY <1>2
  <2> DEFINE g == [i \in 0..m |-> IF i = m THEN step[<<f[m - 1], m>>] ELSE f[i]]
  <2>2. f \in [0..(m - 1) -> A] /\ f[0] = start /\ \A i \in 1..(m - 1) : f[i] = step[<<f[i - 1], i>>]
    BY <2>1
  <2>3. m - 1 \in 0..(m - 1) /\ \A i \in 0..m : i = m \/ i \in 0..(m - 1)
    BY <1>2
  <2>4. step[<<f[m - 1], m>>] \in A
    BY <2>2, <2>3
  <2>5. g \in [0..m -> A]
    BY <2>2, <2>3, <2>4
  <2>6. g[0] = start
    BY <1>2, <2>2
  <2>7. ASSUME NEW i \in 1..m PROVE g[i] = step[<<g[i - 1], i>>]
    <3>1. i - 1 \in 0..m /\ i \in 0..m /\ i - 1 # m
      BY <1>2
    <3>2. g[i - 1] = f[i - 1]
      BY <3>1
    <3>3. CASE i = m
      BY <3>1, <3>2, <3>3
    <3>4. CASE i # m
      <4>1. i \in 1..(m - 1)
        BY <1>2, <3>4
      <4> QED
        BY <2>2, <3>1, <3>2, <3>4, <4>1
    <3> QED
      BY <3>3, <3>4
  <2> HIDE DEF g
  <2>8. g \in Taken(m)
    BY <2>5, <2>6, <2>7
  <2> QED
    BY <2>8
<1> HIDE DEF S
<1>3. n \in S
  BY <1>1, <1>2, UpTo
<1> QED
  BY <1>3 DEF S

(* What a step keeps holds however often it is taken.                                   *)
LEMMA IteratedStays ==
  ASSUME NEW n \in Nat, NEW A, NEW f, f[0] \in A, \A i \in 1..n : f[i - 1] \in A => f[i] \in A
  PROVE  \A i \in 0..n : f[i] \in A
<1> DEFINE S == {i \in 0..n : f[i] \in A}
<1>1. 0 \in S /\ \A i \in 1..n : i - 1 \in S => i \in S
  OBVIOUS
<1> HIDE DEF S
<1>2. \A i \in 0..n : i \in S
  BY <1>1, UpTo
<1> QED
  BY <1>2 DEF S

-----------------------------------------------------------------------------
(* The two decisions which files are indexed, for rule files at any depth.            *)

(* What no watcher takes and every rule at the top leaves out has no row.              *)
LeftOut ==
  RulesAtTheTop /\ settings.respect_gitignore /\ ~file.tracked /\ ~IsWatchable

SelectionOnTrack ==
  /\ rules \in [gitignore : [Level -> {"none", "file", "directory"}],
                ignore : [Level -> BOOLEAN], include : [Level -> BOOLEAN]]
  /\ file \in [kind : Kind, version : {0, 1}, tracked : BOOLEAN, known : BOOLEAN]
  /\ settings \in [respect_gitignore : BOOLEAN, follow_symlinks : BOOLEAN]
  /\ phase \in {"indexed", "edited"} /\ LeftOut => row = NoRow
  /\ SelectionAgrees

(* Rules at the top alone: a full index asks what a watcher asks.                      *)
LEMMA TopRules ==
  ASSUME RulesAtTheTop
  PROVE  /\ ForceIncluded <=> rules.include[0]
         /\ ForcedByPath <=> rules.include[0]
         /\ Included <=> rules.include[0] \/ ~rules.ignore[0]
         /\ Ignored <=> rules.gitignore[0] # "none"
<1>1. 0 \in Level /\ Level = {0} \cup (1..Depth)
  BY SelectionAssumption DEF Level
<1>2. HasRule(0) <=> rules.ignore[0] \/ rules.include[0]
  BY DEF HasRule
<1>3. \A l \in 1..Depth :
        ~HasRule(l) /\ rules.gitignore[l] = "none" /\ ~rules.ignore[l] /\ ~rules.include[l]
  BY DEF RulesAtTheTop, HasRule
<1>4. IndexRulesPresent <=> HasRule(0)
  BY <1>1, <1>3 DEF IndexRulesPresent
<1>5. ForcedByPath <=> rules.include[0]
  BY <1>1, <1>3 DEF ForcedByPath
<1>6. ForceIncluded <=> rules.include[0]
  BY <1>1, <1>2, <1>3, <1>4 DEF ForceIncluded
<1>7. Included <=> rules.include[0] \/ ~rules.ignore[0]
  BY <1>1, <1>2, <1>3, <1>4, <1>6 DEF Included
<1>8. Ignored <=> rules.gitignore[0] # "none"
  BY <1>1, <1>3 DEF Ignored
<1> QED
  BY <1>5, <1>6, <1>7, <1>8

(* What is left out a full index leaves out.                                         *)
LEMMA LeftOutOfTree ==
  ASSUME RulesAtTheTop, settings.respect_gitignore, ~file.tracked, ~IsWatchable
  PROVE  FullRow = NoRow
<1>1. ~ForceIncluded /\ (Ignored \/ ~Included)
  BY TopRules DEF IsWatchable
<1>2. ~(Candidate /\ Included)
  BY <1>1 DEF Candidate
<1> QED
  BY <1>1, <1>2 DEF FullRow

(* What a watcher takes of a file that is none of the exceptions a full index takes.     *)
LEMMA TakenAlike ==
  ASSUME RulesAtTheTop, settings.respect_gitignore, ~file.tracked, file.kind # "link", IsWatchable,
         IsIndexable
  PROVE  FullRow = RowsOf(ForcedByPath)
<1>1. file.kind = "file" /\ Walkable
  BY DEF IsIndexable, Walkable
<1>2. Included /\ (ForceIncluded \/ ~Ignored)
  BY TopRules DEF IsWatchable
<1>3. ForceIncluded <=> ForcedByPath
  BY TopRules
<1>4. (Candidate \/ (ForceIncluded /\ Walkable)) /\ Included /\ IsIndexable
  BY <1>1, <1>2 DEF Candidate
<1>5. FullRow = RowsOf(ForceIncluded)
  BY <1>4 DEF FullRow
<1> QED
  BY <1>3, <1>5 DEF RowsOf

(* Before the file is reindexed, what the tree left out has no row.                       *)
LEMMA SelectionStays == SelSpec => []SelectionOnTrack
<1>1. SelInit => SelectionOnTrack
  BY DEF SelInit, SelectionOnTrack, SelectionAgrees, Kind
<1>2. SelectionOnTrack /\ [SelNext]_selVars => SelectionOnTrack'
  <2> SUFFICES ASSUME SelectionOnTrack, [SelNext]_selVars PROVE SelectionOnTrack'
    OBVIOUS
  <2>1. CASE LayOut
    <3>1. phase' = "laid"
      BY <2>1 DEF LayOut
    <3>2. rules' \in [gitignore : [Level -> {"none", "file", "directory"}],
                      ignore : [Level -> BOOLEAN], include : [Level -> BOOLEAN]]
      BY <2>1 DEF LayOut
    <3>3. file' \in [kind : Kind, version : {0, 1}, tracked : BOOLEAN, known : BOOLEAN]
      BY <2>1 DEF LayOut, Kind
    <3>4. settings' \in [respect_gitignore : BOOLEAN, follow_symlinks : BOOLEAN]
      BY <2>1 DEF LayOut
    <3> QED
      BY <3>1, <3>2, <3>3, <3>4 DEF SelectionOnTrack, SelectionAgrees
  <2>2. CASE IndexTree
    <3>1. phase' = "indexed" /\ row' = FullRow /\ UNCHANGED <<rules, file, settings>>
      BY <2>2 DEF IndexTree
    <3>2. LeftOut' => LeftOut
      BY <3>1 DEF LeftOut, RulesAtTheTop, HasRule, IsWatchable
    <3>3. LeftOut => FullRow = NoRow
      BY LeftOutOfTree DEF LeftOut
    <3> QED
      BY <3>1, <3>2, <3>3 DEF SelectionOnTrack, SelectionAgrees, NoRow
  <2>3. CASE EditFileAt
    <3>1. phase = "indexed" /\ phase' = "edited" /\ UNCHANGED <<rules, settings, row>>
      BY <2>3 DEF EditFileAt
    <3>2. file' \in [kind : Kind, version : {0, 1}, tracked : BOOLEAN, known : BOOLEAN]
          /\ file'.tracked = file.tracked
      BY <2>3 DEF EditFileAt, SelectionOnTrack
    <3>3. LeftOut' => LeftOut
      BY <3>1, <3>2 DEF LeftOut, RulesAtTheTop, HasRule, IsWatchable
    <3> QED
      BY <3>1, <3>2, <3>3 DEF SelectionOnTrack, SelectionAgrees, NoRow
  <2>4. CASE ReindexOne
    <3>1. /\ phase = "edited" /\ phase' = "reindexed" /\ UNCHANGED <<rules, file, settings>>
          /\ row' = IF ~IsWatchable THEN row ELSE IF IsIndexable THEN RowsOf(ForcedByPath) ELSE NoRow
      BY <2>4 DEF ReindexOne
    <3>2. ASSUME RulesAtTheTop, settings.respect_gitignore, ~file.tracked, file.kind # "link"
          PROVE  row' = FullRow
      <4>1. CASE ~IsWatchable
        BY <3>1, <3>2, <4>1, LeftOutOfTree DEF SelectionOnTrack, LeftOut
      <4>2. CASE IsWatchable /\ IsIndexable
        BY <3>1, <3>2, <4>2, TakenAlike
      <4>3. CASE IsWatchable /\ ~IsIndexable
        BY <3>1, <4>3 DEF FullRow
      <4> QED
        BY <4>1, <4>2, <4>3
    <3>3. ASSUME IsWatchable, IsIndexable, FullRow # NoRow,
                 IndexRulesPresent \/ \A l \in Level : ~HasRule(l)
          PROVE  row' = FullRow
      <4>1. FullRow = RowsOf(ForceIncluded) /\ row' = RowsOf(ForcedByPath)
        BY <3>1, <3>3 DEF FullRow
      <4>2. ForceIncluded <=> ForcedByPath
        BY <3>3 DEF ForceIncluded, ForcedByPath, HasRule
      <4> QED
        BY <4>1, <4>2 DEF RowsOf
    <3>4. /\ FullRow' = FullRow /\ IsWatchable' = IsWatchable /\ IsIndexable' = IsIndexable
          /\ IndexRulesPresent' = IndexRulesPresent /\ RulesAtTheTop' = RulesAtTheTop
          /\ \A l : HasRule(l)' = HasRule(l)
      BY <3>1 DEF FullRow, IsWatchable, IsIndexable, IndexRulesPresent, RulesAtTheTop, HasRule,
                  Candidate, ForceIncluded, Walkable, Included, RowsOf, Ignored, PrunedAbove, NoRow
    <3>5. SelectionAgrees'
      BY <3>1, <3>2, <3>3, <3>4 DEF SelectionAgrees, NoRow
    <3> QED
      BY <3>1, <3>5 DEF SelectionOnTrack
  <2>5. CASE UNCHANGED selVars
    BY <2>5 DEF selVars, SelectionOnTrack, SelectionAgrees, LeftOut, FullRow, IsWatchable, IsIndexable,
       IndexRulesPresent, RulesAtTheTop, HasRule, Candidate, ForceIncluded, Walkable, Included,
       RowsOf, Ignored, PrunedAbove, NoRow
  <2> QED
    BY <2>1, <2>2, <2>3, <2>4, <2>5 DEF SelNext
<1> QED
  BY <1>1, <1>2, PTL DEF SelSpec

(* The phase and the rows of the file are of their types.                              *)
THEOREM SelTyping == SelSpec => []SelTypeOK
<1>1. SelInit => SelTypeOK
  BY DEF SelInit, SelTypeOK, NoRow
<1>2. SelTypeOK /\ SelectionOnTrack /\ [SelNext]_selVars => SelTypeOK'
  <2> SUFFICES ASSUME SelTypeOK, SelectionOnTrack, [SelNext]_selVars PROVE SelTypeOK'
    OBVIOUS
  <2> DEFINE Row == [cut : {"none", "grammar", "lines"}, version : {0, 1}]
  <2>1. row \in Row /\ NoRow \in Row
    BY DEF SelTypeOK, NoRow
  <2>2. \A forced : RowsOf(forced) \in Row
    <3>1. file.version \in {0, 1} /\ file.known \in BOOLEAN
      BY DEF SelectionOnTrack
    <3> QED
      BY <2>1, <3>1 DEF RowsOf
  <2>3. FullRow \in Row
    BY <2>1, <2>2, Zenon DEF FullRow
  <2> HIDE DEF Row
  <2>4. phase' \in {"none", "laid", "indexed", "edited", "reindexed"}
    BY DEF SelNext, LayOut, IndexTree, EditFileAt, ReindexOne, selVars, SelTypeOK
  <2>5. row' = row \/ row' = FullRow \/ row' = NoRow \/ \E forced : row' = RowsOf(forced)
    BY DEF SelNext, LayOut, IndexTree, EditFileAt, ReindexOne, selVars
  <2>6. row' \in Row
    BY <2>1, <2>2, <2>3, <2>5
  <2> QED
    BY <2>4, <2>6 DEF SelTypeOK, Row
<1> QED
  BY <1>1, <1>2, SelectionStays, PTL DEF SelSpec

(* The reindex of a file agrees with a full index, for rule files at any depth.          *)
THEOREM SelectedAlike == SelSpec => []SelectionAgrees
<1>1. SelectionOnTrack => SelectionAgrees
  BY DEF SelectionOnTrack
<1> QED
  BY <1>1, SelectionStays, PTL

(***************************************************************************)
(* Ranking.                                                                *)
(***************************************************************************)
(* A candidate is a score and two small numbers.                                     *)
Scored(n) == [score : Nat, key : (0..n) \X (0..n)]
TopKey == Places + Files

(* A row that stands for its file among the first n.                                 *)
TopOf(f, b, n) ==
  /\ b \in 1..n /\ corpus[b].file = f
  /\ \A k \in 1..n : corpus[k].file = f =>
       \/ corpus[k].dense < corpus[b].dense
       \/ corpus[k].dense = corpus[b].dense /\ b <= k

(* What has been offered to the heap: the files that are drained, the pairs before the next.  *)
OfDrained == UNION {BestOfFile(f) : f \in {g \in RankedFile : best[g] = 0}}
OfPairsBefore(q) == {PairCandidate(p) : p \in {r \in Pairs : Qualifies(r) /\ LexBefore(r, q)}}

OnlyBest(kept, offered) ==
  /\ kept \subseteq offered /\ IsFiniteSet(kept) /\ Cardinality(kept) <= Limit
  /\ \A c \in offered \ kept : Cardinality(kept) = Limit /\ \A k \in kept : Better(k, c)

NeighborsOnTrack ==
  /\ job = "none" => best = [f \in RankedFile |-> 0] /\ heap = {} /\ scanned = 0
  /\ job \in {"neighbors", "drain", "ranked"} =>
       /\ corpus \in [1..Places -> [file : RankedFile, dense : 0..TopScore]]
       /\ best \in [RankedFile -> 0..Places]
  /\ job = "neighbors" =>
       /\ scanned \in 0..Places /\ heap = {}
       /\ \A f \in RankedFile :
            IF best[f] = 0 THEN \A i \in 1..scanned : corpus[i].file # f
            ELSE TopOf(f, best[f], scanned)
  /\ job = "drain" =>
       /\ \A f \in RankedFile : best[f] # 0 => TopOf(f, best[f], Places)
       /\ OnlyBest(heap, OfDrained)

PairsOnTrack ==
  job = "duplicates" =>
    /\ likeness \in [Pairs -> 0..TopScore]
    /\ scanned \in (Nat \ {0}) \X Nat /\ scanned[1] < scanned[2]
    /\ scanned[1] < Places => scanned[2] <= Places
    /\ OnlyBest(heap, OfPairsBefore(scanned))

RankOnTrack == NeighborsOnTrack /\ PairsOnTrack /\ HeapIsBest

LEMMA BetterIsAnOrder ==
  ASSUME NEW n \in Nat, NEW a \in Scored(n), NEW b \in Scored(n), NEW c \in Scored(n)
  PROVE  /\ ~Better(a, a)
         /\ Better(a, b) /\ Better(b, c) => Better(a, c)
         /\ a = b \/ Better(a, b) \/ Better(b, a)
<1>1. /\ a.score \in Nat /\ a.key[1] \in Nat /\ a.key[2] \in Nat
      /\ b.score \in Nat /\ b.key[1] \in Nat /\ b.key[2] \in Nat
      /\ c.score \in Nat /\ c.key[1] \in Nat /\ c.key[2] \in Nat
  BY DEF Scored
<1>2. a.score = b.score /\ a.key[1] = b.key[1] /\ a.key[2] = b.key[2] => a = b
  BY DEF Scored
<1>3. ~Better(a, a)
  BY <1>1 DEF Better, LexBefore
<1>4. Better(a, b) /\ Better(b, c) => Better(a, c)
  BY <1>1 DEF Better, LexBefore
<1>5. a = b \/ Better(a, b) \/ Better(b, a)
  BY <1>1, <1>2 DEF Better, LexBefore
<1> QED
  BY <1>3, <1>4, <1>5

(* Of any candidates one is the weakest: the least score, then the last place.         *)
LEMMA WeakestIs ==
  ASSUME NEW n \in Nat, NEW S \in SUBSET Scored(n), S # {}
  PROVE  \E w \in S : \A k \in S : k = w \/ Better(k, w)
<1> DEFINE scores == {k.score : k \in S}
<1>1. PICK low \in scores : \A x \in scores : low <= x
  <2>1. scores \in SUBSET Nat /\ scores # {}
    BY DEF Scored
  <2> HIDE DEF scores
  <2> QED
    BY <2>1, Least
<1> DEFINE lowest == {k \in S : k.score = low}
           firsts == {k.key[1] : k \in lowest}
<1>2. lowest # {} /\ low \in Nat
  BY <1>1 DEF Scored
<1>3. PICK first \in firsts : \A x \in firsts : x <= first
  <2>1. firsts \in SUBSET (0..n) /\ firsts # {}
    BY <1>2 DEF Scored
  <2> HIDE DEF firsts
  <2> QED
    BY <2>1, LastOf
<1> DEFINE farthest == {k \in lowest : k.key[1] = first}
           seconds == {k.key[2] : k \in farthest}
<1>4. farthest # {} /\ first \in 0..n
  BY <1>3 DEF Scored
<1>5. PICK highest \in seconds : \A x \in seconds : x <= highest
  <2>1. seconds \in SUBSET (0..n) /\ seconds # {}
    BY <1>4 DEF Scored
  <2> HIDE DEF seconds
  <2> QED
    BY <2>1, LastOf
<1>6. PICK w \in farthest : w.key[2] = highest
  BY <1>5
<1>7. w \in S /\ w.score = low /\ w.key[1] = first /\ w.key[2] = highest /\ w \in Scored(n)
  BY <1>6
<1>8. ASSUME NEW k \in S PROVE k = w \/ Better(k, w)
  <2>1. /\ k \in Scored(n) /\ k.score \in Nat /\ k.key[1] \in Nat /\ k.key[2] \in Nat
        /\ low \in Nat /\ first \in Nat /\ w.key[2] \in Nat
    BY <1>2, <1>4, <1>7 DEF Scored
  <2>2. low <= k.score
    BY <1>1
  <2>3. k.score = low => k.key[1] <= first
    BY <1>3
  <2>4. k.score = low /\ k.key[1] = first => k.key[2] <= highest
    BY <1>5
  <2>5. k.score = low /\ k.key[1] = first /\ k.key[2] = highest => k = w
    BY <1>7, <2>1 DEF Scored
  <2> HIDE DEF scores, lowest, firsts, farthest, seconds
  <2> QED
    BY <1>7, <2>1, <2>2, <2>3, <2>4, <2>5 DEF Better, LexBefore
<1> QED
  BY <1>7, <1>8

(* One more candidate is offered: what is kept is the best of what has been offered.      *)
LEMMA Offering ==
  ASSUME NEW n \in Nat, NEW offered \in SUBSET Scored(n), NEW c \in Scored(n), c \notin offered,
         NEW kept, OnlyBest(kept, offered)
  PROVE  OnlyBest(Offer(kept, c), offered \union {c})
<1>1. /\ kept \subseteq offered /\ IsFiniteSet(kept) /\ Cardinality(kept) \in Nat
      /\ Cardinality(kept) <= Limit /\ Limit \in Nat \ {0} /\ c \notin kept
      /\ kept \subseteq Scored(n)
  BY FS_CardinalityType, RankingAssumption DEF OnlyBest
<1>2. IsFiniteSet(kept \union {c}) /\ Cardinality(kept \union {c}) = Cardinality(kept) + 1
  BY <1>1, FS_AddElement
<1>3. CASE Cardinality(kept) < Limit
  <2>1. Offer(kept, c) = kept \union {c}
    BY <1>3 DEF Offer
  <2>2. kept = offered
    BY <1>1, <1>3 DEF OnlyBest
  <2>3. Cardinality(kept \union {c}) <= Limit
    BY <1>1, <1>2, <1>3
  <2> QED
    BY <1>2, <2>1, <2>2, <2>3 DEF OnlyBest
<1>4. CASE ~(Cardinality(kept) < Limit)
  <2>1. Cardinality(kept) = Limit
    BY <1>1, <1>4
  <2>2. kept # {}
    BY <1>1, <2>1, FS_EmptySet
  <2> DEFINE weakest == CHOOSE w \in kept : \A k \in kept : k = w \/ Better(k, w)
  <2>3. weakest \in kept /\ \A k \in kept : k = weakest \/ Better(k, weakest)
    BY <1>1, <2>2, WeakestIs
  <2>4. Offer(kept, c) = IF Better(c, weakest) THEN (kept \ {weakest}) \union {c} ELSE kept
    BY <1>4 DEF Offer
  <2> HIDE DEF weakest
  <2>5. \A d \in offered \ kept : \A k \in kept : Better(k, d)
    BY DEF OnlyBest
  <2>6. weakest \in Scored(n)
    BY <1>1, <2>3
  <2>7. CASE Better(c, weakest)
    <3> DEFINE after == (kept \ {weakest}) \union {c}
    <3>1. /\ IsFiniteSet(kept \ {weakest}) /\ c \notin kept \ {weakest}
          /\ Cardinality(kept \ {weakest}) = Cardinality(kept) - 1
      BY <1>1, <2>3, FS_RemoveElement
    <3>2. IsFiniteSet(after) /\ Cardinality(after) = Limit
      <4>1. IsFiniteSet(after) /\ Cardinality(after) = Cardinality(kept \ {weakest}) + 1
        BY <3>1, FS_AddElement
      <4> QED
        BY <1>1, <2>1, <3>1, <4>1
    <3>3. after \subseteq offered \union {c}
      BY <1>1
    <3>4. ASSUME NEW d \in (offered \union {c}) \ after, NEW k \in after PROVE Better(k, d)
      <4>1. CASE d = weakest
        BY <2>3, <2>7, <4>1
      <4>2. CASE d \in offered \ kept /\ k \in kept
        BY <2>5, <4>2
      <4>3. CASE d \in offered \ kept /\ k = c
        <5>1. Better(weakest, d) /\ d \in Scored(n)
          BY <2>3, <2>5, <4>3
        <5> QED
          BY <2>6, <2>7, <4>3, <5>1, BetterIsAnOrder
      <4> QED
        BY <4>1, <4>2, <4>3
    <3> QED
      BY <2>4, <2>7, <3>2, <3>3, <3>4, <1>1 DEF OnlyBest
  <2>8. CASE ~Better(c, weakest)
    <3>1. ASSUME NEW k \in kept PROVE Better(k, c)
      <4>1. k \in Scored(n) /\ c # weakest
        BY <1>1, <2>3
      <4>2. Better(weakest, c)
        BY <2>6, <2>8, <4>1, BetterIsAnOrder
      <4>3. k = weakest \/ Better(k, weakest)
        BY <2>3
      <4> QED
        BY <2>6, <4>1, <4>2, <4>3, BetterIsAnOrder
    <3> QED
      BY <1>1, <2>1, <2>4, <2>5, <2>8, <3>1 DEF OnlyBest
  <2> QED
    BY <2>7, <2>8
<1> QED
  BY <1>3, <1>4

LEMMA CandidatesAreScored ==
  ASSUME corpus \in [1..Places -> [file : RankedFile, dense : 0..TopScore]]
  PROVE  /\ TopKey \in Nat
         /\ \A f \in RankedFile : BestOfFile(f) \subseteq Scored(TopKey)
         /\ \A f \in RankedFile : \A c \in BestOfFile(f) : c.key[1] = f
<1>1. /\ Places \in Nat /\ Files \in Nat /\ TopScore \in Nat /\ TopKey \in Nat
      /\ \A i \in 1..Places : i \in 0..TopKey
      /\ \A f \in RankedFile : f \in 0..TopKey
  <2>1. Places \in Nat /\ Files \in Nat /\ TopScore \in Nat
    BY RankingAssumption
  <2> QED
    BY <2>1 DEF TopKey, RankedFile
<1>2. \A i \in 1..Places : corpus[i].dense \in Nat
  BY <1>1
<1>3. ASSUME NEW f \in RankedFile, NEW c \in BestOfFile(f)
      PROVE  c \in Scored(TopKey) /\ c.key[1] = f
  <2>1. PICK i \in 1..Places : c = [score |-> corpus[i].dense, key |-> <<f, i>>]
    BY DEF BestOfFile
  <2>2. corpus[i].dense \in Nat /\ i \in 0..TopKey /\ f \in 0..TopKey
    BY <1>1, <1>2
  <2> QED
    BY <2>1, <2>2 DEF Scored
<1> QED
  BY <1>1, <1>3

(* The best row of a file is its only candidate.                                    *)
LEMMA TopStandsForItsFile ==
  ASSUME corpus \in [1..Places -> [file : RankedFile, dense : 0..TopScore]],
         NEW f \in RankedFile, NEW b, TopOf(f, b, Places)
  PROVE  BestOfFile(f) = IF corpus[b].dense < Floor THEN {}
                         ELSE {[score |-> corpus[b].dense, key |-> <<f, b>>]}
<1>1. /\ Places \in Nat /\ Floor \in Nat /\ b \in 1..Places /\ corpus[b].file = f
      /\ \A i \in 1..Places : corpus[i].dense \in Nat
  BY RankingAssumption DEF TopOf
<1> DEFINE tops == {j \in 1..Places : /\ corpus[j].file = f /\ corpus[j].dense >= Floor
                                   /\ \A k \in 1..Places : corpus[k].file = f =>
                                        \/ corpus[k].dense < corpus[j].dense
                                        \/ corpus[k].dense = corpus[j].dense /\ j <= k}
<1>2. ASSUME NEW j \in tops PROVE j = b
  <2>1. /\ corpus[j].dense < corpus[b].dense \/ (corpus[j].dense = corpus[b].dense /\ b <= j)
        /\ corpus[b].dense < corpus[j].dense \/ (corpus[b].dense = corpus[j].dense /\ j <= b)
    BY <1>1 DEF TopOf
  <2>2. corpus[j].dense \in Nat /\ corpus[b].dense \in Nat /\ j \in Nat /\ b \in Nat
    BY <1>1
  <2> QED
    BY <2>1, <2>2
<1>3. ASSUME NEW j \in tops PROVE ~(corpus[b].dense < Floor)
  BY <1>1, <1>2
<1>4. ~(corpus[b].dense < Floor) => b \in tops
  BY <1>1 DEF TopOf
<1>5. tops = IF corpus[b].dense < Floor THEN {} ELSE {b}
  <2> HIDE DEF tops
  <2> QED
    BY <1>2, <1>3, <1>4
<1>6. BestOfFile(f) = {[score |-> corpus[i].dense, key |-> <<f, i>>] : i \in tops}
  BY DEF BestOfFile
<1> HIDE DEF tops
<1> QED
  BY <1>5, <1>6

LEMMA RankFirst == RankInit => RankOnTrack
  BY RankingAssumption
     DEF RankInit, RankOnTrack, NeighborsOnTrack, PairsOnTrack, HeapIsBest

LEMMA NeighborsAsked ==
  ASSUME RankOnTrack, AskNeighbors PROVE RankOnTrack'
<1>1. /\ job = "none" /\ job' = "neighbors" /\ UNCHANGED <<likeness, scanned, best, heap, answer>>
      /\ best = [f \in RankedFile |-> 0] /\ heap = {} /\ scanned = 0
  BY DEF AskNeighbors, RankOnTrack, NeighborsOnTrack
<1>2. PICK scores \in [1..Places -> RankedFile \X (0..TopScore)] :
        corpus' = [i \in 1..Places |-> [file |-> scores[i][1], dense |-> scores[i][2]]]
  BY DEF AskNeighbors
<1>3. corpus' \in [1..Places -> [file : RankedFile, dense : 0..TopScore]]
  BY <1>2
<1>4. best' \in [RankedFile -> 0..Places] /\ scanned' \in 0..Places
  BY <1>1, RankingAssumption
<1> QED
  BY <1>1, <1>3, <1>4 DEF RankOnTrack, NeighborsOnTrack, PairsOnTrack, HeapIsBest

LEMMA RowScanned ==
  ASSUME RankOnTrack, ScanRow PROVE RankOnTrack'
<1>1. /\ job = "neighbors" /\ heap = {} /\ scanned \in 0..Places /\ Places \in Nat
      /\ corpus \in [1..Places -> [file : RankedFile, dense : 0..TopScore]]
      /\ best \in [RankedFile -> 0..Places]
      /\ \A f \in RankedFile : IF best[f] = 0 THEN \A i \in 1..scanned : corpus[i].file # f
                               ELSE TopOf(f, best[f], scanned)
      /\ UNCHANGED <<corpus, likeness, heap, answer>>
  BY RankingAssumption DEF ScanRow, RankOnTrack, NeighborsOnTrack
<1>2. CASE scanned = Places
  <2>1. job' = "drain" /\ UNCHANGED best
    BY <1>1, <1>2 DEF ScanRow
  <2>2. \A f \in RankedFile : best[f] = 0 => BestOfFile(f) = {}
    BY <1>1, <1>2 DEF BestOfFile
  <2>3. OfDrained = {}
    BY <2>2 DEF OfDrained
  <2>4. OnlyBest(heap, OfDrained)
    BY <1>1, <2>3, FS_EmptySet, RankingAssumption DEF OnlyBest
  <2>5. OnlyBest(heap, OfDrained)'
    BY <1>1, <2>1, <2>4 DEF OnlyBest, OfDrained, BestOfFile
  <2>6. \A f \in RankedFile : best'[f] # 0 => TopOf(f, best[f], Places)'
    BY <1>1, <1>2, <2>1 DEF TopOf
  <2> QED
    BY <1>1, <2>1, <2>5, <2>6 DEF RankOnTrack, NeighborsOnTrack, PairsOnTrack, HeapIsBest
<1>3. CASE scanned # Places
  <2> DEFINE next == scanned + 1
             g == corpus[next].file
             held == best[g]
  <2>1. /\ job' = job /\ scanned' = next
        /\ best' = IF held = 0 \/ corpus[next].dense > corpus[held].dense
                     THEN [best EXCEPT ![g] = next] ELSE best
    BY <1>1, <1>3 DEF ScanRow
  <2>2. /\ next \in 1..Places /\ g \in RankedFile /\ held \in 0..Places /\ scanned' \in 0..Places
        /\ 1..next = (1..scanned) \union {next} /\ scanned \in Nat /\ next \in Nat /\ scanned < next
        /\ \A i \in 1..Places : corpus[i].dense \in Nat
    <3>1. next \in 1..Places /\ scanned' \in 0..Places
      BY <1>1, <1>3, <2>1
    <3>2. g \in RankedFile
      BY <1>1, <3>1
    <3>3. held \in 0..Places
      BY <1>1, <3>2
    <3>4. \A i \in 1..Places : corpus[i].dense \in Nat
      BY <1>1, RankingAssumption
    <3>5. 1..next = (1..scanned) \union {next} /\ scanned \in Nat /\ next \in Nat /\ scanned < next
      BY <1>1
    <3> QED
      BY <3>1, <3>2, <3>3, <3>4, <3>5
  <2>3. best' \in [RankedFile -> 0..Places]
    BY <1>1, <2>1, <2>2
  <2>4. ASSUME NEW f \in RankedFile
        PROVE  IF best'[f] = 0 THEN \A i \in 1..next : corpus[i].file # f
               ELSE TopOf(f, best'[f], next)
    <3> HIDE DEF next, g, held
    <3>1. CASE f # g
      <4>1. best'[f] = best[f] /\ corpus[next].file # f
        BY <1>1, <2>1, <2>2, <3>1 DEF g
      <4>2. CASE best[f] = 0
        BY <1>1, <2>2, <4>1, <4>2
      <4>3. CASE best[f] # 0
        <5>1. TopOf(f, best[f], scanned)
          BY <1>1, <4>3
        <5>2. TopOf(f, best[f], next)
          BY <2>2, <4>1, <5>1 DEF TopOf
        <5> QED
          BY <4>1, <4>3, <5>2
      <4> QED
        BY <4>2, <4>3
    <3>2. CASE f = g /\ held = 0
      <4>1. best'[f] = next /\ \A i \in 1..scanned : corpus[i].file # f
        BY <1>1, <2>1, <2>2, <3>2 DEF held
      <4>2. TopOf(f, next, next)
        BY <2>2, <3>2, <4>1 DEF TopOf, g
      <4> QED
        BY <2>2, <4>1, <4>2
    <3>3. CASE f = g /\ held # 0 /\ corpus[next].dense > corpus[held].dense
      <4>1. best'[f] = next /\ TopOf(f, held, scanned)
        BY <1>1, <2>1, <2>2, <3>3 DEF held
      <4>2. ASSUME NEW k \in 1..next, corpus[k].file = f
            PROVE  \/ corpus[k].dense < corpus[next].dense
                   \/ corpus[k].dense = corpus[next].dense /\ next <= k
        <5>1. CASE k = next
          BY <2>2, <5>1
        <5>2. CASE k \in 1..scanned
          <6>1. \/ corpus[k].dense < corpus[held].dense
                \/ corpus[k].dense = corpus[held].dense
            BY <4>1, <4>2, <5>2 DEF TopOf
          <6>2. k \in 1..Places /\ held \in 1..Places
            BY <1>1, <2>2, <3>3, <5>2
          <6>3. corpus[k].dense \in Nat /\ corpus[held].dense \in Nat /\ corpus[next].dense \in Nat
            BY <2>2, <6>2
          <6> QED
            BY <3>3, <6>1, <6>3
        <5> QED
          BY <2>2, <5>1, <5>2
      <4> QED
        BY <2>2, <3>3, <4>1, <4>2 DEF TopOf, g
    <3>4. CASE f = g /\ held # 0 /\ ~(corpus[next].dense > corpus[held].dense)
      <4>1. best'[f] = held /\ TopOf(f, held, scanned)
        BY <1>1, <2>1, <2>2, <3>4 DEF held
      <4>2. held \in 1..scanned /\ held <= next /\ held \in 1..next
        BY <1>1, <2>2, <4>1 DEF TopOf, next
      <4>3. corpus[next].dense < corpus[held].dense
              \/ (corpus[next].dense = corpus[held].dense /\ held <= next)
        <5>1. held \in 1..Places
          BY <1>1, <2>2, <3>4
        <5>2. corpus[held].dense \in Nat /\ corpus[next].dense \in Nat
          BY <2>2, <5>1, Zenon
        <5> QED
          BY <3>4, <4>2, <5>2
      <4> QED
        BY <2>2, <3>4, <4>1, <4>2, <4>3 DEF TopOf
    <3> QED
      BY <3>1, <3>2, <3>3, <3>4
  <2>5. \A f \in RankedFile : IF best'[f] = 0 THEN \A i \in 1..scanned' : corpus'[i].file # f
                               ELSE TopOf(f, best[f], scanned)'
    BY <1>1, <2>1, <2>4, Zenon DEF TopOf
  <2> QED
    BY <1>1, <2>1, <2>2, <2>3, <2>5 DEF RankOnTrack, NeighborsOnTrack, PairsOnTrack, HeapIsBest
<1> QED
  BY <1>2, <1>3

LEMMA FileDrained ==
  ASSUME RankOnTrack, NEW f \in RankedFile, DrainFile(f) PROVE RankOnTrack'
<1> DEFINE b == best[f]
<1>1. /\ job = "drain" /\ job' = job /\ b # 0 /\ best' = [best EXCEPT ![f] = 0]
      /\ heap' = IF corpus[b].dense < Floor THEN heap ELSE Offer(heap, FileCandidate(f))
      /\ UNCHANGED <<corpus, likeness, scanned, answer>>
      /\ corpus \in [1..Places -> [file : RankedFile, dense : 0..TopScore]]
      /\ best \in [RankedFile -> 0..Places]
      /\ \A g \in RankedFile : best[g] # 0 => TopOf(g, best[g], Places)
      /\ OnlyBest(heap, OfDrained)
  BY DEF DrainFile, RankOnTrack, NeighborsOnTrack
<1>2. FileCandidate(f) = [score |-> corpus[b].dense, key |-> <<f, b>>]
  BY DEF FileCandidate
<1>3. BestOfFile(f) = IF corpus[b].dense < Floor THEN {} ELSE {FileCandidate(f)}
  BY <1>1, <1>2, TopStandsForItsFile
<1>4. \A g \in RankedFile : BestOfFile(g)' = BestOfFile(g)
  BY <1>1 DEF BestOfFile
<1>5. OfDrained' = OfDrained \union BestOfFile(f)
  <2>1. {g \in RankedFile : best'[g] = 0} = {g \in RankedFile : best[g] = 0} \union {f}
    BY <1>1
  <2>2. OfDrained' = UNION {BestOfFile(g) : g \in {h \in RankedFile : best'[h] = 0}}
    BY <1>4 DEF OfDrained
  <2> QED
    BY <2>1, <2>2 DEF OfDrained
<1>6. /\ OfDrained \subseteq Scored(TopKey) /\ TopKey \in Nat
      /\ \A c \in OfDrained : c.key[1] # f
      /\ BestOfFile(f) \subseteq Scored(TopKey) /\ FileCandidate(f).key[1] = f
  BY <1>1, <1>2, CandidatesAreScored DEF OfDrained
<1>7. OnlyBest(heap', OfDrained')
  <2>1. CASE corpus[b].dense < Floor
    BY <1>1, <1>3, <1>5, <2>1
  <2>2. CASE ~(corpus[b].dense < Floor)
    <3>1. FileCandidate(f) \in Scored(TopKey) /\ FileCandidate(f) \notin OfDrained
      BY <1>3, <1>6, <2>2
    <3>2. OnlyBest(Offer(heap, FileCandidate(f)), OfDrained \union {FileCandidate(f)})
      BY <1>1, <1>6, <3>1, Offering
    <3> QED
      BY <1>1, <1>3, <1>5, <2>2, <3>2
  <2> QED
    BY <2>1, <2>2
<1>8. OnlyBest(heap, OfDrained)'
  BY <1>7 DEF OnlyBest
<1>9. /\ best' \in [RankedFile -> 0..Places]
      /\ \A g \in RankedFile : best'[g] # 0 => TopOf(g, best[g], Places)'
  BY <1>1, RankingAssumption DEF TopOf
<1> QED
  BY <1>1, <1>8, <1>9 DEF RankOnTrack, NeighborsOnTrack, PairsOnTrack, HeapIsBest

LEMMA AllDrained ==
  ASSUME RankOnTrack, Drained PROVE RankOnTrack'
<1>1. /\ job = "drain" /\ job' = "ranked" /\ UNCHANGED <<corpus, likeness, scanned, best, heap, answer>>
      /\ \A f \in RankedFile : best[f] = 0
      /\ corpus \in [1..Places -> [file : RankedFile, dense : 0..TopScore]]
      /\ best \in [RankedFile -> 0..Places] /\ OnlyBest(heap, OfDrained)
  BY DEF Drained, RankOnTrack, NeighborsOnTrack
<1>2. OfDrained = UNION {BestOfFile(f) : f \in RankedFile}
  BY <1>1 DEF OfDrained
<1>3. KeepsBestOf(UNION {BestOfFile(f) : f \in RankedFile})
  BY <1>1, <1>2 DEF OnlyBest, KeepsBestOf
<1>4. (\A f \in RankedFile : BestOfFile(f)' = BestOfFile(f))
  BY <1>1 DEF BestOfFile
<1>5. KeepsBestOf(UNION {BestOfFile(f) : f \in RankedFile})'
  BY <1>1, <1>3, <1>4 DEF KeepsBestOf
<1> QED
  BY <1>1, <1>5 DEF RankOnTrack, NeighborsOnTrack, PairsOnTrack, HeapIsBest

LEMMA DuplicatesAsked ==
  ASSUME RankOnTrack, AskDuplicates PROVE RankOnTrack'
<1>1. /\ job = "none" /\ heap = {} /\ job' = "duplicates" /\ heap' = heap
      /\ likeness' \in [Pairs -> 0..TopScore] /\ scanned' = <<1, 2>> /\ Places \in Nat
  BY RankingAssumption DEF AskDuplicates, RankOnTrack, NeighborsOnTrack
<1>2. \A p \in Pairs : ~LexBefore(p, <<1, 2>>)
  BY <1>1 DEF Pairs, LexBefore
<1>3. OfPairsBefore(scanned)' = {}
  BY <1>1, <1>2 DEF OfPairsBefore
<1>4. OnlyBest(heap, OfPairsBefore(scanned))'
  BY <1>1, <1>3, FS_EmptySet, RankingAssumption DEF OnlyBest
<1>5. /\ scanned' \in (Nat \ {0}) \X Nat /\ scanned'[1] < scanned'[2]
      /\ scanned'[1] < Places => scanned'[2] <= Places
  BY <1>1
<1> QED
  BY <1>1, <1>4, <1>5 DEF RankOnTrack, NeighborsOnTrack, PairsOnTrack, HeapIsBest

(* The loops pass every pair once, in the order of the table.                            *)
LEMMA PairsGoOn ==
  ASSUME NEW q \in (Nat \ {0}) \X Nat, q[1] < q[2], q[1] < Places, q[2] <= Places
  PROVE  /\ q \in Pairs
         /\ NextPair(q) \in (Nat \ {0}) \X Nat
         /\ NextPair(q)[1] < NextPair(q)[2]
         /\ NextPair(q)[1] < Places => NextPair(q)[2] <= Places
         /\ \A p \in Pairs : LexBefore(p, NextPair(q)) <=> LexBefore(p, q) \/ p = q
<1>1. Places \in Nat /\ q[1] \in Nat \ {0} /\ q[2] \in Nat /\ q = <<q[1], q[2]>>
  BY RankingAssumption
<1>2. q \in Pairs
  <2>1. q[1] \in 1..Places /\ q[2] \in 1..Places
    BY <1>1
  <2> QED
    BY <1>1, <2>1 DEF Pairs
<1>3. ASSUME NEW p \in Pairs
      PROVE  /\ p[1] \in Nat /\ p[2] \in Nat /\ p[1] < p[2] /\ p[2] <= Places
             /\ p = q <=> p[1] = q[1] /\ p[2] = q[2]
  <2>1. p \in (1..Places) \X (1..Places) /\ p[1] < p[2]
    BY DEF Pairs
  <2>2. p = <<p[1], p[2]>> /\ p[1] \in 1..Places /\ p[2] \in 1..Places
    BY <2>1
  <2> QED
    BY <1>1, <2>1, <2>2
<1>4. CASE q[2] < Places
  <2>1. NextPair(q) = <<q[1], q[2] + 1>>
    BY <1>4 DEF NextPair
  <2>2. \A p \in Pairs : LexBefore(p, NextPair(q)) <=> LexBefore(p, q) \/ p = q
    BY <1>1, <1>3, <2>1 DEF LexBefore
  <2> QED
    BY <1>1, <1>2, <1>4, <2>1, <2>2
<1>5. CASE ~(q[2] < Places)
  <2>1. NextPair(q) = <<q[1] + 1, q[1] + 2>>
    BY <1>5 DEF NextPair
  <2>2. \A p \in Pairs : LexBefore(p, NextPair(q)) <=> LexBefore(p, q) \/ p = q
    BY <1>1, <1>3, <1>5, <2>1 DEF LexBefore
  <2> QED
    BY <1>1, <1>2, <1>5, <2>1, <2>2
<1> QED
  BY <1>4, <1>5

LEMMA PairScanned ==
  ASSUME RankOnTrack, ScanPair PROVE RankOnTrack'
<1>1. /\ job = "duplicates" /\ likeness \in [Pairs -> 0..TopScore]
      /\ scanned \in (Nat \ {0}) \X Nat /\ scanned[1] < scanned[2]
      /\ scanned[1] < Places => scanned[2] <= Places
      /\ OnlyBest(heap, OfPairsBefore(scanned)) /\ Places \in Nat
      /\ UNCHANGED <<corpus, likeness, best, answer>>
  BY RankingAssumption DEF ScanPair, RankOnTrack, PairsOnTrack
<1>2. \A p \in Pairs : PairCandidate(p) \in Scored(TopKey) /\ PairCandidate(p).key = p
  <2>1. Places \in Nat /\ Files \in Nat /\ TopScore \in Nat /\ (1..Places) \subseteq 0..TopKey
    BY RankingAssumption DEF TopKey
  <2>2. \A p \in Pairs : p \in (0..TopKey) \X (0..TopKey) /\ likeness[p] \in Nat
    BY <1>1, <2>1 DEF Pairs
  <2> QED
    BY <2>2 DEF PairCandidate, Scored
<1>3. CASE scanned[1] >= Places
  <2>1. job' = "paired" /\ UNCHANGED <<scanned, heap>>
    BY <1>1, <1>3 DEF ScanPair
  <2>2. \A p \in Pairs : LexBefore(p, scanned)
    <3>1. \A p \in Pairs : p[1] \in Nat /\ p[1] < Places
      BY <1>1 DEF Pairs
    <3> QED
      BY <1>1, <1>3, <3>1 DEF LexBefore
  <2>3. OfPairsBefore(scanned) = {PairCandidate(p) : p \in {q \in Pairs : Qualifies(q)}}
    BY <2>2 DEF OfPairsBefore
  <2>4. KeepsBestOf({PairCandidate(p) : p \in {q \in Pairs : Qualifies(q)}})
    BY <1>1, <2>3 DEF OnlyBest, KeepsBestOf
  <2>5. KeepsBestOf({PairCandidate(p) : p \in {q \in Pairs : Qualifies(q)}})'
    BY <1>1, <2>1, <2>4 DEF KeepsBestOf, PairCandidate, Qualifies
  <2> QED
    BY <2>1, <2>5 DEF RankOnTrack, NeighborsOnTrack, PairsOnTrack, HeapIsBest
<1>4. CASE ~(scanned[1] >= Places)
  <2>1. /\ job' = job /\ scanned' = NextPair(scanned)
        /\ heap' = IF Qualifies(scanned) THEN Offer(heap, PairCandidate(scanned)) ELSE heap
    BY <1>1, <1>4 DEF ScanPair
  <2>2. scanned[1] < Places /\ scanned[2] <= Places
    BY <1>1, <1>4
  <2>3. /\ scanned \in Pairs
        /\ scanned' \in (Nat \ {0}) \X Nat /\ scanned'[1] < scanned'[2]
        /\ scanned'[1] < Places => scanned'[2] <= Places
        /\ \A p \in Pairs : LexBefore(p, scanned') <=> LexBefore(p, scanned) \/ p = scanned
    BY <1>1, <2>1, <2>2, PairsGoOn
  <2>4. OfPairsBefore(scanned') = OfPairsBefore(scanned) \union
                                   (IF Qualifies(scanned) THEN {PairCandidate(scanned)} ELSE {})
    BY <2>3 DEF OfPairsBefore
  <2>5. OfPairsBefore(scanned) \subseteq Scored(TopKey) /\ PairCandidate(scanned) \in Scored(TopKey)
        /\ TopKey \in Nat
    BY <1>2, <2>3, RankingAssumption DEF OfPairsBefore, TopKey
  <2>6. PairCandidate(scanned) \notin OfPairsBefore(scanned)
    <3>1. ~LexBefore(scanned, scanned)
      BY <1>1 DEF LexBefore
    <3> QED
      BY <1>2, <2>3, <3>1 DEF OfPairsBefore
  <2>7. OnlyBest(heap', OfPairsBefore(scanned'))
    <3>1. CASE Qualifies(scanned)
      <4>1. OnlyBest(Offer(heap, PairCandidate(scanned)), OfPairsBefore(scanned) \union {PairCandidate(scanned)})
        BY <1>1, <2>5, <2>6, Offering
      <4> QED
        BY <2>1, <2>4, <3>1, <4>1
    <3>2. CASE ~Qualifies(scanned)
      BY <1>1, <2>1, <2>4, <3>2
    <3> QED
      BY <3>1, <3>2
  <2>8. OnlyBest(heap, OfPairsBefore(scanned))'
    BY <1>1, <2>7 DEF OnlyBest, OfPairsBefore, PairCandidate, Qualifies
  <2> QED
    BY <1>1, <2>1, <2>3, <2>8 DEF RankOnTrack, NeighborsOnTrack, PairsOnTrack, HeapIsBest
<1> QED
  BY <1>3, <1>4

(* For tables of any size, any scores, floor and limit, and any order in which the map gives *)
(* its files.                                                                  *)
LEMMA RankStays == RankSpec => []RankOnTrack
<1>1. RankInit => RankOnTrack
  BY RankFirst
<1>2. RankOnTrack /\ [RankNext]_rankVars => RankOnTrack'
  <2> SUFFICES ASSUME RankOnTrack, [RankNext]_rankVars PROVE RankOnTrack'
    OBVIOUS
  <2>1. CASE AskSearch \/ AnswerSearch
    BY <2>1 DEF AskSearch, AnswerSearch, RankOnTrack, NeighborsOnTrack, PairsOnTrack, HeapIsBest
  <2>2. CASE UNCHANGED rankVars
    <3>1. UNCHANGED <<job, corpus, likeness, scanned, best, heap>>
      BY <2>2 DEF rankVars
    <3>2. NeighborsOnTrack'
      BY <3>1 DEF RankOnTrack, NeighborsOnTrack, OnlyBest, OfDrained, BestOfFile, TopOf
    <3>3. PairsOnTrack'
      BY <3>1 DEF RankOnTrack, PairsOnTrack, OnlyBest, OfPairsBefore, PairCandidate, Qualifies
    <3>4. HeapIsBest'
      BY <3>1 DEF RankOnTrack, HeapIsBest, KeepsBestOf, BestOfFile, PairCandidate, Qualifies
    <3> QED
      BY <3>2, <3>3, <3>4 DEF RankOnTrack
  <2> QED
    BY <2>1, <2>2, NeighborsAsked, RowScanned, FileDrained, AllDrained, DuplicatesAsked, PairScanned
       DEF RankNext
<1> QED
  BY <1>1, <1>2, PTL DEF RankSpec

LEMMA BestAreKept == RankSpec => []HeapIsBest
<1>1. RankOnTrack => HeapIsBest
  BY DEF RankOnTrack
<1> QED
  BY <1>1, RankStays, PTL

(* In a finite set that is ordered each has a rank of its own, by how many come before,     *)
(* and every rank up to their number is taken.                                      *)
AreRanks(rank, S, before) ==
  /\ IsFiniteSet(S)
  /\ before \in [S -> SUBSET S]
  /\ \A i \in S : i \notin before[i]
  /\ \A i, j \in S : i = j \/ i \in before[j] \/ j \in before[i]
  /\ \A i, j, k \in S : i \in before[j] /\ j \in before[k] => i \in before[k]
  /\ rank \in [S -> Nat]
  /\ \A i \in S : rank[i] = 1 + Cardinality(before[i])

(* Each member has a rank of its own, and there is none that nobody has.                 *)
EachHasItsOwn(rank, S) ==
  /\ \A i, j \in S : rank[i] = rank[j] => i = j
  /\ \A i \in S : rank[i] \in 1..Cardinality(S)
  /\ \A n \in 1..Cardinality(S) : \E i \in S : rank[i] = n

LEMMA RanksAreTaken ==
  ASSUME NEW S, NEW before, NEW rank, AreRanks(rank, S, before)
  PROVE  /\ \A i, j \in S : i \in before[j] <=> rank[i] < rank[j]
         /\ EachHasItsOwn(rank, S)
<1> USE DEF AreRanks
<1>1. /\ \A i \in S : IsFiniteSet(before[i]) /\ Cardinality(before[i]) \in Nat
      /\ Cardinality(S) \in Nat
  BY FS_Subset, FS_CardinalityType
<1>2. ASSUME NEW i \in S PROVE rank[i] \in 1..Cardinality(S)
  <2>1. before[i] \in SUBSET S /\ before[i] # S
    OBVIOUS
  <2>2. Cardinality(before[i]) <= Cardinality(S) /\ Cardinality(before[i]) # Cardinality(S)
    BY <2>1, FS_Subset
  <2>3. rank[i] = 1 + Cardinality(before[i]) /\ Cardinality(before[i]) \in Nat
    BY <1>1
  <2> QED
    BY <1>1, <2>2, <2>3
<1>3. ASSUME NEW i \in S, NEW j \in S, i \in before[j] PROVE rank[i] < rank[j]
  <2>1. before[i] \in SUBSET before[j] /\ i \in before[j] /\ i \notin before[i]
    BY <1>3
  <2>2. Cardinality(before[i]) <= Cardinality(before[j]) /\ Cardinality(before[i]) # Cardinality(before[j])
    BY <1>1, <2>1, FS_Subset
  <2>3. rank[i] = 1 + Cardinality(before[i]) /\ rank[j] = 1 + Cardinality(before[j])
    OBVIOUS
  <2>4. IsFiniteSet(before[i]) /\ Cardinality(before[i]) \in Nat /\ Cardinality(before[j]) \in Nat
    BY <1>1
  <2>5. \A a, b \in Nat : a <= b /\ a # b => 1 + a < 1 + b
    OBVIOUS
  <2> QED
    BY <2>2, <2>3, <2>4, <2>5
<1>4. \A i, j \in S : i \in before[j] <=> rank[i] < rank[j]
  <2> SUFFICES ASSUME NEW i \in S, NEW j \in S, rank[i] < rank[j] PROVE i \in before[j]
    BY <1>3
  <2>1. rank[i] \in Nat /\ rank[j] \in Nat
    OBVIOUS
  <2>2. i # j /\ ~(j \in before[i])
    BY <1>3, <2>1
  <2> QED
    BY <2>2
<1>5. \A i, j \in S : rank[i] = rank[j] => i = j
  <2> SUFFICES ASSUME NEW i \in S, NEW j \in S, rank[i] = rank[j], i # j PROVE FALSE
    OBVIOUS
  <2>1. rank[i] < rank[j] \/ rank[j] < rank[i]
    BY <1>3
  <2>2. rank[i] \in Nat
    OBVIOUS
  <2> QED
    BY <2>1, <2>2
<1>6. \A n \in 1..Cardinality(S) : \E i \in S : rank[i] = n
  <2> DEFINE T == 1..Cardinality(S)
  <2>1. IsFiniteSet(T) /\ Cardinality(T) = Cardinality(S)
    BY <1>1, FS_Interval
  <2>2. rank \in Injection(S, T)
    BY <1>2, <1>5 DEF Injection, IsInjective
  <2>3. rank \in Surjection(S, T)
    BY <2>1, <2>2, FS_Injection
  <2> QED
    BY <2>3 DEF Surjection
<1> QED
  BY <1>2, <1>4, <1>5, <1>6 DEF EachHasItsOwn

(* Some of the places of a list, counted from its front.                              *)
Nth(F) == [n \in 1..Cardinality(F) |-> CHOOSE k \in F : Cardinality(F \cap (1..k)) = n]
IsInOrder(at, F) ==
  /\ at \in [1..Cardinality(F) -> F]
  /\ \A m, n \in 1..Cardinality(F) : m < n => at[m] < at[n]
  /\ \A k \in F : \E n \in 1..Cardinality(F) : at[n] = k

LEMMA CountedOff ==
  ASSUME NEW N \in Nat, NEW F \in SUBSET (1..N)
  PROVE  Cardinality(F) \in Nat /\ IsInOrder(Nth(F), F)
<1> DEFINE before == [k \in F |-> {j \in F : j < k}]
           rank == [k \in F |-> Cardinality(F \cap (1..k))]
           at == Nth(F)
<1>1. IsFiniteSet(F) /\ Cardinality(F) \in Nat /\ F \subseteq Nat
  <2>1. IsFiniteSet(1..N)
    BY FS_Interval
  <2>2. IsFiniteSet(F)
    BY <2>1, FS_Subset
  <2> QED
    BY <2>2, FS_CardinalityType
<1>2. ASSUME NEW k \in F
      PROVE  rank[k] \in Nat /\ rank[k] = 1 + Cardinality(before[k])
  <2> DEFINE B == before[k]
  <2>1. F \cap (1..k) = B \cup {k} /\ k \notin B
    <3>1. \A j \in F : j \in Nat /\ j >= 1 /\ (j \in 1..k <=> j < k \/ j = k)
      BY <1>1
    <3>2. ~(k < k)
      BY <3>1
    <3> QED
      BY <3>1, <3>2
  <2>2. IsFiniteSet(B) /\ Cardinality(B) \in Nat
    BY <1>1, FS_Subset, FS_CardinalityType
  <2>3. Cardinality(B \cup {k}) = Cardinality(B) + 1
    BY <2>1, <2>2, FS_AddElement
  <2> HIDE DEF B
  <2>4. rank[k] = Cardinality(B) + 1
    BY <2>1, <2>3
  <2>5. rank[k] \in Nat /\ rank[k] = 1 + Cardinality(B)
    BY <2>2, <2>4
  <2> QED
    BY <2>5 DEF B
<1>3. /\ \A i, j \in F : i \in before[j] <=> rank[i] < rank[j]
      /\ \A i, j \in F : rank[i] = rank[j] => i = j
      /\ \A i \in F : rank[i] \in 1..Cardinality(F)
      /\ \A n \in 1..Cardinality(F) : \E i \in F : rank[i] = n
  <2>1. rank \in [F -> Nat] /\ before \in [F -> SUBSET F]
    BY <1>2
  <2>2. /\ \A i \in F : i \notin before[i]
        /\ \A i, j \in F : i = j \/ i \in before[j] \/ j \in before[i]
        /\ \A i, j, k \in F : i \in before[j] /\ j \in before[k] => i \in before[k]
    BY <1>1
  <2>3. \A i \in F : rank[i] = 1 + Cardinality(before[i])
    BY <1>2
  <2>4. AreRanks(rank, F, before)
    <3> HIDE DEF before, rank, at
    <3> QED
      BY <1>1, <2>1, <2>2, <2>3 DEF AreRanks
  <2> HIDE DEF before, rank, at
  <2>5. \A i, j \in F : i \in before[j] <=> rank[i] < rank[j]
    BY <2>4, RanksAreTaken
  <2>6. EachHasItsOwn(rank, F)
    BY <2>4, RanksAreTaken
  <2> QED
    BY <2>5, <2>6 DEF EachHasItsOwn
<1>4. ASSUME NEW n \in 1..Cardinality(F) PROVE at[n] \in F /\ rank[at[n]] = n
  BY <1>3 DEF Nth
<1>5. \A i, j \in F : rank[i] < rank[j] => i < j
  BY <1>3
<1> HIDE DEF at, rank
<1>6. at \in [1..Cardinality(F) -> F]
  BY <1>4 DEF at, Nth
<1>7. \A m, n \in 1..Cardinality(F) : m < n => at[m] < at[n]
  BY <1>4, <1>5
<1>8. ASSUME NEW k \in F PROVE \E n \in 1..Cardinality(F) : at[n] = k
  <2>1. rank[k] \in 1..Cardinality(F)
    BY <1>3
  <2>2. at[rank[k]] \in F /\ rank[at[rank[k]]] = rank[k]
    BY <1>4, <2>1
  <2>3. at[rank[k]] = k
    BY <1>3, <2>2
  <2> QED
    BY <2>1, <2>3
<1> QED
  BY <1>1, <1>6, <1>7, <1>8 DEF at, IsInOrder

(* What a search finds is settled by the rows.                                   *)
LEMMA FoundStands == ASSUME UNCHANGED corpus PROVE Found' = Found
<1>1. ASSUME NEW i PROVE Combined(i)' = Combined(i)
  BY DEF Combined, Points, Position
<1>2. ASSUME NEW i PROVE Score(i)' = Score(i)
  <2>1. Boosted(i)' = Boosted(i)
    BY <1>1 DEF Boosted
  <2> QED
    BY <2>1 DEF Score
<1>3. Scores' = Scores
  BY <1>2 DEF Scores
<1>4. Hits' = Hits
  BY <1>2 DEF Hits, Hit
<1>5. Sorted' = Sorted
  BY <1>3, <1>4 DEF Sorted, Before
<1> QED
  BY <1>5 DEF Found, Cut, FirstOfFiles

(* The rows of a search.                                                          *)
SearchTyped ==
  corpus \in [1..Places -> [file : RankedFile, dense : Nat, bm25 : Nat, named : BOOLEAN]]

(* A score is a number, whatever the rows.                                          *)
LEMMA ScoresAreNumbers ==
  ASSUME SearchTyped
  PROVE  /\ Places \in Nat
         /\ \A i \in 1..Places : corpus[i].file \in Nat /\ Scores[i] \in Int
<1>1. Places \in Nat /\ RankedFile \subseteq Nat
  <2>1. Places \in Nat /\ Files \in Nat
    BY RankingAssumption
  <2> QED
    BY <2>1 DEF RankedFile
<1>2. ASSUME NEW i \in 1..Places, NEW field PROVE Points(i, field) \in Int
  <2> DEFINE ahead == {j \in 1..Places : \/ corpus[j][field] > corpus[i][field]
                                         \/ corpus[j][field] = corpus[i][field] /\ j < i}
  <2>1. Cardinality(ahead) \in Nat
    <3>1. IsFiniteSet(1..Places) /\ ahead \in SUBSET (1..Places)
      BY <1>1, FS_Interval
    <3> HIDE DEF ahead
    <3> QED
      BY <3>1, FS_Subset, FS_CardinalityType
  <2>2. Position(i, field) = 1 + Cardinality(ahead)
    BY DEF Position
  <2> HIDE DEF ahead
  <2>3. Position(i, field) \in Int
    BY <2>1, <2>2
  <2> QED
    BY <1>1, <2>3 DEF Points
<1>3. ASSUME NEW i \in 1..Places PROVE corpus[i].file \in Nat /\ Scores[i] \in Int
  <2>1. corpus[i].file \in Nat /\ corpus[i].dense \in Int /\ corpus[i].bm25 \in Int
    <3>1. corpus[i] \in [file : RankedFile, dense : Nat, bm25 : Nat, named : BOOLEAN]
      BY DEF SearchTyped
    <3>2. corpus[i].file \in RankedFile /\ corpus[i].dense \in Nat /\ corpus[i].bm25 \in Nat
      BY <3>1
    <3>3. \A n \in Nat : n \in Int
      OBVIOUS
    <3> QED
      BY <1>1, <3>2, <3>3
  <2>2. Points(i, "dense") \in Int /\ Points(i, "bm25") \in Int
    BY <1>2
  <2>3. Score(i) \in Int
    <3>1. Combined(i) \in Int
      BY <2>1, <2>2 DEF Combined
    <3>2. Unit \in Nat /\ Boost \in Nat
      BY RankingAssumption
    <3>3. Combined(i) * Boost \in Int /\ 3 * Boost * Unit \in Int
      BY <3>1, <3>2
    <3>4. Boosted(i) \in Int
      <4> DEFINE raised == Combined(i) * Boost
                 least == 3 * Boost * Unit
      <4>1. raised \in Int /\ least \in Int
        BY <3>3
      <4>2. Boosted(i) \in {Combined(i), raised \div 10, least \div 100}
        BY DEF Boosted
      <4> HIDE DEF raised, least
      <4>3. raised \div 10 \in Int /\ least \div 100 \in Int
        BY <4>1
      <4> QED
        BY <3>1, <4>2, <4>3
    <3> QED
      BY <3>2, <3>4 DEF Score
  <2> QED
    BY <2>1, <2>3 DEF Scores
<1> QED
  BY <1>1, <1>3

(* No two rows tie: the place decides.                                               *)
LEMMA BeforeIsAnOrder ==
  ASSUME SearchTyped, NEW i \in 1..Places, NEW j \in 1..Places, NEW k \in 1..Places
  PROVE  /\ ~Before(Scores, i, i)
         /\ i = j \/ Before(Scores, i, j) \/ Before(Scores, j, i)
         /\ Before(Scores, i, j) /\ Before(Scores, j, k) => Before(Scores, i, k)
<1>1. /\ Scores[i] \in Int /\ Scores[j] \in Int /\ Scores[k] \in Int
      /\ corpus[i].file \in Nat /\ corpus[j].file \in Nat /\ corpus[k].file \in Nat
      /\ i \in Nat /\ j \in Nat /\ k \in Nat
  BY ScoresAreNumbers
<1>2. ~Before(Scores, i, i)
  BY <1>1 DEF Before, LexBefore
<1>3. i = j \/ Before(Scores, i, j) \/ Before(Scores, j, i)
  BY <1>1 DEF Before, LexBefore
<1>4. Before(Scores, i, j) /\ Before(Scores, j, k) => Before(Scores, i, k)
  BY <1>1 DEF Before, LexBefore
<1> QED
  BY <1>2, <1>3, <1>4

(* Every hit has its place, and comes after those that are before it.                  *)
LEMMA SortedIsSorted ==
  ASSUME SearchTyped
  PROVE  /\ Cardinality(Hits) \in Nat
         /\ Sorted \in [1..Cardinality(Hits) -> Hits]
         /\ \A i \in Hits : \E n \in 1..Cardinality(Hits) : Sorted[n] = i
         /\ \A m, n \in 1..Cardinality(Hits) : Before(Scores, Sorted[m], Sorted[n]) => m < n
<1> DEFINE before == [i \in Hits |-> {j \in Hits : Before(Scores, j, i)}]
           rank == [i \in Hits |-> 1 + Cardinality({j \in Hits : Before(Scores, j, i)})]
<1>1. Hits \subseteq 1..Places
  BY DEF Hits
<1>2. IsFiniteSet(Hits) /\ Cardinality(Hits) \in Nat
  <2>1. IsFiniteSet(1..Places)
    BY ScoresAreNumbers, FS_Interval
  <2>2. IsFiniteSet(Hits)
    BY <1>1, <2>1, FS_Subset
  <2> QED
    BY <2>2, FS_CardinalityType
<1>3. AreRanks(rank, Hits, before)
  <2>1. /\ \A i \in Hits : i \notin before[i]
        /\ \A i, j \in Hits : i = j \/ i \in before[j] \/ j \in before[i]
        /\ \A i, j, k \in Hits : i \in before[j] /\ j \in before[k] => i \in before[k]
    BY <1>1, BeforeIsAnOrder
  <2>2. \A i \in Hits : IsFiniteSet(before[i]) /\ Cardinality(before[i]) \in Nat
    BY <1>2, FS_Subset, FS_CardinalityType
  <2>3. before \in [Hits -> SUBSET Hits]
    OBVIOUS
  <2>4. \A i \in Hits : rank[i] = 1 + Cardinality(before[i])
    OBVIOUS
  <2>5. rank \in [Hits -> Nat]
    BY <2>2
  <2> HIDE DEF before, rank
  <2> QED
    BY <1>2, <2>1, <2>3, <2>4, <2>5 DEF AreRanks
<1>4. Sorted = [n \in 1..Cardinality(Hits) |-> CHOOSE i \in Hits : rank[i] = n]
  BY DEF Sorted
<1>5. /\ EachHasItsOwn(rank, Hits)
      /\ \A i, j \in Hits : i \in before[j] <=> rank[i] < rank[j]
  <2> HIDE DEF before, rank
  <2> QED
    BY <1>3, RanksAreTaken
<1>6. \A i, j \in Hits : Before(Scores, i, j) => rank[i] < rank[j]
  <2> HIDE DEF rank
  <2> QED
    BY <1>5
<1> HIDE DEF rank, before
<1>7. \A n \in 1..Cardinality(Hits) : Sorted[n] \in Hits /\ rank[Sorted[n]] = n
  BY <1>4, <1>5 DEF EachHasItsOwn
<1>8. ASSUME NEW i \in Hits PROVE \E n \in 1..Cardinality(Hits) : Sorted[n] = i
  <2>1. rank[i] \in 1..Cardinality(Hits)
    BY <1>5 DEF EachHasItsOwn
  <2>2. Sorted[rank[i]] \in Hits /\ rank[Sorted[rank[i]]] = rank[i]
    BY <1>7, <2>1
  <2>3. \A a, b \in Hits : rank[a] = rank[b] => a = b
    BY <1>5, Zenon DEF EachHasItsOwn
  <2>4. Sorted[rank[i]] = i
    BY <2>2, <2>3, Zenon
  <2> QED
    BY <2>1, <2>4, Zenon
<1> QED
  BY <1>2, <1>4, <1>6, <1>7, <1>8

(* The answer to a search is the first places of the files in the sorted hits, as far as the   *)
(* limit.                                                                       *)
LEMMA FoundIsCounted ==
  ASSUME SearchTyped
  PROVE  LET N == Cardinality(Hits)
             F == {k \in 1..N : \A m \in 1..(k - 1) : corpus[Sorted[m]].file # corpus[Sorted[k]].file}
             at == Nth(F)
             len == IF Cardinality(F) < Limit THEN Cardinality(F) ELSE Limit
         IN  /\ Cardinality(F) \in Nat /\ len \in Nat
             /\ Len(Found) = len /\ DOMAIN Found = 1..len
             /\ \A n \in 1..len : at[n] \in F /\ Found[n] = Sorted[at[n]]
<1> DEFINE N == Cardinality(Hits)
           F == {k \in 1..N : \A m \in 1..(k - 1) : corpus[Sorted[m]].file # corpus[Sorted[k]].file}
           at == Nth(F)
           len == IF Cardinality(F) < Limit THEN Cardinality(F) ELSE Limit
           first == [n \in 1..Cardinality(F) |-> Sorted[CHOOSE k \in F : Cardinality(F \cap (1..k)) = n]]
<1>1. N \in Nat /\ DOMAIN Sorted = 1..N
  BY SortedIsSorted
<1>2. FirstOfFiles(Sorted) = first
  BY <1>1 DEF FirstOfFiles
<1>3. Cardinality(F) \in Nat /\ IsInOrder(at, F)
  <2>1. F \in SUBSET (1..N)
    OBVIOUS
  <2> HIDE DEF F, N
  <2> QED
    BY <1>1, <2>1, CountedOff
<1>4. \A n \in 1..Cardinality(F) : first[n] = Sorted[at[n]]
  BY DEF Nth
<1>5. DOMAIN first = 1..Cardinality(F)
  OBVIOUS
<1> HIDE DEF F, at, first, N
<1>6. Len(first) = Cardinality(F)
  BY <1>3, <1>5
<1>7. len \in Nat /\ len <= Cardinality(F)
  BY <1>3, RankingAssumption
<1>8. Found = SubSeq(first, 1, len)
  BY <1>2, <1>6 DEF Found, Cut
<1> HIDE DEF len
<1>9. Found = [n \in 1..len |-> first[n]]
  BY <1>7, <1>8
<1>10. Len(Found) = len /\ DOMAIN Found = 1..len
  BY <1>7, <1>9
<1>11. \A n \in 1..len : at[n] \in F /\ Found[n] = Sorted[at[n]]
  BY <1>3, <1>4, <1>7, <1>9 DEF IsInOrder
<1> QED
  BY <1>3, <1>7, <1>10, <1>11, Zenon DEF F, at, len, N

(* A file of a hit stands in the answer by its first place, if the limit is not reached.    *)
LEMMA FirstPlaces ==
  ASSUME SearchTyped,
         NEW N, N = Cardinality(Hits),
         NEW F, F = {k \in 1..N : \A m \in 1..(k - 1) : corpus[Sorted[m]].file # corpus[Sorted[k]].file}
  PROVE  /\ \A p \in 1..N : \E b \in F : b <= p /\ corpus[Sorted[b]].file = corpus[Sorted[p]].file
         /\ \A b, c \in F : corpus[Sorted[b]].file = corpus[Sorted[c]].file => b = c
         /\ Cardinality(F) = Cardinality({corpus[i].file : i \in Hits})
<1> DEFINE name == [k \in 1..N |-> corpus[Sorted[k]].file]
           files == {corpus[i].file : i \in Hits}
<1>1. /\ N \in Nat /\ Sorted \in [1..N -> Hits]
      /\ \A i \in Hits : \E n \in 1..N : Sorted[n] = i
  BY SortedIsSorted
<1>2. F = {k \in 1..N : \A m \in 1..(k - 1) : name[m] # name[k]}
  <2>1. \A k \in 1..N : \A m \in 1..(k - 1) : m \in 1..N
    BY <1>1
  <2>2. \A k \in 1..N : name[k] = corpus[Sorted[k]].file
    OBVIOUS
  <2> HIDE DEF name
  <2>3. \A k \in 1..N : (\A m \in 1..(k - 1) : corpus[Sorted[m]].file # corpus[Sorted[k]].file)
                          <=> (\A m \in 1..(k - 1) : name[m] # name[k])
    BY <2>1, <2>2
  <2> QED
    BY <2>3
<1>3. name \in [1..N -> files] /\ files = {name[k] : k \in 1..N}
  BY <1>1
<1> HIDE DEF files
<1>4. ASSUME NEW p \in 1..N PROVE \E b \in F : b <= p /\ name[b] = name[p]
  <2> HIDE DEF name
  <2> DEFINE same == {k \in 1..N : name[k] = name[p]}
  <2>1. same \in SUBSET Nat /\ p \in same
    BY <1>1
  <2>2. PICK b \in same : \A j \in same : b <= j
    BY <2>1, Least
  <2>3. \A m \in 1..(b - 1) : m \in 1..N /\ ~(b <= m)
    BY <1>1, <2>2
  <2>4. \A m \in 1..(b - 1) : name[m] # name[b]
    BY <2>2, <2>3
  <2> QED
    BY <1>2, <2>1, <2>2, <2>4
<1>5. ASSUME NEW b \in F, NEW c \in F, name[b] = name[c] PROVE b = c
  <2> HIDE DEF name
  <2>1. b \in Nat /\ c \in Nat /\ b >= 1 /\ c >= 1
    BY <1>1, <1>2
  <2>2. ~(b < c)
    <3>1. b < c => b \in 1..(c - 1)
      BY <2>1
    <3> QED
      BY <1>2, <1>5, <3>1
  <2>3. ~(c < b)
    <3>1. c < b => c \in 1..(b - 1)
      BY <2>1
    <3> QED
      BY <1>2, <1>5, <3>1
  <2> QED
    BY <2>1, <2>2, <2>3
<1>6. Cardinality(F) = Cardinality(files)
  <2> HIDE DEF name
  <2> DEFINE of == [k \in F |-> name[k]]
  <2>1. IsFiniteSet(F) /\ F \subseteq 1..N
    <3>1. F \in SUBSET (1..N)
      BY <1>2
    <3>2. IsFiniteSet(1..N)
      BY <1>1, FS_Interval
    <3> QED
      BY <3>1, <3>2, FS_Subset
  <2>2. of \in [F -> files]
    BY <1>3, <2>1
  <2>3. ASSUME NEW g \in files PROVE \E k \in F : of[k] = g
    <3>1. PICK p \in 1..N : name[p] = g
      BY <1>3
    <3>2. PICK b \in F : name[b] = g
      BY <1>4, <3>1
    <3>3. of[b] = g
      BY <3>2
    <3> QED
      BY <3>3
  <2>4. of \in Surjection(F, files)
    BY <2>2, <2>3 DEF Surjection
  <2>5. of \in Injection(F, files)
    BY <1>5, <2>2 DEF Injection, IsInjective
  <2> HIDE DEF of
  <2> QED
    BY <2>1, <2>4, <2>5, FS_Surjection
<1>7. \A k \in 1..N : name[k] = corpus[Sorted[k]].file
  OBVIOUS
<1>8. F \subseteq 1..N
  BY <1>2
<1> HIDE DEF name
<1> QED
  BY <1>4, <1>5, <1>6, <1>7, <1>8 DEF files

(* What a search finds is as many files as it may give, the best first.                 *)
LEMMA FoundFillsItsLimit ==
  ASSUME SearchTyped, answer = Found PROVE SearchFillsItsLimit
<1> DEFINE N == Cardinality(Hits)
           F == {k \in 1..N : \A m \in 1..(k - 1) : corpus[Sorted[m]].file # corpus[Sorted[k]].file}
           at == Nth(F)
           len == IF Cardinality(F) < Limit THEN Cardinality(F) ELSE Limit
           files == {corpus[i].file : i \in Hits}
<1>1. /\ N \in Nat /\ Sorted \in [1..N -> Hits]
      /\ \A i \in Hits : \E n \in 1..N : Sorted[n] = i
      /\ \A m, n \in 1..N : Before(Scores, Sorted[m], Sorted[n]) => m < n
  BY SortedIsSorted, Zenon
<1>2. /\ Cardinality(F) \in Nat /\ len \in Nat
      /\ Len(Found) = len /\ DOMAIN Found = 1..len
      /\ \A n \in 1..len : at[n] \in F /\ Found[n] = Sorted[at[n]]
  BY FoundIsCounted, Zenon
<1>3. F \in SUBSET (1..N)
  OBVIOUS
<1>4. /\ at \in [1..Cardinality(F) -> F]
      /\ \A m, n \in 1..Cardinality(F) : m < n => at[m] < at[n]
      /\ \A k \in F : \E n \in 1..Cardinality(F) : at[n] = k
  <2>1. IsInOrder(at, F)
    <3> HIDE DEF F, N
    <3> QED
      BY <1>1, <1>3, CountedOff
  <2> HIDE DEF F, N, at
  <2> QED
    BY <2>1 DEF IsInOrder
<1> HIDE DEF at
<1>5. /\ \A p \in 1..N : \E b \in F : b <= p /\ corpus[Sorted[b]].file = corpus[Sorted[p]].file
      /\ Cardinality(F) = Cardinality(files)
  BY SearchTyped, FirstPlaces, Zenon
<1> HIDE DEF F, N
<1>6. Len(answer) = IF Cardinality(files) < Limit THEN Cardinality(files) ELSE Limit
  BY <1>2, <1>5
<1>7. ASSUME NEW k \in DOMAIN answer, NEW i \in Hits, Before(Scores, i, answer[k])
      PROVE  \E m \in 1..k : corpus[answer[m]].file = corpus[i].file
  <2>1. k \in 1..len /\ at[k] \in F /\ answer[k] = Sorted[at[k]]
    BY <1>2
  <2>2. PICK p \in 1..N : Sorted[p] = i
    BY <1>1
  <2>3. at[k] \in 1..N /\ p < at[k]
    BY <1>1, <1>3, <1>7, <2>1, <2>2
  <2>4. PICK b \in F : b <= p /\ corpus[Sorted[b]].file = corpus[Sorted[p]].file
    BY <1>5
  <2>5. PICK m \in 1..Cardinality(F) : at[m] = b
    BY <1>4
  <2>6. k \in 1..Cardinality(F) /\ m \in Nat /\ k \in Nat /\ len <= Cardinality(F)
    BY <1>2, <2>1, RankingAssumption
  <2>7. b < at[k]
    BY <1>1, <1>3, <2>3, <2>4
  <2>8. ~(k < m)
    <3> SUFFICES ASSUME k < m PROVE FALSE
      OBVIOUS
    <3>1. at[k] < b
      BY <1>4, <2>5, <2>6
    <3>2. at[k] \in Nat /\ b \in Nat
      BY <1>1, <1>3, <2>3, <2>4
    <3> QED
      BY <2>7, <3>1, <3>2
  <2>9. m \in 1..k /\ m \in 1..len
    BY <1>2, <2>1, <2>6, <2>8
  <2>10. answer[m] = Sorted[b]
    BY <1>2, <2>5, <2>9
  <2> QED
    BY <2>2, <2>4, <2>9, <2>10
<1> HIDE DEF files
<1> QED
  BY <1>6, <1>7 DEF SearchFillsItsLimit, files

(* What is asked of a table is a search of typed rows, and its answer is what it finds.      *)
SearchOnTrack ==
  /\ job \in {"search", "answered"} => SearchTyped
  /\ job = "answered" => answer = Found

LEMMA SearchStays == RankSpec => []SearchOnTrack
<1>1. RankInit => SearchOnTrack
  BY DEF RankInit, SearchOnTrack
<1>2. SearchOnTrack /\ [RankNext]_rankVars => SearchOnTrack'
  <2> SUFFICES ASSUME SearchOnTrack, [RankNext]_rankVars PROVE SearchOnTrack'
    OBVIOUS
  <2>1. CASE AskSearch
    <3>1. job' = "search"
      BY <2>1 DEF AskSearch
    <3>2. PICK rows \in [1..Places -> RankedFile \X Match] :
            corpus' = [i \in 1..Places |->
                        [file |-> rows[i][1],
                         dense |-> rows[i][2][1], bm25 |-> rows[i][2][2],
                         named |-> rows[i][2][3]]]
      BY <2>1 DEF AskSearch
    <3>3. ASSUME NEW i \in 1..Places
          PROVE  /\ rows[i][1] \in RankedFile
                 /\ rows[i][2][1] \in Nat /\ rows[i][2][2] \in Nat /\ rows[i][2][3] \in BOOLEAN
      <4>1. rows[i][1] \in RankedFile /\ rows[i][2] \in Match
        OBVIOUS
      <4>2. rows[i][2] \in Nat \X Nat \X BOOLEAN
        BY <4>1, RankingAssumption
      <4> QED
        BY <4>1, <4>2
    <3>4. SearchTyped'
      BY <3>2, <3>3 DEF SearchTyped
    <3> QED
      BY <3>1, <3>4 DEF SearchOnTrack
  <2>2. CASE AnswerSearch
    <3>1. UNCHANGED corpus
      BY <2>2 DEF AnswerSearch
    <3>2. Found' = Found
      BY <3>1, FoundStands
    <3>3. job = "search" /\ job' = "answered" /\ answer' = Found
      BY <2>2 DEF AnswerSearch
    <3> QED
      BY <3>1, <3>2, <3>3 DEF SearchOnTrack, SearchTyped
  <2>3. CASE UNCHANGED rankVars
    <3>1. UNCHANGED <<job, corpus, answer>>
      BY <2>3 DEF rankVars
    <3>2. Found' = Found
      BY <3>1, FoundStands
    <3> QED
      BY <3>1, <3>2 DEF SearchOnTrack, SearchTyped
  <2>4. CASE AskNeighbors \/ ScanRow \/ (\E f \in RankedFile : DrainFile(f)) \/ Drained
             \/ AskDuplicates \/ ScanPair
    <3>1. job' \notin {"search", "answered"}
      BY <2>4 DEF AskNeighbors, ScanRow, DrainFile, Drained, AskDuplicates, ScanPair
    <3> QED
      BY <3>1 DEF SearchOnTrack
  <2> QED
    BY <2>1, <2>2, <2>3, <2>4 DEF RankNext
<1> QED
  BY <1>1, <1>2, PTL DEF RankSpec

(* SearchFillsItsLimit: for tables of any size, any scores and any limit.                *)
LEMMA SearchesFill == RankSpec => []SearchFillsItsLimit
<1>1. SearchOnTrack => SearchFillsItsLimit
  <2>1. CASE job = "answered"
    BY <2>1, FoundFillsItsLimit DEF SearchOnTrack
  <2>2. CASE job # "answered"
    BY <2>2 DEF SearchFillsItsLimit
  <2> QED
    BY <2>1, <2>2
<1> QED
  BY <1>1, SearchStays, PTL

(* A heap and an answer keep to the limit, whatever is asked of the table.                   *)
RankTyped ==
  /\ job \in {"none", "neighbors", "drain", "ranked", "duplicates", "paired", "search", "answered"}
  /\ best \in [RankedFile -> 0..Places]
  /\ IsFiniteSet(heap) /\ Cardinality(heap) <= Limit
  /\ job # "answered" => answer = <<>>

THEOREM RankTyping == RankSpec => []RankTypeOK
<1>1. RankInit => RankTyped
  <2>1. IsFiniteSet({}) /\ Cardinality({}) = 0 /\ Limit \in Nat /\ Places \in Nat
    BY FS_EmptySet, RankingAssumption
  <2> QED
    BY <2>1 DEF RankInit, RankTyped
<1>2. RankTyped /\ RankOnTrack /\ RankOnTrack' /\ [RankNext]_rankVars => RankTyped'
  <2> SUFFICES ASSUME RankTyped, RankOnTrack, RankOnTrack', [RankNext]_rankVars PROVE RankTyped'
    OBVIOUS
  <2>1. IsFiniteSet({}) /\ Cardinality({}) = 0 /\ Limit \in Nat
    BY FS_EmptySet, RankingAssumption
  <2>2. job' \in {"none", "neighbors", "drain", "ranked", "duplicates", "paired", "search", "answered"}
    BY DEF RankNext, AskNeighbors, ScanRow, DrainFile, Drained, AskDuplicates, ScanPair, AskSearch,
           AnswerSearch, rankVars, RankTyped
  <2>3. best' \in [RankedFile -> 0..Places]
    <3>1. job' \in {"neighbors", "drain", "ranked"} => best' \in [RankedFile -> 0..Places]
      BY DEF RankOnTrack, NeighborsOnTrack
    <3>2. job' \notin {"neighbors", "drain", "ranked"} => best' = best
      BY DEF RankNext, AskNeighbors, ScanRow, DrainFile, Drained, AskDuplicates, ScanPair,
             AskSearch, AnswerSearch, rankVars
    <3> QED
      BY <3>1, <3>2 DEF RankTyped
  <2>4. IsFiniteSet(heap') /\ Cardinality(heap') <= Limit
    <3>1. job' \in {"drain", "duplicates"} => IsFiniteSet(heap') /\ Cardinality(heap') <= Limit
      BY DEF RankOnTrack, NeighborsOnTrack, PairsOnTrack, OnlyBest
    <3>2. job' \notin {"drain", "duplicates"} => heap' = heap
      BY DEF RankNext, AskNeighbors, ScanRow, DrainFile, Drained, AskDuplicates, ScanPair,
             AskSearch, AnswerSearch, rankVars
    <3> QED
      BY <3>1, <3>2 DEF RankTyped
  <2>5. job' # "answered" => answer' = <<>>
    BY DEF RankNext, AskNeighbors, ScanRow, DrainFile, Drained, AskDuplicates, ScanPair,
           AskSearch, AnswerSearch, rankVars, RankTyped
  <2> QED
    BY <2>2, <2>3, <2>4, <2>5 DEF RankTyped
<1>3. RankTyped /\ SearchOnTrack /\ SearchFillsItsLimit => RankTypeOK
  <2> SUFFICES ASSUME RankTyped, SearchOnTrack, SearchFillsItsLimit PROVE RankTypeOK
    OBVIOUS
  <2>1. Len(answer) <= Limit
    <3>1. CASE job = "answered"
      <4> DEFINE files == {corpus[i].file : i \in Hits}
      <4>1. IsFiniteSet(files)
        <5>1. IsFiniteSet(1..Places) /\ Hits \subseteq 1..Places
          BY RankingAssumption, FS_Interval DEF Hits
        <5>2. IsFiniteSet(Hits)
          BY <5>1, FS_Subset
        <5>3. [i \in Hits |-> corpus[i].file] \in Surjection(Hits, files)
          BY DEF Surjection
        <5> HIDE DEF files
        <5> QED
          BY <5>2, <5>3, FS_Surjection
      <4>2. Len(answer) = IF Cardinality(files) < Limit THEN Cardinality(files) ELSE Limit
        BY <3>1 DEF SearchFillsItsLimit
      <4> HIDE DEF files
      <4>3. Cardinality(files) \in Nat
        BY <4>1, FS_CardinalityType
      <4> QED
        BY <4>2, <4>3, RankingAssumption
    <3>2. CASE job # "answered"
      BY <3>2, RankingAssumption DEF RankTyped
    <3> QED
      BY <3>1, <3>2
  <2> QED
    BY <2>1 DEF RankTyped, RankTypeOK
<1> QED
  BY <1>1, <1>2, <1>3, RankStays, SearchStays, SearchesFill, PTL DEF RankSpec

(* RankedIsBest: what comes out of a table is the best of what is in it and as much as was    *)
(* asked for, for tables of any size, any scores, floor and limit, and any order in which   *)
(* the map gives its files.                                                      *)
THEOREM RanksTheBest == RankSpec => []RankedIsBest
  BY BestAreKept, SearchesFill, PTL DEF RankedIsBest

(***************************************************************************)
(* The calendar.                                                           *)
(***************************************************************************)
(* Of the days of an era of 400 years that begin in March, those before a year.       *)
DaysBefore(y) == 365 * y + y \div 4 - y \div 100

YearOfEra(doe) == (doe - doe \div 1460 + doe \div 36524 - doe \div 146096) \div 365
MonthStart(mp) == (153 * mp + 2) \div 5
CivilMonth(mp) == mp + (IF mp < 10 THEN 3 ELSE -9)

(* The date of a day of a year of an era.                                           *)
CivilOf(era, y, doy) ==
  LET mp == (5 * doy + 2) \div 153
  IN  [year |-> y + era * 400 + (IF CivilMonth(mp) <= 2 THEN 1 ELSE 0),
       month |-> CivilMonth(mp), day |-> doy - MonthStart(mp) + 1]

(* The year y has the day doe of the era.                                           *)
YearHas(y, doe) ==
  /\ y \in Nat /\ y <= 399 /\ DaysBefore(y) <= doe
  /\ y < 399 => doe < DaysBefore(y + 1)

LEMMA Quotients ==
  ASSUME NEW n \in Nat
  PROVE  /\ n \div 4 \in Nat /\ 4 * (n \div 4) <= n /\ n < 4 * (n \div 4) + 4
         /\ n \div 100 \in Nat /\ 100 * (n \div 100) <= n /\ n < 100 * (n \div 100) + 100
         /\ n \div 365 \in Nat /\ 365 * (n \div 365) <= n /\ n < 365 * (n \div 365) + 365
         /\ n \div 1460 \in Nat /\ 1460 * (n \div 1460) <= n /\ n < 1460 * (n \div 1460) + 1460
         /\ n \div 36524 \in Nat /\ 36524 * (n \div 36524) <= n /\ n < 36524 * (n \div 36524) + 36524
         /\ n \div 146096 \in Nat /\ 146096 * (n \div 146096) <= n
         /\ n < 146096 * (n \div 146096) + 146096
  OBVIOUS

LEMMA YearOfEraHas ==
  ASSUME NEW doe \in Nat, doe <= 146096
  PROVE  YearHas(YearOfEra(doe), doe)
<1> DEFINE a == doe \div 1460
           b == doe \div 36524
           c == doe \div 146096
           x == doe - a + b - c
           w == x \div 365
           q == w \div 4
           r == w \div 100
           q1 == (w + 1) \div 4
           r1 == (w + 1) \div 100
<1>1. /\ a \in Nat /\ 1460 * a <= doe /\ doe < 1460 * a + 1460
      /\ b \in Nat /\ 36524 * b <= doe /\ doe < 36524 * b + 36524
      /\ c \in Nat /\ 146096 * c <= doe /\ doe < 146096 * c + 146096
  BY Quotients
<1> HIDE DEF a, b, c
<1>2. x \in Nat
  BY <1>1
<1> HIDE DEF x
<1>3. w \in Nat /\ 365 * w <= x /\ x < 365 * w + 365
  BY <1>2, Quotients
<1> HIDE DEF w
<1>4. /\ q \in Nat /\ 4 * q <= w /\ w < 4 * q + 4
      /\ r \in Nat /\ 100 * r <= w /\ w < 100 * r + 100
      /\ q1 \in Nat /\ 4 * q1 <= w + 1 /\ w + 1 < 4 * q1 + 4
      /\ r1 \in Nat /\ 100 * r1 <= w + 1 /\ w + 1 < 100 * r1 + 100
  BY <1>3, Quotients
<1> HIDE DEF q, r, q1, r1
<1>5. x = doe - a + b - c
  BY DEF x
<1>6. w \in Nat /\ w <= 399 /\ 365 * w + q - r <= doe
  BY <1>1, <1>3, <1>4, <1>5
<1>7. w < 399 => doe < 365 * (w + 1) + q1 - r1
  BY <1>1, <1>3, <1>4, <1>5
<1>8. DaysBefore(w) = 365 * w + q - r /\ DaysBefore(w + 1) = 365 * (w + 1) + q1 - r1
  BY DEF DaysBefore, q, r, q1, r1
<1>9. YearHas(w, doe)
  BY <1>6, <1>7, <1>8 DEF YearHas
<1> QED
  BY <1>9 DEF YearOfEra, w, x, a, b, c

(* The years follow one another.                                                 *)
LEMMA YearsAreApart ==
  ASSUME NEW y \in Nat, y <= 399, NEW w \in Nat, w <= 399, y < w
  PROVE  DaysBefore(y + 1) <= DaysBefore(w) /\ DaysBefore(w) \in Nat /\ DaysBefore(y + 1) \in Nat
<1> DEFINE q1 == (y + 1) \div 4
           r1 == (y + 1) \div 100
           q2 == w \div 4
           r2 == w \div 100
<1>1. /\ q1 \in Nat /\ 4 * q1 <= y + 1 /\ y + 1 < 4 * q1 + 4
      /\ r1 \in Nat /\ 100 * r1 <= y + 1 /\ y + 1 < 100 * r1 + 100
      /\ q2 \in Nat /\ 4 * q2 <= w /\ w < 4 * q2 + 4
      /\ r2 \in Nat /\ 100 * r2 <= w /\ w < 100 * r2 + 100
  BY Quotients
<1> HIDE DEF q1, r1, q2, r2
<1>2. 365 * (y + 1) + q1 - r1 <= 365 * w + q2 - r2
  BY <1>1
<1>3. 365 * w + q2 - r2 \in Nat /\ 365 * (y + 1) + q1 - r1 \in Nat
  BY <1>1
<1> QED
  BY <1>2, <1>3 DEF DaysBefore, q1, r1, q2, r2

LEMMA OneYear ==
  ASSUME NEW doe \in Nat, doe <= 146096, NEW w \in Nat, w <= 399, NEW y \in Nat, y <= 399, YearHas(w, doe), YearHas(y, doe)
  PROVE  w = y
<1>2. CASE y < w
  <2>1. y < 399 /\ DaysBefore(y + 1) <= DaysBefore(w) /\ DaysBefore(w) \in Nat /\ DaysBefore(y + 1) \in Nat
    BY <1>2, YearsAreApart
  <2> QED
    BY <2>1 DEF YearHas
<1>3. CASE w < y
  <2>1. w < 399 /\ DaysBefore(w + 1) <= DaysBefore(y) /\ DaysBefore(y) \in Nat /\ DaysBefore(w + 1) \in Nat
    BY <1>3, YearsAreApart
  <2> QED
    BY <2>1 DEF YearHas
<1> QED
  BY <1>2, <1>3

LEMMA YearIs ==
  ASSUME NEW doe \in Nat, doe <= 146096, NEW y \in Nat, y <= 399, YearHas(y, doe)
  PROVE  YearOfEra(doe) = y
<1>1. YearHas(YearOfEra(doe), doe)
  BY YearOfEraHas
<1>2. YearOfEra(doe) \in Nat /\ YearOfEra(doe) <= 399
  BY <1>1 DEF YearHas
<1> QED
  BY <1>1, <1>2, OneYear

(* The year after next begins 365 or, if the year ends in a leap day, 366 days later.  *)
YearEnds(y, era) ==
  /\ DaysBefore(y) \in Nat
  /\ DaysBefore(y + 1) = DaysBefore(y) +
       (IF IsLeapYear(y + 1 + era * 400) /\ y < 399 THEN 366 ELSE 365)
  /\ y = 399 => DaysBefore(y) = 145731 /\ IsLeapYear(y + 1 + era * 400)

LEMMA YearLength ==
  ASSUME NEW y \in Nat, y <= 399, NEW era \in Nat
  PROVE  YearEnds(y, era)
<1> DEFINE Y == y + 1 + era * 400
           q == y \div 4
           r == y \div 100
           q1 == (y + 1) \div 4
           r1 == (y + 1) \div 100
<1>1. /\ q \in Nat /\ 4 * q <= y /\ y < 4 * q + 4
      /\ r \in Nat /\ 100 * r <= y /\ y < 100 * r + 100
      /\ q1 \in Nat /\ 4 * q1 <= y + 1 /\ y + 1 < 4 * q1 + 4
      /\ r1 \in Nat /\ 100 * r1 <= y + 1 /\ y + 1 < 100 * r1 + 100
  BY Quotients
<1>2. /\ Y % 4 = 0 <=> y + 1 = 4 * q1
      /\ Y % 100 = 0 <=> y + 1 = 100 * r1
      /\ Y % 400 = 0 <=> y = 399
  OBVIOUS
<1>3. IsLeapYear(Y) <=> (y + 1 = 4 * q1 /\ (y + 1 # 100 * r1 \/ y = 399))
  BY <1>2 DEF IsLeapYear
<1> HIDE DEF q, r, q1, r1, Y
<1>4. 365 * (y + 1) + q1 - r1 = 365 * y + q - r + (IF IsLeapYear(Y) /\ y < 399 THEN 366 ELSE 365)
  BY <1>1, <1>3
<1>5. 365 * y + q - r \in Nat /\ (y = 399 => 365 * y + q - r = 145731 /\ IsLeapYear(Y))
  BY <1>1, <1>3
<1> QED
  BY <1>4, <1>5 DEF YearEnds, DaysBefore, q, r, q1, r1, Y

(* The months of a year that begins in March, and their days.                        *)
MonthHas(mp, doy) ==
  /\ mp \in Nat /\ mp <= 11 /\ MonthStart(mp) <= doy
  /\ mp < 11 => doy < MonthStart(mp + 1)

LEMMA MonthOfYear ==
  ASSUME NEW doy \in Nat, doy <= 365
  PROVE  MonthHas((5 * doy + 2) \div 153, doy)
<1> DEFINE mp == (5 * doy + 2) \div 153
           m == MonthStart(mp)
           n == MonthStart(mp + 1)
<1>1. mp \in Nat /\ mp <= 11 /\ 153 * mp <= 5 * doy + 2 /\ 5 * doy + 2 < 153 * mp + 153
  OBVIOUS
<1> HIDE DEF mp
<1>2. /\ m \in Nat /\ 5 * m <= 153 * mp + 2 /\ 153 * mp + 2 < 5 * m + 5
      /\ n \in Nat /\ 5 * n <= 153 * (mp + 1) + 2 /\ 153 * (mp + 1) + 2 < 5 * n + 5
  BY <1>1 DEF MonthStart
<1> HIDE DEF m, n
<1>3. m <= doy /\ doy < n
  BY <1>1, <1>2
<1> QED
  BY <1>1, <1>3 DEF MonthHas, mp, m, n

LEMMA MonthStarts ==
  /\ MonthStart(0) = 0 /\ MonthStart(1) = 31 /\ MonthStart(2) = 61 /\ MonthStart(3) = 92
  /\ MonthStart(4) = 122 /\ MonthStart(5) = 153 /\ MonthStart(6) = 184
  /\ MonthStart(7) = 214 /\ MonthStart(8) = 245 /\ MonthStart(9) = 275
  /\ MonthStart(10) = 306 /\ MonthStart(11) = 337
  BY DEF MonthStart

LEMMA MonthIs ==
  ASSUME NEW doy \in Nat, doy <= 365, NEW mp, MonthHas(mp, doy)
  PROVE  (5 * doy + 2) \div 153 = mp
<1> DEFINE w == (5 * doy + 2) \div 153
<1>1. MonthHas(w, doy) /\ w \in Nat /\ w <= 11 /\ mp \in Nat /\ mp <= 11
  BY MonthOfYear DEF MonthHas
<1> HIDE DEF w
<1> QED
  BY <1>1, MonthStarts DEF MonthHas, w

(* The days a year has beyond 365, and its date.                                      *)
DayOfYear(era, y, doy) ==
  /\ era \in Nat /\ y \in Nat /\ y <= 399 /\ doy \in Nat /\ doy <= 365
  /\ doy = 365 => IsLeapYear(y + 1 + era * 400)

NextDate(c) ==
  IF c.day < DaysInMonth(c.year, c.month)
    THEN [year |-> c.year, month |-> c.month, day |-> c.day + 1]
  ELSE IF c.month < 12
    THEN [year |-> c.year, month |-> c.month + 1, day |-> 1]
  ELSE [year |-> c.year + 1, month |-> 1, day |-> 1]

(* The date of a day of the month mp.                                                *)
DateIn(era, y, mp, doy) ==
  [year |-> y + era * 400 + (IF mp >= 10 THEN 1 ELSE 0),
   month |-> IF mp < 10 THEN mp + 3 ELSE mp - 9, day |-> doy - MonthStart(mp) + 1]

LEMMA CivilIs ==
  ASSUME NEW era \in Nat, NEW y \in Nat, y <= 399, NEW doy \in Nat, doy <= 365, NEW mp, MonthHas(mp, doy)
  PROVE  CivilOf(era, y, doy) = DateIn(era, y, mp, doy)
<1>1. (5 * doy + 2) \div 153 = mp /\ mp \in Nat /\ mp <= 11
  BY MonthIs DEF MonthHas
<1>2. CivilMonth(mp) = (IF mp < 10 THEN mp + 3 ELSE mp - 9) /\ (CivilMonth(mp) <= 2 <=> mp >= 10)
  BY <1>1 DEF CivilMonth
<1> QED
  BY <1>1, <1>2 DEF CivilOf, DateIn

(* A date of a month of a year, and the date after it.                                *)
IsDate(c) == c.year \in Nat /\ c.month \in 1..12 /\ c.day \in 1..DaysInMonth(c.year, c.month)

MonthLength(y, mp) == IF mp < 11 THEN MonthStart(mp + 1) - MonthStart(mp)
                      ELSE IF IsLeapYear(y) THEN 29 ELSE 28

LEMMA MonthLengths ==
  ASSUME NEW era \in Nat, NEW y \in Nat, NEW doy \in Nat, NEW mp \in Nat, mp <= 11, MonthHas(mp, doy),
         DayOfYear(era, y, doy)
  PROVE  /\ IsDate(DateIn(era, y, mp, doy))
         /\ DaysInMonth(DateIn(era, y, mp, doy).year, DateIn(era, y, mp, doy).month)
              = MonthLength(y + 1 + era * 400, mp)
<1> DEFINE c == DateIn(era, y, mp, doy)
<1>1. /\ c.year = y + era * 400 + (IF mp >= 10 THEN 1 ELSE 0)
      /\ c.month = (IF mp < 10 THEN mp + 3 ELSE mp - 9)
      /\ c.day = doy - MonthStart(mp) + 1
  BY DEF DateIn
<1> HIDE DEF c
<1>2. c.year \in Nat /\ c.month \in 1..12
  <2>1. era * 400 \in Nat
    BY DEF DayOfYear
  <2> QED
    BY <1>1, <2>1
<1>3. mp < 11 => DaysInMonth(c.year, c.month) = MonthStart(mp + 1) - MonthStart(mp)
  BY <1>1, MonthStarts DEF DaysInMonth
<1>4. ASSUME mp = 11
      PROVE  DaysInMonth(c.year, c.month) = IF IsLeapYear(y + 1 + era * 400) THEN 29 ELSE 28
  <2>1. c.month = 2 /\ c.year = y + 1 + era * 400
    BY <1>1, <1>4 DEF DayOfYear
  <2> QED
    BY <2>1 DEF DaysInMonth
<1>5. c.day \in 1..DaysInMonth(c.year, c.month)
  <2>1. CASE mp < 11
    BY <1>1, <1>3, <2>1, MonthStarts DEF MonthHas
  <2>2. CASE mp = 11
    BY <1>1, <1>4, <2>2, MonthStarts DEF MonthHas, DayOfYear
  <2> QED
    BY <2>1, <2>2
<1>6. DaysInMonth(c.year, c.month) = MonthLength(y + 1 + era * 400, mp)
  BY <1>3, <1>4 DEF MonthLength
<1>7. IsDate(c)
  BY <1>2, <1>5 DEF IsDate
<1> QED
  BY <1>6, <1>7 DEF c

LEMMA MonthOfDay ==
  ASSUME NEW doy \in Nat, doy <= 365
  PROVE  \E mp \in Nat : mp <= 11 /\ MonthHas(mp, doy)
BY MonthOfYear DEF MonthHas

LEMMA CivilIsADate ==
  ASSUME NEW era \in Nat, NEW y \in Nat, NEW doy \in Nat, DayOfYear(era, y, doy)
  PROVE  IsDate(CivilOf(era, y, doy))
<1>1. y <= 399 /\ doy <= 365
  BY DEF DayOfYear
<1>2. PICK mp \in Nat : mp <= 11 /\ MonthHas(mp, doy)
  BY <1>1, MonthOfDay
<1>3. CivilOf(era, y, doy) = DateIn(era, y, mp, doy)
  BY <1>1, <1>2, CivilIs
<1> QED
  BY <1>2, <1>3, MonthLengths

(* Dates of the same year, month and day are one date.                                    *)
LEMMA SameDates ==
  ASSUME NEW y1, NEW y2, NEW m1, NEW m2, NEW d1, NEW d2, y1 = y2, m1 = m2, d1 = d2
  PROVE  [year |-> y1, month |-> m1, day |-> d1] = [year |-> y2, month |-> m2, day |-> d2]
OBVIOUS

LEMMA WithinAYear ==
  ASSUME NEW era \in Nat, NEW y \in Nat, NEW doy \in Nat,
         DayOfYear(era, y, doy), DayOfYear(era, y, doy + 1)
  PROVE  CivilOf(era, y, doy + 1) = NextDate(CivilOf(era, y, doy))
<1>1. y <= 399 /\ doy + 1 <= 365 /\ doy <= 365
  BY DEF DayOfYear
<1>2. PICK mp \in Nat : mp <= 11 /\ MonthHas(mp, doy)
  BY <1>1, MonthOfDay
<1> DEFINE c == DateIn(era, y, mp, doy)
<1>3. CivilOf(era, y, doy) = c
  BY <1>1, <1>2, CivilIs
<1>4. /\ c.year = y + era * 400 + (IF mp >= 10 THEN 1 ELSE 0)
      /\ c.month = (IF mp < 10 THEN mp + 3 ELSE mp - 9)
      /\ c.day = doy - MonthStart(mp) + 1
  BY DEF DateIn
<1>5. /\ c.year \in Nat /\ c.month \in 1..12 /\ c.day \in 1..DaysInMonth(c.year, c.month)
      /\ mp < 11 => DaysInMonth(c.year, c.month) = MonthStart(mp + 1) - MonthStart(mp)
      /\ mp = 11 => DaysInMonth(c.year, c.month) = IF IsLeapYear(y + 1 + era * 400) THEN 29 ELSE 28
  <2>1. IsDate(c) /\ DaysInMonth(c.year, c.month) = MonthLength(y + 1 + era * 400, mp)
    BY <1>2, MonthLengths
  <2> HIDE DEF c
  <2> QED
    BY <1>2, <2>1 DEF IsDate, MonthLength
<1> HIDE DEF c
<1>6. CASE mp = 11 \/ doy + 1 < MonthStart(mp + 1)
  <2>1. MonthHas(mp, doy + 1)
    BY <1>2, <1>6, MonthStarts DEF MonthHas
  <2>2. CivilOf(era, y, doy + 1) = DateIn(era, y, mp, doy + 1)
    BY <1>1, <2>1, CivilIs
  <2>3. c.day < DaysInMonth(c.year, c.month)
    <3>1. CASE mp = 11
      BY <1>1, <1>4, <1>5, <3>1, MonthStarts DEF DayOfYear
    <3>2. CASE mp < 11
      BY <1>4, <1>5, <1>6, <3>2, MonthStarts
    <3> QED
      BY <1>2, <3>1, <3>2
  <2>4. DateIn(era, y, mp, doy + 1) = [year |-> c.year, month |-> c.month, day |-> c.day + 1]
    <3>1. MonthStart(mp) \in Nat
      BY <1>2, MonthStarts
    <3>2. (doy + 1) - MonthStart(mp) + 1 = c.day + 1
      BY <1>4, <3>1
    <3>3. DateIn(era, y, mp, doy + 1) =
            [year |-> y + era * 400 + (IF mp >= 10 THEN 1 ELSE 0),
             month |-> IF mp < 10 THEN mp + 3 ELSE mp - 9, day |-> (doy + 1) - MonthStart(mp) + 1]
      BY DEF DateIn
    <3>4. c.year = y + era * 400 + (IF mp >= 10 THEN 1 ELSE 0)
          /\ c.month = IF mp < 10 THEN mp + 3 ELSE mp - 9
      BY <1>4
    <3> HIDE DEF c
    <3> QED
      BY <3>2, <3>3, <3>4, SameDates
  <2> QED
    BY <1>3, <2>2, <2>3, <2>4 DEF NextDate
<1>7. CASE mp < 11 /\ ~(doy + 1 < MonthStart(mp + 1))
  <2>1. doy + 1 = MonthStart(mp + 1) /\ MonthHas(mp + 1, doy + 1) /\ mp + 1 \in Nat /\ mp + 1 <= 11
    BY <1>2, <1>7, MonthStarts DEF MonthHas
  <2>2. CivilOf(era, y, doy + 1) = DateIn(era, y, mp + 1, doy + 1)
    BY <1>1, <2>1, CivilIs
  <2>3. ~(c.day < DaysInMonth(c.year, c.month))
    BY <1>4, <1>5, <1>7, <2>1, MonthStarts
  <2>4. DateIn(era, y, mp + 1, doy + 1) =
          IF c.month < 12 THEN [year |-> c.year, month |-> c.month + 1, day |-> 1]
          ELSE [year |-> c.year + 1, month |-> 1, day |-> 1]
    <3>1. (doy + 1) - MonthStart(mp + 1) + 1 = 1
      BY <2>1
    <3>2. CASE mp = 9
      <4>1. DateIn(era, y, mp + 1, doy + 1) = [year |-> y + era * 400 + 1, month |-> 1, day |-> 1]
        BY <2>1, <3>1, <3>2 DEF DateIn
      <4>2. c.month = 12 /\ c.year = y + era * 400
        BY <1>4, <3>2
      <4> QED
        BY <4>1, <4>2
    <3>3. CASE mp # 9
      <4>1. c.month < 12 /\ c.month \in Nat /\ c.year \in Nat
        BY <1>2, <1>4, <1>5, <3>3
      <4>2. c.month + 1 = (IF mp + 1 < 10 THEN mp + 1 + 3 ELSE mp + 1 - 9)
        BY <1>2, <1>4, <3>3
      <4>3. c.year = y + era * 400 + (IF mp + 1 >= 10 THEN 1 ELSE 0)
        BY <1>2, <1>4, <3>3
      <4>4. DateIn(era, y, mp + 1, doy + 1) =
              [year |-> y + era * 400 + (IF mp + 1 >= 10 THEN 1 ELSE 0),
               month |-> IF mp + 1 < 10 THEN mp + 1 + 3 ELSE mp + 1 - 9,
               day |-> (doy + 1) - MonthStart(mp + 1) + 1]
        BY DEF DateIn
      <4> QED
        BY <3>1, <4>1, <4>2, <4>3, <4>4, SMT
    <3> QED
      BY <3>2, <3>3
  <2> QED
    BY <1>3, <2>2, <2>3, <2>4 DEF NextDate
<1> QED
  BY <1>2, <1>6, <1>7

(* The last day of a year that begins in March, and the first of the next.               *)
EndsYear(era, y, doy) == doy = IF IsLeapYear(y + 1 + era * 400) THEN 365 ELSE 364
FollowsYear(era, y, e, w) == w <= 399 /\ w + e * 400 = y + 1 + era * 400

LEMMA AtTheYearsEnd ==
  ASSUME NEW era \in Nat, NEW y \in Nat, NEW doy \in Nat, NEW e \in Nat, NEW w \in Nat,
         DayOfYear(era, y, doy), EndsYear(era, y, doy), FollowsYear(era, y, e, w)
  PROVE  CivilOf(e, w, 0) = NextDate(CivilOf(era, y, doy))
<1>0. /\ doy = IF IsLeapYear(y + 1 + era * 400) THEN 365 ELSE 364
      /\ w <= 399 /\ w + e * 400 = y + 1 + era * 400
  BY DEF EndsYear, FollowsYear
<1>1. y <= 399 /\ doy <= 365
  BY DEF DayOfYear
<1>2. MonthHas(11, doy) /\ MonthHas(0, 0)
  BY <1>0, MonthStarts DEF MonthHas
<1> DEFINE c == DateIn(era, y, 11, doy)
<1>3. CivilOf(era, y, doy) = c /\ CivilOf(e, w, 0) = DateIn(e, w, 0, 0)
  BY <1>0, <1>1, <1>2, CivilIs
<1>4. c = [year |-> y + era * 400 + 1, month |-> 2, day |-> doy - 336]
  BY MonthStarts DEF DateIn
<1>5. DaysInMonth(c.year, c.month) = IF IsLeapYear(y + 1 + era * 400) THEN 29 ELSE 28
  <2>1. DaysInMonth(c.year, c.month) = MonthLength(y + 1 + era * 400, 11)
    BY <1>2, MonthLengths
  <2> HIDE DEF c
  <2> QED
    BY <2>1 DEF MonthLength
<1> HIDE DEF c
<1>6. NextDate(c) = [year |-> y + era * 400 + 1, month |-> 3, day |-> 1]
  <2>1. c.year = y + era * 400 + 1 /\ c.month = 2 /\ c.day = doy - 336
    BY <1>4
  <2>2. ~(c.day < DaysInMonth(c.year, c.month))
    BY <1>0, <1>5, <2>1
  <2> QED
    BY <2>1, <2>2 DEF NextDate
<1>7. DateIn(e, w, 0, 0) = [year |-> w + e * 400 + 0, month |-> 3, day |-> 1]
  BY MonthStarts DEF DateIn
<1> QED
  BY <1>0, <1>3, <1>6, <1>7 DEF c

(* The day of an era, and its date.                                                *)
Shifted(d) == d + 719468
EraOf(d) == Shifted(d) \div 146097
DayOfEra(d) == Shifted(d) - EraOf(d) * 146097

LEMMA EraHas ==
  ASSUME NEW d \in Nat
  PROVE  /\ EraOf(d) \in Nat /\ DayOfEra(d) \in Nat /\ DayOfEra(d) <= 146096
         /\ d + 719468 = EraOf(d) * 146097 + DayOfEra(d)
<1> DEFINE z == d + 719468
           era == z \div 146097
<1>1. z \in Nat
  OBVIOUS
<1> HIDE DEF z
<1>2. era \in Nat /\ 146097 * era <= z /\ z < 146097 * era + 146097
  BY <1>1
<1> HIDE DEF era
<1>3. z - era * 146097 \in Nat /\ z - era * 146097 <= 146096 /\ z = era * 146097 + (z - era * 146097)
  BY <1>1, <1>2
<1> QED
  BY <1>2, <1>3 DEF EraOf, DayOfEra, Shifted, z, era

LEMMA EraIs ==
  ASSUME NEW d \in Nat, NEW e \in Nat, NEW doe \in Nat, doe <= 146096,
         d + 719468 = e * 146097 + doe
  PROVE  EraOf(d) = e /\ DayOfEra(d) = doe
<1> DEFINE z == d + 719468
           era == z \div 146097
<1>1. z \in Nat /\ z = e * 146097 + doe
  OBVIOUS
<1> HIDE DEF z
<1>2. era \in Nat /\ 146097 * era <= z /\ z < 146097 * era + 146097
  BY <1>1
<1> HIDE DEF era
<1>3. era = e
  BY <1>1, <1>2
<1>4. z - era * 146097 = doe
  BY <1>1, <1>3
<1> QED
  BY <1>3, <1>4 DEF EraOf, DayOfEra, Shifted, z, era

(* What CivilFromDays computes.                                                    *)
LEMMA CivilOfDay ==
  ASSUME NEW d \in Nat
  PROVE  CivilFromDays(d) =
           CivilOf(EraOf(d), YearOfEra(DayOfEra(d)), DayOfEra(d) - DaysBefore(YearOfEra(DayOfEra(d))))
<1>1. d + 719468 >= 0
  OBVIOUS
<1> QED
  BY <1>1 DEF CivilFromDays, CivilOf, EraOf, YearOfEra, DayOfEra, DaysBefore, Shifted, MonthStart, CivilMonth

(* A day of a year of an era is the day of that era that its year has.                    *)
IsDay(d, era, y, doy) ==
  /\ DayOfYear(era, y, doy) /\ YearHas(y, DaysBefore(y) + doy)
  /\ DaysBefore(y) + doy <= 146096
  /\ d + 719468 = era * 146097 + DaysBefore(y) + doy

LEMMA DayIs ==
  ASSUME NEW d \in Nat
  PROVE  \E era \in Nat, y \in Nat, doy \in Nat : IsDay(d, era, y, doy)
<1> DEFINE era == EraOf(d)
           doe == DayOfEra(d)
           y == YearOfEra(doe)
           doy == doe - DaysBefore(y)
<1>1. era \in Nat /\ doe \in Nat /\ doe <= 146096 /\ d + 719468 = era * 146097 + doe
  BY EraHas
<1> HIDE DEF era, doe
<1>2. YearHas(y, doe)
  BY <1>1, YearOfEraHas
<1> HIDE DEF y
<1>3. y \in Nat /\ y <= 399 /\ DaysBefore(y) <= doe
  BY <1>2 DEF YearHas
<1>4. /\ DaysBefore(y) \in Nat
      /\ DaysBefore(y + 1) = DaysBefore(y) +
              (IF IsLeapYear(y + 1 + era * 400) /\ y < 399 THEN 366 ELSE 365)
      /\ y = 399 => DaysBefore(y) = 145731 /\ IsLeapYear(y + 1 + era * 400)
  <2>1. YearEnds(y, era)
    BY <1>1, <1>3, YearLength
  <2> QED
    BY <2>1 DEF YearEnds
<1>5. doy \in Nat /\ DaysBefore(y) + doy = doe
  BY <1>1, <1>3, <1>4
<1>6. doy <= 365 /\ (doy = 365 => IsLeapYear(y + 1 + era * 400))
  <2>1. CASE y < 399
    BY <1>1, <1>2, <1>3, <1>4, <1>5, <2>1 DEF YearHas
  <2>2. CASE y = 399
    BY <1>1, <1>3, <1>4, <1>5, <2>2
  <2> QED
    BY <1>3, <2>1, <2>2
<1> HIDE DEF doy
<1>7. DayOfYear(era, y, doy)
  BY <1>1, <1>3, <1>5, <1>6 DEF DayOfYear
<1>8. IsDay(d, era, y, doy)
  BY <1>1, <1>2, <1>4, <1>5, <1>7 DEF IsDay
<1> QED
  BY <1>1, <1>3, <1>5, <1>8

LEMMA CivilOfIt ==
  ASSUME NEW d \in Nat, NEW era \in Nat, NEW y \in Nat, NEW doy \in Nat, IsDay(d, era, y, doy)
  PROVE  CivilFromDays(d) = CivilOf(era, y, doy)
<1> DEFINE doe == DaysBefore(y) + doy
<1>1. y <= 399 /\ DaysBefore(y) \in Nat
  <2>1. y <= 399
    BY DEF IsDay, YearHas
  <2> QED
    BY <2>1, YearLength DEF YearEnds
<1>2. doe \in Nat /\ doe <= 146096 /\ YearHas(y, doe) /\ d + 719468 = era * 146097 + doe
  BY <1>1 DEF IsDay
<1>3. doe - DaysBefore(y) = doy
  BY <1>1
<1> HIDE DEF doe
<1>4. EraOf(d) = era /\ DayOfEra(d) = doe
  BY <1>2, EraIs
<1>5. YearOfEra(doe) = y
  BY <1>1, <1>2, YearIs
<1> QED
  BY <1>3, <1>4, <1>5, CivilOfDay

LEMMA YearsUpTo ==
  ASSUME NEW y \in Nat, y < 399
  PROVE  DaysBefore(y + 1) <= 145731
<1>1. DaysBefore(399) = 145731
  BY DEF DaysBefore
<1>2. CASE y + 1 = 399
  BY <1>1, <1>2
<1>3. CASE y + 1 < 399
  BY <1>1, <1>3, YearsAreApart
<1> QED
  BY <1>2, <1>3

LEMMA DayAfter ==
  ASSUME NEW d \in Nat
  PROVE  CivilFromDays(d + 1) = NextDate(CivilFromDays(d)) /\ IsDate(CivilFromDays(d))
<1>1. PICK era \in Nat, y \in Nat, doy \in Nat : IsDay(d, era, y, doy)
  BY DayIs
<1>2. DayOfYear(era, y, doy) /\ y <= 399
  BY <1>1 DEF IsDay, YearHas
<1>3. CivilFromDays(d) = CivilOf(era, y, doy)
  BY <1>1, CivilOfIt
<1>4. IsDate(CivilOf(era, y, doy))
  BY <1>2, CivilIsADate
<1>5. /\ DaysBefore(y) \in Nat
      /\ DaysBefore(y + 1) = DaysBefore(y) +
           (IF IsLeapYear(y + 1 + era * 400) /\ y < 399 THEN 366 ELSE 365)
      /\ y = 399 => DaysBefore(y) = 145731 /\ IsLeapYear(y + 1 + era * 400)
  <2>1. YearEnds(y, era)
    BY <1>2, YearLength
  <2> QED
    BY <2>1 DEF YearEnds
<1>6. CASE doy < 364 \/ (doy = 364 /\ IsLeapYear(y + 1 + era * 400))
  <2>1. DayOfYear(era, y, doy + 1)
    BY <1>2, <1>6 DEF DayOfYear
  <2>2. YearHas(y, DaysBefore(y) + (doy + 1)) /\ DaysBefore(y) + (doy + 1) <= 146096
    <3>1. CASE y < 399
      <4>1. y + 1 <= 399 /\ DaysBefore(y) + (doy + 1) < DaysBefore(y + 1)
        BY <1>2, <1>5, <1>6, <3>1
      <4>2. DaysBefore(y + 1) <= 145731
        BY <3>1, YearsUpTo
      <4> QED
        BY <1>2, <1>5, <4>1, <4>2 DEF YearHas
    <3>2. CASE y = 399
      BY <1>2, <1>5, <1>6, <3>2 DEF YearHas
    <3> QED
      BY <1>2, <3>1, <3>2
  <2>3. IsDay(d + 1, era, y, doy + 1)
    BY <1>1, <1>5, <2>1, <2>2 DEF IsDay
  <2>4. CivilFromDays(d + 1) = CivilOf(era, y, doy + 1)
    BY <2>3, CivilOfIt
  <2>5. CivilOf(era, y, doy + 1) = NextDate(CivilOf(era, y, doy))
    BY <1>2, <2>1, WithinAYear
  <2> QED
    BY <1>3, <1>4, <2>4, <2>5, Zenon
<1>7. CASE ~(doy < 364 \/ (doy = 364 /\ IsLeapYear(y + 1 + era * 400)))
  <2>1. doy = IF IsLeapYear(y + 1 + era * 400) THEN 365 ELSE 364
    BY <1>2, <1>7 DEF DayOfYear
  <2>2. PICK e \in Nat, w \in Nat :
          /\ w <= 399 /\ w + e * 400 = y + 1 + era * 400
          /\ IsDay(d + 1, e, w, 0)
    <3>1. CASE y < 399
      <4>1. DaysBefore(y + 1) = DaysBefore(y) + doy + 1
        BY <1>5, <2>1, <3>1
      <4>2. y + 1 \in Nat /\ y + 1 <= 399 /\ DaysBefore(y + 1) \in Nat /\ DaysBefore(y + 1) <= 145731
        BY <1>2, <1>5, <3>1, YearsUpTo
      <4>3. YearHas(y + 1, DaysBefore(y + 1) + 0)
        <5>1. y + 1 < 399 => DaysBefore(y + 1) < DaysBefore(y + 1 + 1)
          BY <4>2, YearLength DEF YearEnds
        <5> QED
          BY <4>2, <5>1 DEF YearHas
      <4>4. DayOfYear(era, y + 1, 0)
        BY <4>2 DEF DayOfYear
      <4>5. IsDay(d + 1, era, y + 1, 0)
        BY <1>1, <1>5, <4>1, <4>2, <4>3, <4>4 DEF IsDay
      <4> QED
        BY <4>2, <4>5
    <3>2. CASE y = 399
      <4>1. doy = 365 /\ DaysBefore(y) = 145731 /\ DaysBefore(0) = 0 /\ DaysBefore(1) = 365
        BY <1>5, <2>1, <3>2 DEF DaysBefore
      <4>2. YearHas(0, DaysBefore(0) + 0) /\ DayOfYear(era + 1, 0, 0)
        BY <4>1 DEF YearHas, DayOfYear
      <4>3. IsDay(d + 1, era + 1, 0, 0)
        BY <1>1, <4>1, <4>2 DEF IsDay
      <4>4. 0 + (era + 1) * 400 = y + 1 + era * 400
        BY <3>2
      <4> QED
        BY <4>3, <4>4
    <3> QED
      BY <1>2, <3>1, <3>2
  <2>3. CivilFromDays(d + 1) = CivilOf(e, w, 0)
    BY <2>2, CivilOfIt
  <2>4. CivilOf(e, w, 0) = NextDate(CivilOf(era, y, doy))
    <3>1. EndsYear(era, y, doy) /\ FollowsYear(era, y, e, w)
      BY <2>1, <2>2 DEF EndsYear, FollowsYear
    <3> QED
      BY <1>2, <3>1, AtTheYearsEnd
  <2> QED
    BY <1>3, <1>4, <2>3, <2>4, Zenon
<1> QED
  BY <1>6, <1>7

(* The days up to a date whose year begins in March.                                 *)
CountOf(adjusted, shifted, dayOfMonth) ==
  LET era == (IF adjusted >= 0 THEN adjusted ELSE adjusted - 399) \div 400
      yoe == adjusted - era * 400
      doy == (153 * shifted + 2) \div 5 + dayOfMonth - 1
  IN era * 146097 + yoe * 365 + yoe \div 4 - yoe \div 100 + doy - 719468

(* A date is counted back to the day it is of.                                       *)
LEMMA CountedBack ==
  ASSUME NEW d \in Nat
  PROVE  DaysFromCivil(CivilFromDays(d).year, CivilFromDays(d).month, CivilFromDays(d).day) = d
<1>1. PICK era \in Nat, y \in Nat, doy \in Nat : IsDay(d, era, y, doy)
  BY DayIs
<1>2. DayOfYear(era, y, doy) /\ y <= 399 /\ doy <= 365 /\ d + 719468 = era * 146097 + DaysBefore(y) + doy
  BY <1>1 DEF IsDay, YearHas, DayOfYear
<1>3. PICK mp \in Nat : mp <= 11 /\ MonthHas(mp, doy)
  BY <1>2, MonthOfDay
<1> DEFINE c == DateIn(era, y, mp, doy)
           adjusted == c.year - (IF c.month <= 2 THEN 1 ELSE 0)
           shifted == c.month + (IF c.month > 2 THEN -3 ELSE 9)
<1>4. CivilFromDays(d) = c
  BY <1>1, <1>2, <1>3, CivilOfIt, CivilIs
<1>5. /\ c.year = y + era * 400 + (IF mp >= 10 THEN 1 ELSE 0)
      /\ c.month = (IF mp < 10 THEN mp + 3 ELSE mp - 9)
      /\ c.day = doy - MonthStart(mp) + 1
  BY DEF DateIn
<1> HIDE DEF c
<1>6. adjusted = y + era * 400 /\ shifted = mp
  BY <1>3, <1>5
<1> DEFINE n == y + era * 400
<1>7. n \div 400 = era /\ n >= 0 /\ n - (n \div 400) * 400 = y
  <2>1. n \in Nat
    OBVIOUS
  <2> DEFINE e == n \div 400
  <2>2. e \in Nat /\ 400 * e <= n /\ n < 400 * e + 400
    BY <2>1
  <2> HIDE DEF e
  <2>3. e = era
    BY <1>2, <2>2
  <2> QED
    BY <2>3 DEF e
<1>8. MonthStart(mp) \in Nat /\ MonthStart(mp) + c.day - 1 = doy
  BY <1>3, <1>5, MonthStarts
<1>9. DaysFromCivil(c.year, c.month, c.day) =
        era * 146097 + y * 365 + y \div 4 - y \div 100 + (MonthStart(mp) + c.day - 1) - 719468
  <2>1. DaysFromCivil(c.year, c.month, c.day) = CountOf(adjusted, shifted, c.day)
    BY DEF DaysFromCivil, CountOf
  <2>2. DaysFromCivil(c.year, c.month, c.day) = CountOf(n, mp, c.day)
    BY <1>6, <2>1
  <2> HIDE DEF n
  <2> DEFINE era2 == (IF n >= 0 THEN n ELSE n - 399) \div 400
             yoe2 == n - era2 * 400
  <2>3. DaysFromCivil(c.year, c.month, c.day) =
          era2 * 146097 + yoe2 * 365 + yoe2 \div 4 - yoe2 \div 100
            + (MonthStart(mp) + c.day - 1) - 719468
    BY <2>2, SMT DEF CountOf, MonthStart
  <2>4. era2 = era
    BY <1>7
  <2> HIDE DEF era2
  <2>5. yoe2 = y
    BY <1>7, <2>4
  <2> HIDE DEF yoe2
  <2> QED
    BY <2>3, <2>4, <2>5, SMT
<1>10. DaysFromCivil(c.year, c.month, c.day) = era * 146097 + DaysBefore(y) + doy - 719468
  <2>1. y \div 4 \in Nat /\ y \div 100 \in Nat
    BY Quotients
  <2> QED
    BY <1>8, <1>9, <2>1 DEF DaysBefore
<1>11. DaysFromCivil(c.year, c.month, c.day) = d
  <2>1. DaysBefore(y) \in Nat
    BY <1>2, YearLength DEF YearEnds
  <2> QED
    BY <1>2, <1>10, <2>1
<1> QED
  BY <1>4, <1>11

LEMMA DatesAreRecords ==
  ASSUME NEW d
  PROVE  \E y, m, k : CivilFromDays(d) = [year |-> y, month |-> m, day |-> k]
<1>1. CivilFromDays(d) = [year |-> CivilFromDays(d).year, month |-> CivilFromDays(d).month,
                          day |-> CivilFromDays(d).day]
  BY DEF CivilFromDays
<1> QED
  BY <1>1, Zenon

LEMMA SecondOfDay ==
  ASSUME NEW s \in Nat, s < 86400
  PROVE  /\ s \div 3600 \in Nat /\ s \div 3600 <= 23
         /\ (s % 3600) \div 60 \in Nat /\ (s % 3600) \div 60 <= 59
         /\ s % 60 \in Nat /\ s % 60 <= 59
         /\ (s \div 3600) * 3600 + ((s % 3600) \div 60) * 60 + (s % 60) = s
<1> DEFINE q == s \div 3600
           r == s % 3600
           m == r \div 60
           x == s % 60
<1>1. q \in Nat /\ r \in Nat /\ r < 3600 /\ s = 3600 * q + r
  OBVIOUS
<1> HIDE DEF r
<1>2. m \in Nat /\ 60 * m <= r /\ r < 60 * m + 60
  BY <1>1
<1> HIDE DEF q, m
<1>3. x \in Nat /\ x <= 59 /\ x = r - 60 * m
  BY <1>1, <1>2
<1> HIDE DEF x
<1>4. q <= 23 /\ m <= 59 /\ q * 3600 + m * 60 + x = s
  BY <1>1, <1>2, <1>3
<1>5. /\ q \in Nat /\ q <= 23 /\ m \in Nat /\ m <= 59 /\ x \in Nat /\ x <= 59
      /\ q * 3600 + m * 60 + x = s
  BY <1>1, <1>2, <1>3, <1>4
<1> USE DEF q, r, m, x
<1> QED
  BY ONLY <1>5, SMT

LEMMA ReadBack ==
  ASSUME NEW d \in Nat, NEW s \in Nat, s < 86400
  PROVE  ParseRfc3339(FormatRfc3339(d, s)) = <<d, s>>
<1> DEFINE stamp == FormatRfc3339(d, s)
           c == CivilFromDays(d)
<1>1. stamp.civil = c /\ stamp.hour = s \div 3600 /\ stamp.minute = (s % 3600) \div 60 /\ stamp.second = s % 60
  BY DEF FormatRfc3339
<1>2. IsDate(c) /\ DaysFromCivil(c.year, c.month, c.day) = d
  BY DayAfter, CountedBack
<1> HIDE DEF c, stamp
<1>3. c.month \in 1..12 /\ c.day >= 1 /\ c.day <= DaysInMonth(c.year, c.month)
  <2>1. DaysInMonth(c.year, c.month) \in Nat
    BY <1>2 DEF IsDate, DaysInMonth
  <2> QED
    BY <1>2, <2>1 DEF IsDate
<1>4. stamp.hour <= 23 /\ stamp.minute <= 59 /\ stamp.second <= 59
  BY <1>1, SecondOfDay
<1>5. stamp.hour * 3600 + stamp.minute * 60 + stamp.second = s
  BY <1>1, SecondOfDay
<1>6. ParseRfc3339(stamp) =
        <<DaysFromCivil(c.year, c.month, c.day), stamp.hour * 3600 + stamp.minute * 60 + stamp.second>>
  BY <1>1, <1>3, <1>4 DEF ParseRfc3339
<1> QED
  BY <1>2, <1>5, <1>6, SMT DEF stamp

(* Where a walk begins is where the calendar is on that day.                           *)
LEMMA AnchorsAreDated ==
  /\ CivilFromDays(0) = [year |-> 1970, month |-> 1, day |-> 1]
  /\ CivilFromDays(10957) = [year |-> 2000, month |-> 1, day |-> 1]
  /\ CivilFromDays(47482) = [year |-> 2100, month |-> 1, day |-> 1]
<1>1. CivilFromDays(0) = [year |-> 1970, month |-> 1, day |-> 1]
  BY SMT DEF CivilFromDays
<1>2. CivilFromDays(10957) = [year |-> 2000, month |-> 1, day |-> 1]
  BY SMT DEF CivilFromDays
<1>3. CivilFromDays(47482) = [year |-> 2100, month |-> 1, day |-> 1]
  BY SMT DEF CivilFromDays
<1> QED
  BY <1>1, <1>2, <1>3

(* The walk keeps to the formula, which the two conversions are proved inverse of.        *)
WalkIsDated ==
  /\ day \in Nat /\ date = CivilFromDays(day)
  /\ second \in Seconds /\ walked \in 0..Span

LEMMA WalkGoesOn == CalendarSpec => []WalkIsDated
<1>1. CalendarInit => WalkIsDated
  <2> SUFFICES ASSUME CalendarInit PROVE WalkIsDated
    OBVIOUS
  <2>1. PICK start \in Starts : day = start.day /\ date = start.date
    BY DEF CalendarInit
  <2>2. start \in Anchors
    BY CalendarAssumption
  <2>3. day \in Nat /\ date = CivilFromDays(day)
    BY <2>1, <2>2, AnchorsAreDated DEF Anchors
  <2> QED
    BY <2>3, CalendarAssumption DEF CalendarInit, WalkIsDated
<1>2. WalkIsDated /\ [CalendarNext]_calVars => WalkIsDated'
  <2> SUFFICES ASSUME WalkIsDated, [CalendarNext]_calVars PROVE WalkIsDated'
    OBVIOUS
  <2>1. CASE UNCHANGED calVars
    BY <2>1 DEF WalkIsDated, calVars
  <2>2. CASE NextDay
    <3>1. /\ day' = day + 1 /\ second' = second /\ walked' = walked + 1 /\ walked < Span
          /\ date' = IF date.day < DaysInMonth(date.year, date.month)
                       THEN [date EXCEPT !.day = @ + 1]
                     ELSE IF date.month < 12
                       THEN [year |-> date.year, month |-> date.month + 1, day |-> 1]
                     ELSE [year |-> date.year + 1, month |-> 1, day |-> 1]
      BY <2>2 DEF NextDay
    <3>2. PICK y, m, k : date = [year |-> y, month |-> m, day |-> k]
      BY DatesAreRecords DEF WalkIsDated
    <3>3. date' = NextDate(date)
      <4>1. date.year = y /\ date.month = m /\ date.day = k
        BY <3>2
      <4>2. [date EXCEPT !.day = date.day + 1] = [year |-> y, month |-> m, day |-> k + 1]
        BY <3>2
      <4> QED
        BY <3>1, <4>1, <4>2 DEF NextDate
    <3>4. date' = CivilFromDays(day + 1)
      BY <3>3, DayAfter DEF WalkIsDated
    <3> QED
      BY <3>1, <3>4, CalendarAssumption DEF WalkIsDated
  <2> QED
    BY <2>1, <2>2 DEF CalendarNext
<1> QED
  BY <1>1, <1>2, PTL DEF CalendarSpec

THEOREM CalendarTyping == CalendarSpec => []CalendarTypeOK
<1>1. WalkIsDated => CalendarTypeOK
  BY DayAfter DEF WalkIsDated, CalendarTypeOK, IsDate
<1> QED
  BY <1>1, WalkGoesOn, PTL

THEOREM TimesAgree == CalendarSpec => []TimesRoundTrip
<1>1. WalkIsDated => TimesRoundTrip
  <2> SUFFICES ASSUME WalkIsDated PROVE TimesRoundTrip
    OBVIOUS
  <2>1. day \in Nat /\ date = CivilFromDays(day) /\ second \in Nat /\ second < 86400
    BY CalendarAssumption DEF WalkIsDated
  <2>2. FormatRfc3339(day, second).civil = date
    BY <2>1 DEF FormatRfc3339
  <2>3. ParseRfc3339(FormatRfc3339(day, second)) = <<day, second>>
    BY <2>1, ReadBack
  <2> QED
    BY <2>2, <2>3 DEF TimesRoundTrip
<1> QED
  BY <1>1, WalkGoesOn, PTL

(***************************************************************************)
(* The settings, for any fields in any number of files.                    *)
(***************************************************************************)
(* The fields of which it matters what they may hold.                                    *)
Told == {"endpoint", "reindex_debounce_secs", "reindex_max_wait_secs", "development_mode"}

LEMMA ToldValues ==
  /\ Told \subseteq AllFields
  /\ Values("endpoint") = {"blank", "url"} /\ Values("development_mode") = BOOLEAN
  /\ Values("reindex_debounce_secs") = 0..3 /\ Values("reindex_max_wait_secs") = 0..3
  /\ Default["endpoint"] = "blank" /\ Default["development_mode"] = FALSE
  /\ Default["reindex_debounce_secs"] = 1 /\ Default["reindex_max_wait_secs"] = 2
<1>1. Told \subseteq AllFields
  BY DEF Told, AllFields, Switch, Count, Identity
<1>2. Values("endpoint") = {"blank", "url"}
  BY Zenon DEF Values, Switch, Count, Fraction, Weight, Place
<1>3. Values("development_mode") = BOOLEAN
  BY Zenon DEF Values, Switch, Count, Fraction, Weight, Place
<1>4. Values("reindex_debounce_secs") = 0..3 /\ Values("reindex_max_wait_secs") = 0..3
  BY Zenon DEF Values, Switch, Count, Fraction, Weight, Place
<1>5. Default["endpoint"] = "blank"
  BY <1>1, Zenon DEF Told, Default, OffByDefault, Switch, Count, Fraction, Weight, Place
<1>6. Default["development_mode"] = FALSE
  BY <1>1, Zenon DEF Told, Default, OffByDefault, Switch, Count, Fraction, Weight, Place
<1>7. Default["reindex_debounce_secs"] = 1
  BY <1>1, Zenon DEF Told, Default, OffByDefault, Switch, Count, Fraction, Weight, Place
<1>8. Default["reindex_max_wait_secs"] = 2
  BY <1>1, Zenon DEF Told, Default, OffByDefault, Switch, Count, Fraction, Weight, Place
<1> QED
  BY <1>1, <1>2, <1>3, <1>4, <1>5, <1>6, <1>7, <1>8

(* A file sets fields of this instance, each to a value of its kind.                      *)
Stated(l) == DOMAIN stated[l] \subseteq Field /\ \A f \in DOMAIN stated[l] : stated[l][f] \in Values(f)

SettingsInv ==
  /\ DOMAIN stated = Layer
  /\ \A l \in Layer : Stated(l) /\ IsFiniteSet(DOMAIN stated[l])
  /\ section \in [Layer -> BOOLEAN]
  /\ session \in {"root", "below"}
  /\ SettingsMade <= MaxSettings

LEMMA SettingsStart == SettingsInit => SettingsInv
<1> SUFFICES ASSUME SettingsInit PROVE SettingsInv
  OBVIOUS
<1>1. \A l \in Layer : DOMAIN stated[l] = {}
  BY DEF SettingsInit
<1>2. SettingsMade = 0
  BY <1>1, FS_EmptySet DEF SettingsMade, Layer
<1>3. \A l \in Layer : Stated(l) /\ IsFiniteSet(DOMAIN stated[l])
  BY <1>1, FS_EmptySet DEF Stated
<1> QED
  BY <1>2, <1>3, SettingsAssumption DEF SettingsInit, SettingsInv

LEMMA SettingsKept == SettingsInv /\ [SettingsNext]_settingVars => SettingsInv'
<1> SUFFICES ASSUME SettingsInv, [SettingsNext]_settingVars PROVE SettingsInv'
  OBVIOUS
<1>1. ASSUME NEW l \in Layer, NEW f \in Field, NEW v \in Values(f), Write(l, f, v) PROVE SettingsInv'
  <2> DEFINE after == Over([g \in {f} |-> v], stated[l])
  <2>1. /\ DOMAIN after = {f} \union DOMAIN stated[l] /\ after[f] = v
        /\ \A x \in DOMAIN stated[l] : x # f => after[x] = stated[l][x]
    BY DEF Over
  <2> HIDE DEF after
  <2>2. /\ DOMAIN stated' = Layer /\ stated'[l] = after
        /\ \A k \in Layer : k # l => stated'[k] = stated[k]
        /\ UNCHANGED <<section, session>> /\ SettingsMade < MaxSettings
    BY <1>1 DEF Write, after, SettingsInv
  <2>3. Stated(l)'
    BY <2>1, <2>2 DEF Stated, SettingsInv
  <2>4. IsFiniteSet(DOMAIN stated'[l])
        /\ Cardinality(DOMAIN stated'[l]) <= Cardinality(DOMAIN stated[l]) + 1
    <3> DEFINE D == DOMAIN stated[l]
    <3>1. IsFiniteSet(D)
      BY DEF SettingsInv
    <3> HIDE DEF D
    <3>2. /\ IsFiniteSet(D \union {f}) /\ Cardinality(D) \in Nat
          /\ Cardinality(D \union {f}) = Cardinality(D) \/ Cardinality(D \union {f}) = Cardinality(D) + 1
      BY <3>1, FS_AddElement, FS_CardinalityType
    <3>3. DOMAIN stated'[l] = D \union {f}
      BY <2>1, <2>2 DEF D
    <3> QED
      BY <3>2, <3>3 DEF D
  <2>5. \A k \in Layer : Cardinality(DOMAIN stated[k]) \in Nat /\ Cardinality(DOMAIN stated'[k]) \in Nat
    BY <2>2, <2>4, FS_CardinalityType DEF SettingsInv
  <2>6. SettingsMade' <= SettingsMade + 1
    BY <2>2, <2>4, <2>5 DEF SettingsMade, Layer
  <2>7. SettingsMade \in Nat /\ SettingsMade' \in Nat
    BY <2>5 DEF SettingsMade, Layer
  <2>8. \A k \in Layer : Stated(k)' /\ IsFiniteSet(DOMAIN stated'[k])
    BY <2>2, <2>3, <2>4 DEF SettingsInv, Stated
  <2> QED
    BY <2>2, <2>6, <2>7, <2>8, SettingsAssumption DEF SettingsInv
<1>2. CASE UNCHANGED settingVars
  BY <1>2 DEF settingVars, SettingsInv, Stated, SettingsMade
<1> QED
  BY <1>1, <1>2 DEF SettingsNext

(* What holds is what the project says, or the user where it is silent, or the default.     *)
LEMMA ConfigIs ==
  ASSUME SettingsInv
  PROVE  /\ \A f \in Told : Config[f] \in Values(f)
         /\ \A f \in DOMAIN Partial("project") : Config[f] = stated["project"][f]
         /\ \A f \in DOMAIN Partial("global") \ DOMAIN Partial("project") : Config[f] = stated["global"][f]
         /\ \A f \in AllFields \ (DOMAIN Partial("global") \union DOMAIN Partial("project")) :
              Config[f] = Default[f]
<1> DEFINE G == Partial("global")
<1> DEFINE P == Partial("project")
<1>1. /\ \A f \in DOMAIN P : P[f] = stated["project"][f] /\ P[f] \in Values(f)
      /\ \A f \in DOMAIN G : G[f] = stated["global"][f] /\ G[f] \in Values(f)
  BY DEF SettingsInv, Stated, Partial, Layer
<1>2. DOMAIN Default = AllFields
  BY DEF Default
<1>3. Config = Over(Over(P, G), Default)
  BY DEF Config, Merge
<1> HIDE DEF G, P
<1>4. \A f \in DOMAIN P : Config[f] = P[f]
  BY <1>3 DEF Over
<1>5. \A f \in DOMAIN G \ DOMAIN P : Config[f] = G[f]
  BY <1>3 DEF Over
<1>6. \A f \in AllFields \ (DOMAIN G \union DOMAIN P) : Config[f] = Default[f]
  BY <1>2, <1>3 DEF Over
<1>7. \A f \in Told : Default[f] \in Values(f)
  <2>1. 1 \in 0..3 /\ 2 \in 0..3
    OBVIOUS
  <2> QED
    BY <2>1, ToldValues, Zenon DEF Told
<1>8. \A f \in Told : Config[f] \in Values(f)
  BY <1>1, <1>4, <1>5, <1>6, <1>7, ToldValues
<1> QED
  BY <1>1, <1>4, <1>5, <1>6, <1>8 DEF G, P

LEMMA AcceptedWhole == SettingsInv => AcceptedIsWhole
<1> SUFFICES ASSUME SettingsInv, Accepted PROVE AcceptedIsWhole
  BY DEF AcceptedIsWhole
<1>1. Validate(Config)
  BY DEF Accepted
<1>2. \A f \in Told : Config[f] \in Values(f)
  BY ConfigIs
<1>3. \A f \in DOMAIN Partial("project") : Config[f] = stated["project"][f]
  BY ConfigIs
<1> DEFINE c == Config
<1> HIDE DEF c
<1>4. /\ c["endpoint"] \in {"blank", "url"}
      /\ c["reindex_debounce_secs"] \in 0..3 /\ c["reindex_max_wait_secs"] \in 0..3
  <2>1. "endpoint" \in Told /\ "reindex_debounce_secs" \in Told /\ "reindex_max_wait_secs" \in Told
    BY DEF Told
  <2> QED
    BY <1>2, <2>1, ToldValues, Zenon DEF c
<1>5. Validate(c)
  BY <1>1 DEF c
<1>6. c["provider"] = "bundled" => <<c["model"], c["dimensions"]>> \in {<<"gte", 768>>, <<"bge", 384>>}
  <2> SUFFICES ASSUME c["provider"] = "bundled"
               PROVE  <<c["model"], c["dimensions"]>> \in {<<"gte", 768>>, <<"bge", 384>>}
    OBVIOUS
  <2>1. DOMAIN ModelWidth = {"gte", "bge"} /\ ModelWidth["gte"] = 768 /\ ModelWidth["bge"] = 384
    BY DEF ModelWidth
  <2>2. c["model"] \in DOMAIN ModelWidth /\ ModelWidth[c["model"]] = c["dimensions"]
    BY <1>5 DEF Validate
  <2> QED
    BY <2>1, <2>2
<1>7. c["provider"] = "http" => c["endpoint"] = "url"
  BY <1>4, <1>5 DEF Validate
<1>8. 0 < c["reindex_debounce_secs"] /\ c["reindex_debounce_secs"] <= c["reindex_max_wait_secs"]
  <2>1. c["reindex_debounce_secs"] # 0 /\ c["reindex_max_wait_secs"] >= c["reindex_debounce_secs"]
    BY <1>5 DEF Validate, Count
  <2> QED
    BY <1>4, <2>1
<1>9. {w \in Weight : c[w] = "positive"} # {}
  BY <1>5 DEF Validate
<1> QED
  BY <1>3, <1>6, <1>7, <1>8, <1>9 DEF AcceptedIsWhole, c

LEMMA LauncherAgrees == SettingsInv => DevelopmentModeAgrees
<1> SUFFICES ASSUME SettingsInv, session = "root", \A l \in Layer : ~section[l]
             PROVE  DevelopmentModeOn <=> Config["development_mode"]
  BY DEF DevelopmentModeAgrees
<1> DEFINE key == "development_mode"
<1>1. key \in AllFields /\ Values(key) = BOOLEAN
  BY ToldValues DEF Told
<1>2. \A l \in Layer : DOMAIN Partial(l) = DOMAIN stated[l]
  BY DEF Partial
<1>3. \A l \in {"global", "project"} : DevValue(l) = IF key \in DOMAIN stated[l] THEN {stated[l][key]} ELSE {}
  BY DEF DevValue
<1>4. \A l \in Layer : key \in DOMAIN stated[l] => stated[l][key] \in BOOLEAN
  BY <1>1 DEF SettingsInv, Stated
<1>5. CASE key \in DOMAIN stated["project"]
  <2>1. Config[key] = stated["project"][key]
    BY <1>2, <1>5, ConfigIs DEF Layer
  <2>2. DevValue("project") = {stated["project"][key]}
    BY <1>3, <1>5
  <2> QED
    BY <1>4, <1>5, <2>1, <2>2 DEF DevelopmentModeOn, Layer
<1>6. CASE key \notin DOMAIN stated["project"] /\ key \in DOMAIN stated["global"]
  <2>1. Config[key] = stated["global"][key]
    BY <1>2, <1>6, ConfigIs DEF Layer
  <2>2. DevValue("project") = {} /\ DevValue("global") = {stated["global"][key]}
    BY <1>3, <1>6
  <2> QED
    BY <1>4, <1>6, <2>1, <2>2 DEF DevelopmentModeOn, Layer
<1>7. CASE key \notin DOMAIN stated["project"] /\ key \notin DOMAIN stated["global"]
  <2>1. Config[key] = FALSE
    BY <1>1, <1>2, <1>7, ConfigIs, ToldValues DEF Layer
  <2>2. DevValue("project") = {} /\ DevValue("global") = {}
    BY <1>3, <1>7
  <2> QED
    BY <2>1, <2>2 DEF DevelopmentModeOn
<1> QED
  BY <1>5, <1>6, <1>7

(* The files set known fields to values of their kind, no more than there may be.           *)
THEOREM SettingsTyping == SettingsSpec => []SettingsTypeOK
<1>1. SettingsInv => SettingsTypeOK
  BY DEF SettingsInv, Stated, SettingsTypeOK
<1> QED
  BY <1>1, SettingsStart, SettingsKept, PTL DEF SettingsSpec

(* An accepted configuration is right as a whole, whatever the two files set, and the       *)
(* launcher reads the same development mode from them.                                  *)
THEOREM SettledAlike == SettingsSpec => []SettingsAgree
<1>1. SettingsInv => SettingsAgree
  BY AcceptedWhole, LauncherAgrees DEF SettingsAgree
<1> QED
  BY <1>1, SettingsStart, SettingsKept, PTL DEF SettingsSpec

(***************************************************************************)
(* The similarity floor, for any files, scores, percentile and sample.     *)
(***************************************************************************)
(* At most one floor is kept, and what is scored are files there may be.                   *)
FloorInv ==
  /\ \E n \in Nat : scored \in [1..n -> FileShape]
  /\ configured \in 0..TopSimilarity
  /\ \A floor \in floorKept : floor \in 0..TopSimilarity /\ floorKept = {floor}

LEMMA FloorNumbers ==
  /\ TopSimilarity \in Nat /\ MaxSeedFiles \in Nat \ {0}
  /\ Percentile \in Nat /\ Percentile # 0
  /\ \A x \in 0..TopSimilarity : x \in Nat
<1>1. TopSimilarity \in Nat /\ MaxSeedFiles \in Nat \ {0}
  BY FloorAssumption
<1>2. Percentile \in 1..99
  BY FloorAssumption, Zenon
<1> QED
  BY <1>1, <1>2

LEMMA NotEmpty ==
  ASSUME NEW T, NEW s \in Seq(T), s # <<>>
  PROVE  Len(s) \in Nat /\ Len(s) # 0 /\ DOMAIN s = 1..Len(s) /\ \A i \in 1..Len(s) : s[i] \in T
OBVIOUS

LEMMA Divided ==
  ASSUME NEW n \in Nat, NEW d \in Nat \ {0}
  PROVE  /\ n \div d \in Nat /\ n % d \in Nat /\ d * (n \div d) \in Nat
         /\ n = (d * (n \div d)) + (n % d)
<1> DEFINE q == n \div d
           r == n % d
<1>1. q \in Nat /\ r \in Nat /\ n = (d * q) + r
  OBVIOUS
<1> HIDE DEF q, r
<1>2. d * q \in Nat
  BY <1>1
<1> QED
  BY <1>1, <1>2 DEF q, r

(* The greatest of some scores.                                                      *)
LEMMA GreatestScore ==
  ASSUME NEW S \in SUBSET (0..TopSimilarity), S # {}
  PROVE  Max(S) \in S /\ \A x \in S : x <= Max(S)
<1>1. PICK k \in S : \A j \in S : j <= k
  BY FloorAssumption, LastOf
<1>2. \A j \in S : k >= j
  BY <1>1, FloorAssumption
<1>3. Max(S) \in S /\ \A x \in S : Max(S) >= x
  BY <1>1, <1>2 DEF Max
<1> QED
  BY <1>3, FloorAssumption

LEMMA OneOf == ASSUME NEW x PROVE Max({x}) = x
BY DEF Max

LEMMA SeedsAreScored ==
  ASSUME NEW sample \in FileShape PROVE SeedScore(sample) \in 0..TopSimilarity
<1>1. /\ sample.grammar \in BOOLEAN
      /\ sample.chunks \in Seq(0..TopSimilarity) /\ sample.chunks # <<>>
  BY FloorAssumption
<1> DEFINE n == Len(sample.chunks)
<1>2. n \in Nat /\ n # 0 /\ DOMAIN sample.chunks = 1..n
      /\ \A i \in 1..n : sample.chunks[i] \in 0..TopSimilarity
  BY <1>1, NotEmpty
<1> HIDE DEF n
<1>3. CASE sample.grammar
  <2>1. (n \div 2) + 1 \in 1..n
    BY <1>2
  <2> QED
    BY <1>2, <1>3, <2>1 DEF SeedScore, n
<1>4. CASE ~sample.grammar
  <2> DEFINE S == {sample.chunks[i] : i \in DOMAIN sample.chunks}
  <2>1. S \in SUBSET (0..TopSimilarity)
    BY <1>2
  <2>2. sample.chunks[1] \in S
    BY <1>2
  <2>3. SeedScore(sample) = Max(S)
    BY <1>4 DEF SeedScore
  <2> HIDE DEF S
  <2> QED
    BY <2>1, <2>2, <2>3, GreatestScore
<1> QED
  BY <1>3, <1>4

(* Division, rounded up.                                                             *)
LEMMA RoundedUp ==
  ASSUME NEW n \in Nat, NEW d \in Nat \ {0}
  PROVE  /\ DivCeil(n, d) \in Nat
         /\ n <= DivCeil(n, d) * d
         /\ n # 0 => DivCeil(n, d) # 0
         /\ DivCeil(n, d) * d < n + d
         /\ n <= d => DivCeil(n, d) <= 1
<1> DEFINE q == (n + d - 1) \div d
           r == (n + d - 1) % d
<1>1. n + d - 1 \in Nat
  OBVIOUS
<1>2. q \in Nat /\ r \in Nat /\ r < d /\ n + d - 1 = d * q + r
  BY <1>1
<1>3. DivCeil(n, d) = q
  BY DEF DivCeil
<1> HIDE DEF q, r
<1>4. d * q \in Nat /\ q * d = d * q
  BY <1>2
<1>5. n <= d * q /\ d * q < n + d
  BY <1>2, <1>4
<1>6. n # 0 => q # 0
  BY <1>2, <1>4
<1>7. n <= d => q <= 1
  <2> SUFFICES ASSUME n <= d, q >= 2 PROVE FALSE
    BY <1>2
  <2>1. d * q >= d * 2
    BY <1>2
  <2> QED
    BY <1>4, <1>5, <2>1
<1> QED
  BY <1>2, <1>3, <1>4, <1>5, <1>6, <1>7

(* The first file is asked, every Stride-th, and no more than may be.                    *)
LEMMA SampledIsASample ==
  ASSUME NEW N \in Nat, scored \in [1..N -> FileShape]
  PROVE  /\ IsFiniteSet(Sampled) /\ Cardinality(Sampled) \in Nat /\ Sampled \in SUBSET (1..N)
         /\ Cardinality(Sampled) <= MaxSeedFiles
         /\ N <= MaxSeedFiles => Sampled = DOMAIN scored
         /\ N # 0 => 1 \in Sampled
<1> DEFINE M == MaxSeedFiles
           d == DivCeil(N, M)
<1>1. M \in Nat \ {0}
  BY FloorAssumption
<1>2. Len(scored) = N /\ DOMAIN scored = 1..N
  OBVIOUS
<1>3. d \in Nat /\ N <= d * M /\ (N <= M => d <= 1)
  BY <1>1, RoundedUp
<1>4. Stride \in Nat \ {0} /\ d <= Stride /\ (d <= 1 => Stride = 1)
  <2>1. Stride = Max({1, d})
    BY <1>2 DEF Stride
  <2> HIDE DEF d
  <2>2. CASE d <= 1
    <3>1. \E x \in {1, d} : \A y \in {1, d} : x >= y
      BY <1>3, <2>2
    <3>2. Max({1, d}) \in {1, d} /\ \A y \in {1, d} : Max({1, d}) >= y
      BY <3>1 DEF Max
    <3> QED
      BY <1>3, <2>1, <2>2, <3>2
  <2>3. CASE d > 1
    <3>1. \E x \in {1, d} : \A y \in {1, d} : x >= y
      BY <1>3, <2>3
    <3>2. Max({1, d}) \in {1, d} /\ \A y \in {1, d} : Max({1, d}) >= y
      BY <3>1 DEF Max
    <3> QED
      BY <1>3, <2>1, <2>3, <3>2
  <2> QED
    BY <1>3, <2>2, <2>3
<1>5. N <= Stride * M
  <2> HIDE DEF d
  <2>1. d * M <= Stride * M
    BY <1>1, <1>3, <1>4
  <2>2. d * M \in Nat /\ Stride * M \in Nat
    BY <1>1, <1>3, <1>4
  <2> QED
    BY <1>3, <2>1, <2>2
<1> HIDE DEF d
<1>6. Sampled = {f \in 1..N : (f - 1) % Stride = 0}
  BY <1>2 DEF Sampled
<1> DEFINE place == [f \in Sampled |-> ((f - 1) \div Stride) + 1]
<1>7. ASSUME NEW f \in Sampled
      PROVE  /\ f \in 1..N /\ f - 1 \in Nat
             /\ (f - 1) \div Stride \in Nat /\ f - 1 = Stride * ((f - 1) \div Stride)
  <2>1. f \in 1..N /\ f - 1 \in Nat /\ (f - 1) % Stride = 0
    BY <1>6
  <2> DEFINE e == f - 1
  <2> HIDE DEF e
  <2>2. e \in Nat /\ e % Stride = 0
    BY <2>1 DEF e
  <2>3. /\ e \div Stride \in Nat /\ e = (Stride * (e \div Stride)) + (e % Stride)
        /\ Stride * (e \div Stride) \in Nat
    BY <1>4, <2>2, Divided
  <2>4. e = Stride * (e \div Stride)
    <3> DEFINE w == Stride * (e \div Stride)
    <3>1. w \in Nat /\ e = w + 0
      BY <2>2, <2>3, Zenon
    <3> HIDE DEF w
    <3>2. e = w
      BY <3>1
    <3> QED
      BY <3>2 DEF w
  <2>5. (f - 1) \div Stride \in Nat /\ f - 1 = Stride * ((f - 1) \div Stride)
    BY <2>3, <2>4, Zenon DEF e
  <2> QED
    BY <2>1, <2>5
<1>8. ASSUME NEW f \in Sampled PROVE place[f] \in 1..M
  <2> DEFINE q == (f - 1) \div Stride
  <2>1. q \in Nat /\ f - 1 = Stride * q /\ f \in 1..N
    BY <1>7
  <2>2. place[f] = q + 1
    OBVIOUS
  <2> HIDE DEF q, place
  <2>3. q < M
    <3> SUFFICES ASSUME M <= q PROVE FALSE
      BY <1>1, <2>1
    <3>1. Stride * M <= Stride * q
      BY <1>1, <1>4, <2>1
    <3>2. Stride * M \in Nat /\ Stride * q \in Nat
      BY <1>1, <1>4, <2>1
    <3> QED
      BY <1>5, <2>1, <3>1, <3>2
  <2> QED
    BY <1>1, <2>1, <2>2, <2>3
<1>9. ASSUME NEW f \in Sampled, NEW g \in Sampled, place[f] = place[g] PROVE f = g
  <2>1. (f - 1) \div Stride = (g - 1) \div Stride
    <3>1. place[f] = ((f - 1) \div Stride) + 1 /\ place[g] = ((g - 1) \div Stride) + 1
      OBVIOUS
    <3>2. (f - 1) \div Stride \in Nat /\ (g - 1) \div Stride \in Nat
      BY <1>7
    <3> DEFINE x == (f - 1) \div Stride
               y == (g - 1) \div Stride
    <3>3. x \in Nat /\ y \in Nat /\ x + 1 = y + 1
      BY <1>9, <3>1, <3>2, Zenon
    <3> HIDE DEF x, y
    <3>4. x = y
      BY <3>3
    <3> QED
      BY <3>4 DEF x, y
  <2>2. f - 1 = g - 1
    BY <1>7, <2>1
  <2>3. f \in Nat /\ g \in Nat
    BY <1>7
  <2> QED
    BY <2>2, <2>3
<1>10. IsFiniteSet(Sampled) /\ Cardinality(Sampled) <= M
  <2>1. IsFiniteSet(1..M) /\ Cardinality(1..M) = M
    BY <1>1, FS_Interval
  <2>2. place \in Injection(Sampled, 1..M)
    BY <1>8, <1>9 DEF Injection, IsInjective
  <2> QED
    BY <2>1, <2>2, FS_Injection
<1>11. N <= M => Sampled = 1..N
  <2> SUFFICES ASSUME N <= M PROVE Sampled = 1..N
    OBVIOUS
  <2>1. Stride = 1
    BY <1>3, <1>4
  <2>2. \A f \in 1..N : (f - 1) % 1 = 0
    OBVIOUS
  <2> QED
    BY <1>6, <2>1, <2>2
<1>12. N # 0 => 1 \in Sampled
  <2>1. 0 % Stride = 0
    BY <1>4
  <2>2. 1 - 1 = 0
    OBVIOUS
  <2>3. N # 0 => 1 \in 1..N
    OBVIOUS
  <2> QED
    BY <1>6, <2>1, <2>2, <2>3
<1> QED
  BY <1>2, <1>6, <1>10, <1>11, <1>12, FS_CardinalityType

(* Fewer than Percentile per cent of n are before the rank, which is one of n.             *)
LEMMA RankIsBelow ==
  ASSUME NEW n \in Nat \ {0}
  PROVE  Rank(n) \in 0..(n - 1) /\ 100 * Rank(n) < Percentile * n
<1> DEFINE m == n * Percentile
           d == DivCeil(m, 100)
<1>1. Percentile \in Nat /\ Percentile # 0
  BY FloorNumbers
<1>2. m \in Nat /\ m # 0 /\ m = Percentile * n
  <2>1. n * Percentile \in Nat /\ n * Percentile = Percentile * n
    BY <1>1
  <2>2. n * Percentile >= n * 1
    BY <1>1
  <2> QED
    BY <2>1, <2>2
<1> HIDE DEF m
<1>3. d \in Nat /\ d # 0 /\ d * 100 < m + 100
  <2>1. 100 \in Nat \ {0}
    OBVIOUS
  <2> HIDE DEF d
  <2>2. DivCeil(m, 100) \in Nat /\ DivCeil(m, 100) # 0 /\ DivCeil(m, 100) * 100 < m + 100
    BY <1>2, <2>1, RoundedUp
  <2> QED
    BY <2>2 DEF d
<1> HIDE DEF d
<1>4. Rank(n) = Min({d - 1, n - 1})
  BY DEF Rank, d, m
<1>5. d - 1 \in Nat /\ n - 1 \in Nat
  BY <1>3
<1>6. \E x \in {d - 1, n - 1} : \A y \in {d - 1, n - 1} : x =< y
  <2>1. d - 1 <= n - 1 \/ n - 1 <= d - 1
    BY <1>5
  <2> QED
    BY <1>5, <2>1
<1>7. Rank(n) \in {d - 1, n - 1} /\ \A y \in {d - 1, n - 1} : Rank(n) <= y
  BY <1>4, <1>6 DEF Min
<1>8. Rank(n) \in Nat /\ Rank(n) <= d - 1 /\ Rank(n) <= n - 1
  BY <1>5, <1>7
<1> QED
  BY <1>2, <1>3, <1>8

(* The files asked have places of their own, in the order of their scores.                *)
LEMMA ScoresAreSorted ==
  ASSUME NEW N \in Nat, scored \in [1..N -> FileShape]
  PROVE  /\ \A f \in Sampled : SeedScore(scored[f]) \in 0..TopSimilarity
         /\ \A n \in 0..(Cardinality(Sampled) - 1) : \E f \in Sampled : Cardinality(Ahead(f)) = n
<1> DEFINE S == Sampled
           before == [f \in S |-> Ahead(f)]
           rank == [f \in S |-> 1 + Cardinality(Ahead(f))]
           score == [f \in S |-> SeedScore(scored[f])]
<1>1. IsFiniteSet(S) /\ Cardinality(S) \in Nat /\ S \in SUBSET (1..N)
  BY SampledIsASample
<1>2. \A f \in S : SeedScore(scored[f]) \in 0..TopSimilarity
  BY <1>1, SeedsAreScored
<1>3. \A f \in S : score[f] \in Nat /\ f \in Nat
  BY <1>1, <1>2, FloorAssumption
<1>4. \A f \in S : Ahead(f) = {g \in S : score[g] < score[f] \/ (score[g] = score[f] /\ g < f)}
  BY DEF Ahead
<1> HIDE DEF score
<1>5. AreRanks(rank, S, before)
  <2>1. before \in [S -> SUBSET S]
    BY <1>4
  <2>2. /\ \A i \in S : i \notin before[i]
        /\ \A i, j \in S : i = j \/ i \in before[j] \/ j \in before[i]
        /\ \A i, j, k \in S : i \in before[j] /\ j \in before[k] => i \in before[k]
    BY <1>3, <1>4
  <2>3. \A i \in S : Ahead(i) \in SUBSET S
    BY <1>4
  <2>4. \A i \in S : Cardinality(Ahead(i)) \in Nat
    BY <1>1, <2>3, FS_Subset, FS_CardinalityType
  <2>5. rank \in [S -> Nat]
    BY <2>4
  <2>6. \A i \in S : rank[i] = 1 + Cardinality(before[i])
    OBVIOUS
  <2> HIDE DEF S, before, rank
  <2> QED
    BY <1>1, <2>1, <2>2, <2>5, <2>6 DEF AreRanks
<1>6. EachHasItsOwn(rank, S)
  <2> HIDE DEF S, before, rank
  <2> QED
    BY <1>5, RanksAreTaken
<1>7. ASSUME NEW n \in 0..(Cardinality(S) - 1) PROVE \E f \in S : Cardinality(Ahead(f)) = n
  <2>1. n + 1 \in 1..Cardinality(S)
    BY <1>1
  <2>2. PICK f \in S : rank[f] = n + 1
    <3> HIDE DEF S, rank
    <3> QED
      BY <1>6, <2>1 DEF EachHasItsOwn
  <2>3. rank[f] = 1 + Cardinality(Ahead(f)) /\ Ahead(f) \in SUBSET S
    BY <1>4
  <2>4. Cardinality(Ahead(f)) \in Nat
    BY <1>1, <2>3, FS_Subset, FS_CardinalityType
  <2>5. n \in Nat
    BY <1>1
  <2>6. Cardinality(Ahead(f)) = n
    BY <2>2, <2>3, <2>4, <2>5
  <2> QED
    BY <2>6
<1> QED
  BY <1>2, <1>7

(* The files that lose their hints at a cut.                                           *)
CutOff(cut) == {f \in Sampled : SeedScore(scored[f]) < cut}

LEMMA AFloorIsTaken ==
  ASSUME FloorInv, UpdateFloor, floorKept' # {}
  PROVE  \E f \in Sampled :
           LET floor == SeedScore(scored[f]) IN
             /\ floorKept' = {floor} /\ floor \in 0..TopSimilarity
             /\ 100 * Cardinality(CutOff(floor)) < Percentile * Cardinality(Sampled)
<1>1. PICK N \in Nat : scored \in [1..N -> FileShape]
  BY DEF FloorInv
<1> DEFINE n == Cardinality(Sampled)
<1>2. floorKept' = {BestScores[Rank(Len(BestScores)) + 1]} /\ Len(scored) >= MinFloorFiles
  <2>1. floorKept' = CorpusFloor /\ CorpusFloor # {}
    BY DEF UpdateFloor
  <2>2. Len(scored) \in Nat /\ MinFloorFiles \in Nat
    BY <1>1, FloorAssumption
  <2> QED
    BY <2>1, <2>2 DEF CorpusFloor
<1>3. IsFiniteSet(Sampled) /\ n \in Nat \ {0}
  <2>1. N # 0
    BY <1>1, <1>2, FloorAssumption
  <2>2. IsFiniteSet(Sampled) /\ n \in Nat /\ 1 \in Sampled
    BY <1>1, <2>1, SampledIsASample
  <2> QED
    BY <2>2, FS_EmptySet
<1>4. Len(BestScores) = n
  BY <1>3 DEF BestScores
<1> DEFINE r == Rank(n)
           f == CHOOSE f \in Sampled : Cardinality(Ahead(f)) = (r + 1) - 1
           floor == SeedScore(scored[f])
<1>5. r \in 0..(n - 1) /\ 100 * r < Percentile * n
  BY <1>3, RankIsBelow
<1>6. f \in Sampled /\ Cardinality(Ahead(f)) = r
  <2>1. \E g \in Sampled : Cardinality(Ahead(g)) = r
    BY <1>1, <1>5, ScoresAreSorted
  <2>2. (r + 1) - 1 = r
    BY <1>5
  <2> HIDE DEF r
  <2>3. \E g \in Sampled : Cardinality(Ahead(g)) = (r + 1) - 1
    BY <2>1, <2>2
  <2>4. f \in Sampled /\ Cardinality(Ahead(f)) = (r + 1) - 1
    BY <2>3, Zenon
  <2> QED
    BY <2>2, <2>4
<1>7. floorKept' = {floor}
  <2>1. r + 1 \in 1..n
    BY <1>3, <1>5
  <2> HIDE DEF r
  <2>2. BestScores[r + 1] = floor
    BY <2>1, Zenon DEF BestScores
  <2>3. Rank(Len(BestScores)) = r
    BY <1>4, Zenon DEF r
  <2> HIDE DEF floor, n
  <2> QED
    BY <1>2, <2>2, <2>3, Zenon
<1>8. floor \in 0..TopSimilarity
  BY <1>1, <1>6, ScoresAreSorted
<1>9. Cardinality(CutOff(floor)) <= r /\ Cardinality(CutOff(floor)) \in Nat
  <2>1. CutOff(floor) \in SUBSET Ahead(f) /\ Ahead(f) \in SUBSET Sampled
    BY DEF CutOff, Ahead
  <2>2. IsFiniteSet(Ahead(f))
    BY <1>3, <2>1, FS_Subset
  <2> QED
    BY <1>6, <2>1, <2>2, FS_Subset, FS_CardinalityType
<1>10. 100 * Cardinality(CutOff(floor)) < Percentile * n
  <2> HIDE DEF r, floor, n
  <2>1. Percentile * n \in Nat
    BY <1>3, FloorNumbers
  <2>2. 0..(n - 1) \subseteq Nat
    OBVIOUS
  <2>3. r \in Nat
    BY <1>5, <2>2
  <2> QED
    BY <1>5, <1>9, <2>1, <2>3
<1> QED
  BY <1>6, <1>7, <1>8, <1>10

(* A floor above the setting or below it: the hints are lost that either cuts.             *)
LEMMA EffectiveIsBoth ==
  ASSUME FloorInv, UpdateFloor, NEW floor \in 0..TopSimilarity, floorKept' = {floor}
  PROVE  CutOff(EffectiveFloor') =
           CutOff(floor) \cup (IF configured = DefaultFloor THEN {} ELSE CutOff(configured))
<1>1. PICK N \in Nat : scored \in [1..N -> FileShape]
  BY DEF FloorInv
<1>2. configured' = configured /\ configured \in 0..TopSimilarity
  BY DEF UpdateFloor, FloorInv
<1>3. \A f \in Sampled : SeedScore(scored[f]) \in Nat
  BY <1>1, ScoresAreSorted, FloorNumbers
<1>4. CASE configured = DefaultFloor
  <2>1. EffectiveFloor' = floor
    BY <1>2, <1>4, OneOf DEF EffectiveFloor
  <2> QED
    BY <1>4, <2>1
<1>5. CASE configured # DefaultFloor
  <2> DEFINE S == {floor} \cup {configured}
  <2>1. EffectiveFloor' = Max(S)
    BY <1>2, <1>5 DEF EffectiveFloor
  <2>2. S \in SUBSET (0..TopSimilarity) /\ S # {}
    BY <1>2
  <2>3. Max(S) \in S /\ \A x \in S : x <= Max(S)
    <3> HIDE DEF S
    <3> QED
      BY <2>2, GreatestScore
  <2>4. Max(S) \in Nat /\ floor \in Nat /\ configured \in Nat
    BY <1>2, <2>3, FloorAssumption
  <2>5. \A x \in Nat : x < Max(S) <=> x < floor \/ x < configured
    BY <2>3, <2>4
  <2>6. CutOff(Max(S)) = CutOff(floor) \cup CutOff(configured)
    <3> HIDE DEF S
    <3> QED
      BY <1>3, <2>5 DEF CutOff
  <2> QED
    BY <1>5, <2>1, <2>6
<1> QED
  BY <1>4, <1>5

(* What an update promises.                                                           *)
LEMMA ShareKept ==
  ASSUME FloorInv, UpdateFloor, floorKept' # {}
  PROVE  LET floor == Max(floorKept')
         IN  /\ 100 * Cardinality(CutOff(floor)) < Percentile * Cardinality(Sampled)
             /\ \E f \in Sampled : SeedScore(scored[f]) = floor
             /\ Cardinality(Sampled) <= MaxSeedFiles
             /\ Len(scored) <= MaxSeedFiles => Sampled = DOMAIN scored
             /\ CutOff(EffectiveFloor') =
                  CutOff(floor) \cup (IF configured = DefaultFloor THEN {} ELSE CutOff(configured))
<1>1. PICK N \in Nat : scored \in [1..N -> FileShape]
  BY DEF FloorInv
<1>2. PICK f \in Sampled :
        LET floor == SeedScore(scored[f]) IN
          /\ floorKept' = {floor} /\ floor \in 0..TopSimilarity
          /\ 100 * Cardinality(CutOff(floor)) < Percentile * Cardinality(Sampled)
  BY AFloorIsTaken
<1> DEFINE floor == SeedScore(scored[f])
<1>3. Max(floorKept') = floor
  BY <1>2, OneOf
<1>4. Len(scored) = N
  BY <1>1
<1> QED
  BY <1>1, <1>2, <1>3, <1>4, SampledIsASample, EffectiveIsBoth

LEMMA FloorGoesOn == FloorSpec => []FloorInv
<1>1. FloorInit => FloorInv
  <2> SUFFICES ASSUME FloorInit PROVE FloorInv
    OBVIOUS
  <2>1. 0..MaxFiles \subseteq Nat
    BY FloorAssumption
  <2> QED
    BY <2>1 DEF FloorInit, FloorInv
<1>2. FloorInv /\ [FloorNext]_floorVars => FloorInv'
  <2> SUFFICES ASSUME FloorInv, [FloorNext]_floorVars PROVE FloorInv'
    OBVIOUS
  <2>1. PICK N \in Nat : scored \in [1..N -> FileShape]
    BY DEF FloorInv
  <2>2. CASE UpdateFloor
    <3>1. scored' = scored /\ configured' = configured
      BY <2>2 DEF UpdateFloor
    <3>2. CASE floorKept' = {}
      BY <3>1, <3>2 DEF FloorInv
    <3>3. CASE floorKept' # {}
      <4>1. PICK v \in 0..TopSimilarity : floorKept' = {v}
        BY <2>2, <3>3, AFloorIsTaken
      <4> QED
        BY <3>1, <4>1 DEF FloorInv
    <3> QED
      BY <3>2, <3>3
  <2>3. ASSUME NEW f \in DOMAIN scored, Forget(f) PROVE FloorInv'
    <3>1. f \in 1..N /\ Len(scored) = N
      BY <2>1
    <3>2. scored' = [k \in 1..(N - 1) |-> scored[IF k < f THEN k ELSE k + 1]]
      BY <2>3, <3>1 DEF Forget
    <3>3. N - 1 \in Nat /\ \A k \in 1..(N - 1) : (IF k < f THEN k ELSE k + 1) \in 1..N
      BY <3>1
    <3>4. scored' \in [1..(N - 1) -> FileShape]
      BY <2>1, <3>2, <3>3
    <3> QED
      BY <2>3, <3>3, <3>4 DEF Forget, FloorInv
  <2>4. CASE UNCHANGED floorVars
    BY <2>4 DEF floorVars, FloorInv
  <2> QED
    BY <2>2, <2>3, <2>4 DEF FloorNext
<1> QED
  BY <1>1, <1>2, PTL DEF FloorSpec

(* The setting and the floor are similarities, and at most one floor is kept.              *)
THEOREM FloorTyping == FloorSpec => []FloorTypeOK
<1>1. FloorInv => FloorTypeOK
  <2> SUFFICES ASSUME FloorInv PROVE FloorTypeOK
    OBVIOUS
  <2>1. CASE floorKept = {}
    BY <2>1, FS_EmptySet DEF FloorInv, FloorTypeOK
  <2>2. CASE floorKept # {}
    <3>1. PICK v \in 0..TopSimilarity : floorKept = {v}
      BY <2>2 DEF FloorInv
    <3>2. Cardinality(floorKept) = 1
      BY <3>1, FS_Singleton
    <3> QED
      BY <3>1, <3>2 DEF FloorInv, FloorTypeOK
  <2> QED
    BY <2>1, <2>2
<1> QED
  BY <1>1, FloorGoesOn, PTL

(* A floor that is taken keeps its share of the files asked, whatever the scores.         *)
THEOREM FloorsAreFair == FloorSpec => FloorKeepsItsShare
<1>1. FloorInv => (UpdateFloor /\ floorKept' # {} =>
       LET floor == Max(floorKept')
           lower(cut) == {f \in Sampled : SeedScore(scored[f]) < cut}
       IN  /\ 100 * Cardinality(lower(floor)) < Percentile * Cardinality(Sampled)
           /\ \E f \in Sampled : SeedScore(scored[f]) = floor
           /\ Cardinality(Sampled) <= MaxSeedFiles
           /\ Len(scored) <= MaxSeedFiles => Sampled = DOMAIN scored
           /\ lower(EffectiveFloor') =
                lower(floor) \cup (IF configured = DefaultFloor THEN {} ELSE lower(configured)))
  BY ShareKept DEF CutOff
<1> QED
  BY <1>1, FloorGoesOn, PTL DEF FloorKeepsItsShare

(***************************************************************************)
(* The chunks of a source.                                                 *)
(***************************************************************************)
(* A node of a source, and its words.                                                     *)
WrittenNode(K) == [kind : K, under : Nat, body : BOOLEAN, first : Nat, last : Nat]
SourceToken == {"open", "close", "break", "doc", "note"}

(* A node is written with a kind of its grammar; the proof needs no more of it than that.       *)
DeclTyped ==
  /\ lang \in DeclLang
  /\ text \in Seq(SourceToken)
  /\ \E K : nodes \in Seq(WrittenNode(K))

(* An item begins its line but for the items around it; a comment has its line to itself.     *)
LinesAreWritten ==
  \A p \in 1..Len(text) :
    /\ text[p] = "open" /\ p # 1 => text[p - 1] \in {"open", "break"}
    /\ text[p] = "doc" => p + 1 \in 1..Len(text) /\ text[p + 1] = "break"

NodesAreWritten ==
  \A i \in 1..Len(nodes) :
    /\ nodes[i].under \in 0..(i - 1)
    /\ nodes[i].first \in 1..Len(text) /\ text[nodes[i].first] = "open"
    /\ nodes[i].last # 0 =>
         /\ nodes[i].last \in 1..Len(text) /\ text[nodes[i].last] = "close"
         /\ nodes[i].first < nodes[i].last

(* Nodes stand behind one another or inside one another.                                 *)
NodesNest ==
  \A i, j \in 1..Len(nodes) :
    i < j =>
      /\ nodes[i].first < nodes[j].first
      /\ nodes[i].last # 0 =>
           nodes[i].last < nodes[j].first \/ (nodes[j].last # 0 /\ nodes[j].last < nodes[i].last)

DeclInv == DeclTyped /\ LinesAreWritten /\ NodesAreWritten /\ NodesNest

(* The innermost node is the last of the open ones.                                       *)
LEMMA InnermostIs ==
  ASSUME DeclInv
  PROVE  /\ Innermost \in 0..Len(nodes)
         /\ Open # {} => Innermost \in Open /\ \A j \in Open : j <= Innermost
<1>1. Len(nodes) \in Nat
  BY DEF DeclInv, DeclTyped
<1>2. Open \in SUBSET (0..Len(nodes)) /\ Open \in SUBSET (1..Len(nodes))
  BY DEF Open
<1>3. ASSUME Open # {} PROVE Innermost \in Open /\ \A j \in Open : j <= Innermost
  <2>1. \E i \in Open : \A j \in Open : j <= i
    BY <1>1, <1>2, <1>3, LastOf
  <2> QED
    BY <1>3, <2>1 DEF Innermost
<1>4. Innermost \in 0..Len(nodes)
  <2>1. CASE Open = {}
    BY <1>1, <2>1 DEF Innermost
  <2>2. CASE Open # {}
    BY <1>2, <1>3, <2>2
  <2> QED
    BY <2>1, <2>2
<1> QED
  BY <1>3, <1>4

(* A sequence over some values is one over more.                                          *)
LEMMA WiderSeq ==
  ASSUME NEW S, NEW T, S \subseteq T, NEW s \in Seq(S)
  PROVE  s \in Seq(T)
<1>1. Len(s) \in Nat /\ \A i \in 1..Len(s) : s[i] \in T
  OBVIOUS
<1>2. s = [i \in 1..Len(s) |-> s[i]]
  OBVIOUS
<1> QED
  BY <1>1, <1>2

(* Each way a source goes on keeps what is written.                                       *)
LEMMA ANodeOpens ==
  ASSUME DeclInv, OpenNode PROVE DeclInv'
<1> DEFINE n == Len(nodes)
           L == Len(text)
<1>1. PICK kind \in Under(lang, Node(Innermost).kind), body \in BOOLEAN :
        nodes' = Append(nodes, [kind |-> kind, under |-> Innermost, body |-> body,
                                first |-> Len(text) + 1, last |-> 0])
  BY Zenon DEF OpenNode
<1> DEFINE new == [kind |-> kind, under |-> Innermost, body |-> body,
                   first |-> Len(text) + 1, last |-> 0]
<1>2. text' = Append(text, "open") /\ lang' = lang
      /\ (text # <<>> => text[Len(text)] \in {"open", "break"})
  BY DEF OpenNode
<1>3. PICK K : nodes \in Seq(WrittenNode(K))
  BY DEF DeclInv, DeclTyped
<1>4. text \in Seq(SourceToken) /\ L \in Nat /\ n \in Nat
  BY <1>3 DEF DeclInv, DeclTyped
<1>5. /\ text' \in Seq(SourceToken) /\ Len(text') = L + 1 /\ text'[L + 1] = "open"
      /\ \A p \in 1..L : text'[p] = text[p]
  BY <1>2, <1>4 DEF SourceToken
<1>6. Innermost \in Nat /\ Innermost \in 0..n
  BY <1>4, InnermostIs
<1>7. nodes' \in Seq(WrittenNode(K \cup {kind}))
  <2>1. nodes \in Seq(WrittenNode(K \cup {kind}))
    <3>1. WrittenNode(K) \subseteq WrittenNode(K \cup {kind})
      BY DEF WrittenNode
    <3> QED
      BY <1>3, <3>1, WiderSeq
  <2>2. new \in WrittenNode(K \cup {kind})
    BY <1>4, <1>6 DEF WrittenNode
  <2> HIDE DEF new
  <2> QED
    BY <1>1, <2>1, <2>2 DEF new
<1>8. /\ Len(nodes') = n + 1 /\ \A i \in 1..n : nodes'[i] = nodes[i]
      /\ nodes'[n + 1] = new
  <2> HIDE DEF new
  <2> QED
    BY <1>1, <1>3 DEF new
<1>9. new.under = Innermost /\ new.first = L + 1 /\ new.last = 0
  OBVIOUS
<1> HIDE DEF new
<1>10. DeclTyped'
  BY <1>2, <1>5, <1>7 DEF DeclInv, DeclTyped
<1>11. LinesAreWritten'
  <2> SUFFICES ASSUME NEW p \in 1..(L + 1)
               PROVE  /\ text'[p] = "open" /\ p # 1 => text'[p - 1] \in {"open", "break"}
                      /\ text'[p] = "doc" => p + 1 \in 1..(L + 1) /\ text'[p + 1] = "break"
    BY <1>5 DEF LinesAreWritten
  <2>1. CASE p \in 1..L
    <3>1. p # 1 => p - 1 \in 1..L
      BY <1>4, <2>1
    <3>2. p + 1 \in 1..L => p + 1 \in 1..(L + 1)
      BY <1>4
    <3> QED
      BY <1>5, <2>1, <3>1, <3>2 DEF DeclInv, LinesAreWritten
  <2>2. CASE p = L + 1
    <3>1. p # 1 => L \in 1..L /\ p - 1 = L /\ text # <<>>
      BY <1>4, <2>2
    <3> QED
      BY <1>2, <1>5, <2>2, <3>1
  <2> QED
    BY <1>4, <2>1, <2>2
<1>12. NodesAreWritten'
  <2>1. ASSUME NEW i \in 1..n
        PROVE  /\ nodes[i].under \in 0..(i - 1)
               /\ nodes[i].first \in 1..(L + 1) /\ text'[nodes[i].first] = "open"
               /\ nodes[i].last # 0 =>
                    /\ nodes[i].last \in 1..(L + 1) /\ text'[nodes[i].last] = "close"
                    /\ nodes[i].first < nodes[i].last
    <3>1. 1..L \subseteq 1..(L + 1)
      BY <1>4
    <3> QED
      BY <1>5, <3>1 DEF DeclInv, NodesAreWritten
  <2>2. Innermost \in 0..((n + 1) - 1) /\ L + 1 \in 1..(L + 1)
    BY <1>4, <1>6
  <2>3. \A i \in 1..(n + 1) : i \in 1..n \/ i = n + 1
    BY <1>4
  <2> QED
    BY <1>5, <1>8, <1>9, <2>1, <2>2, <2>3 DEF NodesAreWritten
<1>13. NodesNest'
  <2>1. \A i \in 1..n : nodes[i].first < L + 1 /\ (nodes[i].last # 0 => nodes[i].last < L + 1)
    BY <1>4 DEF DeclInv, NodesAreWritten
  <2>2. \A i, j \in 1..(n + 1) : i < j => i \in 1..n /\ (j \in 1..n \/ j = n + 1)
    BY <1>4
  <2>3. ASSUME NEW i \in 1..(n + 1), NEW j \in 1..(n + 1), i < j
        PROVE  /\ nodes'[i].first < nodes'[j].first
               /\ nodes'[i].last # 0 =>
                    nodes'[i].last < nodes'[j].first \/ (nodes'[j].last # 0 /\ nodes'[j].last < nodes'[i].last)
    <3>1. CASE j \in 1..n
      <4>1. nodes'[i] = nodes[i] /\ nodes'[j] = nodes[j] /\ i \in 1..n
        BY <1>8, <2>2, <2>3, <3>1
      <4> QED
        BY <2>3, <3>1, <4>1 DEF DeclInv, NodesNest
    <3>2. CASE j = n + 1
      <4>1. nodes'[i] = nodes[i] /\ nodes'[j] = new /\ i \in 1..n
        BY <1>8, <2>2, <2>3, <3>2
      <4> QED
        BY <1>9, <2>1, <4>1
    <3> QED
      BY <2>2, <2>3, <3>1, <3>2
  <2> QED
    BY <1>8, <2>3 DEF NodesNest
<1> QED
  BY <1>10, <1>11, <1>12, <1>13 DEF DeclInv

LEMMA ANodeCloses ==
  ASSUME DeclInv, CloseNode PROVE DeclInv'
<1> DEFINE n == Len(nodes)
           L == Len(text)
           m == Innermost
<1>1. PICK K : nodes \in Seq(WrittenNode(K))
  BY DEF DeclInv, DeclTyped
<1>2. text \in Seq(SourceToken) /\ L \in Nat /\ n \in Nat
  BY <1>1 DEF DeclInv, DeclTyped
<1>3. m \in 1..n /\ nodes[m].last = 0 /\ \A j \in 1..n : nodes[j].last = 0 => j <= m
  BY InnermostIs DEF CloseNode, Open
<1> HIDE DEF m
<1>4. nodes' = [nodes EXCEPT ![m].last = Len(text) + 1] /\ text' = Append(text, "close") /\ lang' = lang
  BY DEF CloseNode, m
<1>5. /\ text' \in Seq(SourceToken) /\ Len(text') = L + 1 /\ text'[L + 1] = "close"
      /\ \A p \in 1..L : text'[p] = text[p]
  BY <1>2, <1>4 DEF SourceToken
<1>6. nodes[m] \in WrittenNode(K) /\ L + 1 \in Nat
  BY <1>1, <1>2, <1>3
<1> DEFINE closed == [nodes[m] EXCEPT !.last = L + 1]
<1>7. /\ closed \in WrittenNode(K) /\ closed.first = nodes[m].first /\ closed.last = L + 1
      /\ closed.under = nodes[m].under
  BY <1>6 DEF WrittenNode
<1> HIDE DEF closed
<1>8. nodes' = [nodes EXCEPT ![m] = closed]
  BY <1>4 DEF closed
<1>9. /\ nodes' \in Seq(WrittenNode(K)) /\ Len(nodes') = n /\ nodes'[m] = closed
      /\ \A i \in 1..n : i # m => nodes'[i] = nodes[i]
  BY <1>1, <1>3, <1>7, <1>8
<1>10. DeclTyped'
  BY <1>4, <1>5, <1>9 DEF DeclInv, DeclTyped
<1>11. LinesAreWritten'
  <2> SUFFICES ASSUME NEW p \in 1..(L + 1)
               PROVE  /\ text'[p] = "open" /\ p # 1 => text'[p - 1] \in {"open", "break"}
                      /\ text'[p] = "doc" => p + 1 \in 1..(L + 1) /\ text'[p + 1] = "break"
    BY <1>5 DEF LinesAreWritten
  <2>1. CASE p \in 1..L
    <3>1. p # 1 => p - 1 \in 1..L
      BY <1>2, <2>1
    <3>2. p + 1 \in 1..L => p + 1 \in 1..(L + 1)
      BY <1>2
    <3> QED
      BY <1>5, <2>1, <3>1, <3>2 DEF DeclInv, LinesAreWritten
  <2>2. CASE p = L + 1
    BY <1>5, <2>2
  <2> QED
    BY <1>2, <2>1, <2>2
<1>12. \A i \in 1..n :
         /\ nodes[i].under \in 0..(i - 1)
         /\ nodes[i].first \in 1..L /\ text'[nodes[i].first] = "open"
         /\ nodes[i].last # 0 =>
              /\ nodes[i].last \in 1..L /\ text'[nodes[i].last] = "close"
              /\ nodes[i].first < nodes[i].last
  BY <1>5 DEF DeclInv, NodesAreWritten
<1>13. NodesAreWritten'
  <2>1. 1..L \subseteq 1..(L + 1) /\ L + 1 \in 1..(L + 1) /\ \A x \in 1..L : x < L + 1
    BY <1>2
  <2> SUFFICES ASSUME NEW i \in 1..n
               PROVE  /\ nodes'[i].under \in 0..(i - 1)
                      /\ nodes'[i].first \in 1..(L + 1) /\ text'[nodes'[i].first] = "open"
                      /\ nodes'[i].last # 0 =>
                           /\ nodes'[i].last \in 1..(L + 1) /\ text'[nodes'[i].last] = "close"
                           /\ nodes'[i].first < nodes'[i].last
    BY <1>5, <1>9 DEF NodesAreWritten
  <2>2. CASE i = m
    <3>1. nodes'[i] = closed
      BY <1>9, <2>2
    <3>2. nodes[m].under \in 0..(m - 1) /\ nodes[m].first \in 1..L /\ text'[nodes[m].first] = "open"
      BY <1>3, <1>12
    <3> QED
      BY <1>5, <1>7, <2>1, <2>2, <3>1, <3>2
  <2>3. CASE i # m
    <3>1. nodes'[i] = nodes[i]
      BY <1>9, <2>3
    <3> QED
      BY <1>12, <2>1, <3>1
  <2> QED
    BY <2>2, <2>3
<1>14. NodesNest'
  <2>1. ASSUME NEW i \in 1..n, NEW j \in 1..n, i < j
        PROVE  /\ nodes'[i].first < nodes'[j].first
               /\ nodes'[i].last # 0 =>
                    nodes'[i].last < nodes'[j].first \/ (nodes'[j].last # 0 /\ nodes'[j].last < nodes'[i].last)
    <3>1. /\ nodes[i].first < nodes[j].first
          /\ nodes[i].last # 0 =>
                    nodes[i].last < nodes[j].first \/ (nodes[j].last # 0 /\ nodes[j].last < nodes[i].last)
      BY <2>1 DEF DeclInv, NodesNest
    <3>2. CASE i # m /\ j # m
      BY <1>9, <3>1, <3>2
    <3>3. CASE i = m
      <4>1. j # m /\ nodes'[i] = closed /\ nodes'[j] = nodes[j]
        BY <1>9, <2>1, <3>3
      <4>2. nodes[j].last # 0
        BY <1>2, <1>3, <2>1, <3>3
      <4>3. nodes[j].last < L + 1
        BY <1>2, <1>12, <4>2
      <4> QED
        BY <1>7, <3>1, <3>3, <4>1, <4>2, <4>3
    <3>4. CASE j = m
      <4>1. i # m /\ nodes'[i] = nodes[i] /\ nodes'[j] = closed
        BY <1>9, <2>1, <3>4
      <4>2. nodes[i].last # 0 => nodes[i].last < nodes[m].first
        BY <1>3, <3>1, <3>4
      <4> QED
        BY <1>7, <3>1, <3>4, <4>1, <4>2
    <3> QED
      BY <3>2, <3>3, <3>4
  <2> QED
    BY <1>9, <2>1 DEF NodesNest
<1> QED
  BY <1>10, <1>11, <1>13, <1>14 DEF DeclInv

LEMMA ALineBreaks ==
  ASSUME DeclInv, BreakLine PROVE DeclInv'
<1> DEFINE L == Len(text)
<1>1. text \in Seq(SourceToken) /\ L \in Nat
  BY DEF DeclInv, DeclTyped
<1>2. lang' = lang /\ nodes' = nodes
  BY DEF BreakLine
<1>3. /\ text' \in Seq(SourceToken) /\ Len(text') \in Nat /\ Len(text') >= L
      /\ \A p \in 1..L : text'[p] = text[p]
      /\ \A p \in 1..Len(text') :
           p \in 1..L \/ /\ text'[p] # "open"
                         /\ text'[p] = "doc" => p + 1 \in 1..Len(text') /\ text'[p + 1] = "break"
  <2>1. CASE text' = Append(text, "break")
    <3>1. /\ text' \in Seq(SourceToken) /\ Len(text') = L + 1 /\ text'[L + 1] = "break"
          /\ \A p \in 1..L : text'[p] = text[p]
      BY <1>1, <2>1 DEF SourceToken
    <3>2. \A p \in 1..(L + 1) : p \in 1..L \/ p = L + 1
      BY <1>1
    <3> QED
      BY <1>1, <3>1, <3>2
  <2>2. ASSUME NEW comment \in {"doc", "note"}, text' = text \o <<comment, "break">> PROVE <1>3!1
    <3>1. /\ text' \in Seq(SourceToken) /\ Len(text') = L + 2
          /\ text'[L + 1] = comment /\ text'[L + 2] = "break"
          /\ \A p \in 1..L : text'[p] = text[p]
      BY <1>1, <2>2 DEF SourceToken
    <3>2. \A p \in 1..(L + 2) : p \in 1..L \/ p = L + 1 \/ p = L + 2
      BY <1>1
    <3>3. (L + 1) + 1 = L + 2 /\ L + 2 \in 1..(L + 2)
      BY <1>1
    <3> QED
      BY <1>1, <3>1, <3>2, <3>3
  <2> QED
    BY <2>1, <2>2 DEF BreakLine
<1>4. LinesAreWritten'
  <2> SUFFICES ASSUME NEW p \in 1..Len(text')
               PROVE  /\ text'[p] = "open" /\ p # 1 => text'[p - 1] \in {"open", "break"}
                      /\ text'[p] = "doc" => p + 1 \in 1..Len(text') /\ text'[p + 1] = "break"
    BY DEF LinesAreWritten
  <2>1. CASE p \in 1..L
    <3>1. p # 1 => p - 1 \in 1..L
      BY <1>1, <2>1
    <3>2. p + 1 \in 1..L => p + 1 \in 1..Len(text')
      BY <1>1, <1>3
    <3> QED
      BY <1>3, <2>1, <3>1, <3>2 DEF DeclInv, LinesAreWritten
  <2>2. CASE p \notin 1..L
    BY <1>3, <2>2
  <2> QED
    BY <2>1, <2>2
<1>5. NodesAreWritten'
  <2>1. 1..L \subseteq 1..Len(text')
    BY <1>1, <1>3
  <2> QED
    BY <1>2, <1>3, <2>1 DEF DeclInv, NodesAreWritten
<1> QED
  BY <1>2, <1>3, <1>4, <1>5 DEF DeclInv, DeclTyped, NodesNest

LEMMA SourcesGoOn == DeclSpec => []DeclInv
<1>1. DeclInit => DeclInv
  <2> SUFFICES ASSUME DeclInit PROVE DeclInv
    OBVIOUS
  <2>1. Len(text) = 0 /\ Len(nodes) = 0 /\ text \in Seq(SourceToken) /\ nodes \in Seq(WrittenNode({}))
    BY DEF DeclInit
  <2>2. DeclTyped
    BY <2>1 DEF DeclInit, DeclTyped
  <2> QED
    BY <2>1, <2>2 DEF DeclInv, LinesAreWritten, NodesAreWritten, NodesNest
<1>2. DeclInv /\ [DeclNext]_declVars => DeclInv'
  <2>1. DeclInv /\ UNCHANGED declVars => DeclInv'
    BY DEF declVars, DeclInv, DeclTyped, LinesAreWritten, NodesAreWritten, NodesNest
  <2> QED
    BY <2>1, ANodeOpens, ANodeCloses, ALineBreaks DEF DeclNext
<1> QED
  BY <1>1, <1>2, PTL DEF DeclSpec

(* The line a token stands on begins at or before it, with no break in between.             *)
LEMMA LineIs ==
  ASSUME DeclInv, NEW p \in 1..Len(text)
  PROVE  /\ LineStart(p) \in LineStarts /\ LineStart(p) \in 1..p
         /\ \A s \in LineStarts : s <= p => s <= LineStart(p)
         /\ \A s \in LineStarts : s \in Nat /\ s # 0
<1>1. text \in Seq(SourceToken) /\ Len(text) \in Nat
  BY DEF DeclInv, DeclTyped
<1>2. /\ \A s \in LineStarts : s \in Nat /\ s # 0
      /\ 1 \in LineStarts
  BY <1>1 DEF LineStarts
<1> DEFINE S == {s \in LineStarts : s <= p}
<1>3. S \in SUBSET (0..p) /\ S # {}
  BY <1>1, <1>2
<1>4. PICK k \in S : \A j \in S : j <= k
  <2>1. p \in Nat
    BY <1>1
  <2> HIDE DEF S
  <2> QED
    BY <1>3, <2>1, LastOf
<1>5. \E s \in LineStarts : s <= p /\ \A t \in LineStarts : t <= p => t <= s
  BY <1>4
<1>6. LineStart(p) \in LineStarts /\ LineStart(p) <= p /\ \A t \in LineStarts : t <= p => t <= LineStart(p)
  BY <1>5 DEF LineStart
<1> QED
  BY <1>1, <1>2, <1>6

(* No line breaks before the token it is the line of.                                      *)
LEMMA LinesAreUnbroken ==
  ASSUME DeclInv, NEW p \in 1..Len(text), NEW q \in LineStart(p)..(p - 1)
  PROVE  q \in 1..Len(text) /\ text[q] # "break"
<1>1. Len(text) \in Nat /\ LineStart(p) \in 1..p
  BY LineIs DEF DeclInv, DeclTyped
<1>2. q \in 1..Len(text) /\ q + 1 <= p /\ LineStart(p) < q + 1
  BY <1>1
<1>3. ASSUME text[q] = "break" PROVE FALSE
  <2>1. q + 1 \in LineStarts
    BY <1>2, <1>3 DEF LineStarts
  <2>2. q + 1 <= LineStart(p)
    BY <1>2, <2>1, LineIs
  <2>3. q + 1 \in Nat /\ LineStart(p) \in Nat
    BY <1>1, <1>2
  <2> QED
    BY <1>2, <2>2, <2>3
<1> QED
  BY <1>2, <1>3

(* Before an item its line holds nothing but the items around it.                         *)
LEMMA OnlyOpensBefore ==
  ASSUME DeclInv, NEW p \in 1..Len(text), text[p] = "open", NEW q \in LineStart(p)..p
  PROVE  text[q] = "open"
<1>1. Len(text) \in Nat /\ LineStart(p) \in 1..p
  BY LineIs DEF DeclInv, DeclTyped
<1> DEFINE S == {k \in LineStart(p)..p : text[k] # "open"}
<1>2. SUFFICES ASSUME text[q] # "open" PROVE FALSE
  OBVIOUS
<1>3. S \in SUBSET (0..p) /\ S # {}
  BY <1>1, <1>2
<1>4. PICK k \in S : \A j \in S : j <= k
  <2>1. p \in Nat
    BY <1>1
  <2> HIDE DEF S
  <2> QED
    BY <1>3, <2>1, LastOf
<1>5. k \in LineStart(p)..p /\ text[k] # "open" /\ k # p
  BY <1>4
<1>6. k + 1 \in LineStart(p)..p /\ k + 1 \in 1..Len(text) /\ k \in LineStart(p)..(p - 1)
      /\ k + 1 # 1 /\ (k + 1) - 1 = k /\ ~(k + 1 <= k)
  BY <1>1, <1>5
<1>7. text[k + 1] = "open"
  BY <1>4, <1>6
<1>8. text[(k + 1) - 1] \in {"open", "break"}
  BY <1>6, <1>7 DEF DeclInv, LinesAreWritten
<1>9. text[k] # "break"
  BY <1>6, LinesAreUnbroken
<1> QED
  BY <1>5, <1>6, <1>8, <1>9

(* The lines of doc comment above a line.                                              *)
DocsAbove(p) ==
  {s \in LineStarts : /\ s < LineStart(p)
                      /\ \A t \in LineStarts : t \in s..(LineStart(p) - 1) => text[t] = "doc"}

(* All that is written on those lines is doc comment.                                      *)
LEMMA DocsAreDocs ==
  ASSUME DeclInv, NEW p \in 1..Len(text), NEW s \in DocsAbove(p), NEW q \in s..(LineStart(p) - 1)
  PROVE  q \in 1..Len(text) /\ text[q] \in {"doc", "break"}
<1>1. Len(text) \in Nat /\ LineStart(p) \in 1..p /\ s \in Nat /\ s # 0 /\ s \in LineStarts
  BY LineIs DEF DeclInv, DeclTyped, DocsAbove
<1>2. q \in 1..Len(text) /\ q < LineStart(p) /\ s <= q
  BY <1>1
<1>3. /\ LineStart(q) \in LineStarts /\ LineStart(q) \in 1..q
      /\ \A t \in LineStarts : t <= q => t <= LineStart(q)
  BY <1>2, LineIs
<1>4. LineStart(q) \in s..(LineStart(p) - 1) /\ LineStart(q) \in 1..Len(text)
  BY <1>1, <1>2, <1>3
<1>5. text[LineStart(q)] = "doc"
  BY <1>3, <1>4 DEF DocsAbove
<1>6. LineStart(q) + 1 \in 1..Len(text) /\ text[LineStart(q) + 1] = "break"
  BY <1>4, <1>5 DEF DeclInv, LinesAreWritten
<1>7. (LineStart(q) + 1) + 1 \in LineStarts
  BY <1>6 DEF LineStarts
<1>8. ~((LineStart(q) + 1) + 1 <= q)
  BY <1>2, <1>3, <1>7
<1>9. q = LineStart(q) \/ q = LineStart(q) + 1
  BY <1>2, <1>3, <1>8
<1> QED
  BY <1>2, <1>5, <1>6, <1>9

(* An extended start is the first of those lines, or the item itself.                       *)
LEMMA ExtendedIs ==
  ASSUME DeclInv, NEW p \in 1..Len(text)
  PROVE  /\ DocsAbove(p) = {} => ExtendStartForRustDocs(p) = p
         /\ DocsAbove(p) # {} =>
              /\ ExtendStartForRustDocs(p) \in DocsAbove(p)
              /\ \A s \in DocsAbove(p) : ExtendStartForRustDocs(p) <= s
         /\ ExtendStartForRustDocs(p) \in 1..p
<1>1. Len(text) \in Nat /\ LineStart(p) \in 1..p
      /\ \A s \in DocsAbove(p) : s \in Nat /\ s # 0 /\ s < LineStart(p)
  BY LineIs DEF DeclInv, DeclTyped, DocsAbove
<1>2. ExtendStartForRustDocs(p) =
        IF DocsAbove(p) = {} THEN p ELSE CHOOSE s \in DocsAbove(p) : \A t \in DocsAbove(p) : s <= t
  BY Zenon DEF ExtendStartForRustDocs, DocsAbove
<1>3. ASSUME DocsAbove(p) # {}
      PROVE  /\ ExtendStartForRustDocs(p) \in DocsAbove(p)
             /\ \A s \in DocsAbove(p) : ExtendStartForRustDocs(p) <= s
  <2>1. \E s \in DocsAbove(p) : \A t \in DocsAbove(p) : s <= t
    <3>1. DocsAbove(p) \in SUBSET Nat
      BY <1>1
    <3> QED
      BY <1>3, <3>1, Least
  <2> QED
    BY <1>2, <1>3, <2>1
<1>4. ExtendStartForRustDocs(p) \in 1..p
  <2>1. CASE DocsAbove(p) = {}
    BY <1>1, <1>2, <2>1
  <2>2. CASE DocsAbove(p) # {}
    <3>1. ExtendStartForRustDocs(p) \in DocsAbove(p)
      BY <1>3, <2>2
    <3> QED
      BY <1>1, <3>1
  <2> QED
    BY <2>1, <2>2
<1> QED
  BY <1>2, <1>3, <1>4

(* Between the doc comments of an item and the item nothing closes.                        *)
LEMMA NothingClosesAbove ==
  ASSUME DeclInv, NEW p \in 1..Len(text), text[p] = "open",
         NEW q \in ExtendStartForRustDocs(p)..p
  PROVE  text[q] # "close"
<1>1. Len(text) \in Nat /\ LineStart(p) \in 1..p
  BY LineIs DEF DeclInv, DeclTyped
<1>2. CASE DocsAbove(p) = {}
  BY <1>1, <1>2, ExtendedIs
<1>3. CASE DocsAbove(p) # {}
  <2> DEFINE e == ExtendStartForRustDocs(p)
  <2>1. e \in DocsAbove(p) /\ e \in 1..p
    BY <1>3, ExtendedIs
  <2>2. CASE q \in LineStart(p)..p
    BY <2>2, OnlyOpensBefore
  <2>3. CASE q \in e..(LineStart(p) - 1)
    BY <2>1, <2>3, DocsAreDocs
  <2>4. q \in LineStart(p)..p \/ q \in e..(LineStart(p) - 1)
    BY <1>1, <2>1
  <2> QED
    BY <2>2, <2>3, <2>4
<1> QED
  BY <1>2, <1>3

(* The comments of an item do not reach over an item that begins before it.                 *)
LEMMA ExtendedInOrder ==
  ASSUME DeclInv, NEW p \in 1..Len(text), NEW q \in 1..Len(text), text[p] = "open", p < q
  PROVE  ExtendStartForRustDocs(p) <= ExtendStartForRustDocs(q)
<1>1. /\ Len(text) \in Nat /\ LineStart(p) \in 1..p /\ LineStart(q) \in 1..q
      /\ ExtendStartForRustDocs(p) \in 1..p /\ ExtendStartForRustDocs(q) \in 1..q
  BY LineIs, ExtendedIs DEF DeclInv, DeclTyped
<1>2. CASE LineStart(p) = LineStart(q)
  <2>1. DocsAbove(p) = DocsAbove(q)
    BY <1>2 DEF DocsAbove
  <2>2. CASE DocsAbove(p) = {}
    <3>1. ExtendStartForRustDocs(p) = p /\ ExtendStartForRustDocs(q) = q
      BY <2>1, <2>2, ExtendedIs
    <3> QED
      BY <1>1, <3>1
  <2>3. CASE DocsAbove(p) # {}
    BY <1>1, <2>1, <2>3, ExtendedIs
  <2> QED
    BY <2>2, <2>3
<1>3. CASE LineStart(p) # LineStart(q)
  <2>1. p < LineStart(q)
    <3> SUFFICES ASSUME LineStart(q) <= p PROVE FALSE
      BY <1>1
    <3>1. LineStart(q) <= LineStart(p)
      BY LineIs
    <3>2. LineStart(p) <= LineStart(q)
      <4>1. LineStart(p) \in LineStarts /\ LineStart(p) <= q
        BY <1>1, LineIs
      <4> QED
        BY <4>1, LineIs
    <3> QED
      BY <1>1, <1>3, <3>1, <3>2
  <2>2. CASE DocsAbove(q) = {}
    BY <1>1, <2>2, ExtendedIs
  <2>3. CASE DocsAbove(q) # {}
    <3> DEFINE s == ExtendStartForRustDocs(q)
    <3>1. s \in DocsAbove(q)
      BY <2>3, ExtendedIs
    <3>2. ~(s <= p)
      <4> SUFFICES ASSUME s <= p PROVE FALSE
        OBVIOUS
      <4>1. p \in s..(LineStart(q) - 1)
        BY <1>1, <2>1
      <4> HIDE DEF s
      <4>2. text[p] \in {"doc", "break"}
        BY <3>1, <4>1, DocsAreDocs
      <4> QED
        BY <4>2
    <3> QED
      BY <1>1, <3>2
  <2> QED
    BY <2>2, <2>3
<1> QED
  BY <1>2, <1>3

(* A chunk is built from a node that is closed.                                           *)
LEMMA ChunkIs ==
  ASSUME DeclInv, Parsed, NEW c \in CollectChunks
  PROVE  /\ c.node \in 1..Len(nodes) /\ c = BuildChunk(c.node)
         /\ c.last = nodes[c.node].last /\ c.last # 0
         /\ c.first = IF lang = "rust" THEN ExtendStartForRustDocs(nodes[c.node].first)
                      ELSE nodes[c.node].first
<1>1. PICK i \in 1..Len(nodes) : c = BuildChunk(i)
  BY DEF CollectChunks
<1>2. /\ c.node = i /\ c.last = nodes[i].last
      /\ c.first = IF lang = "rust" THEN ExtendStartForRustDocs(nodes[i].first) ELSE nodes[i].first
  BY <1>1 DEF BuildChunk
<1>3. nodes[i].last # 0
  BY DEF Parsed, Open
<1> QED
  BY <1>1, <1>2, <1>3

(* Of two chunks the one whose node comes first is in front of the other, or around it.       *)
LEMMA InOrderOrAround ==
  ASSUME DeclInv, Parsed, NEW c \in CollectChunks, NEW d \in CollectChunks, c.node < d.node
  PROVE  /\ c.last # d.last
         /\ \/ c.last < d.first
            \/ c.node \in Ancestors(d.node) /\ c.first <= d.first /\ d.last <= c.last
<1> DEFINE i == c.node
           j == d.node
           p == nodes[i].first
           q == nodes[j].first
<1>1. /\ i \in 1..Len(nodes) /\ j \in 1..Len(nodes)
      /\ c.last = nodes[i].last /\ d.last = nodes[j].last /\ c.last # 0 /\ d.last # 0
      /\ c.first = (IF lang = "rust" THEN ExtendStartForRustDocs(p) ELSE p)
      /\ d.first = (IF lang = "rust" THEN ExtendStartForRustDocs(q) ELSE q)
  BY ChunkIs
<1> HIDE DEF i, j
<1>2. /\ p \in 1..Len(text) /\ q \in 1..Len(text) /\ text[p] = "open" /\ text[q] = "open"
      /\ c.last \in 1..Len(text) /\ d.last \in 1..Len(text) /\ text[c.last] = "close"
      /\ q < d.last /\ Len(text) \in Nat
  BY <1>1 DEF DeclInv, DeclTyped, NodesAreWritten
<1>3. p < q /\ (c.last < q \/ d.last < c.last)
  <2>1. i < j
    BY DEF i, j
  <2> QED
    BY <1>1, <2>1 DEF DeclInv, NodesNest
<1> HIDE DEF p, q
<1>4. CASE c.last < q
  <2>1. CASE lang = "rust"
    <3> DEFINE e == ExtendStartForRustDocs(q)
    <3>1. e \in 1..q
      BY <1>2, ExtendedIs
    <3>2. ~(e <= c.last)
      <4> SUFFICES ASSUME e <= c.last PROVE FALSE
        OBVIOUS
      <4>1. c.last \in e..q
        BY <1>2, <1>4, <3>1
      <4> QED
        BY <1>2, <4>1, NothingClosesAbove
    <3>3. d.first = e
      BY <1>1, <2>1
    <3> HIDE DEF e
    <3>4. c.last < d.first
      BY <1>2, <3>1, <3>2, <3>3
    <3> QED
      BY <1>2, <1>4, <3>4
  <2>2. CASE lang # "rust"
    BY <1>1, <1>2, <1>4, <2>2
  <2> QED
    BY <2>1, <2>2
<1>5. CASE d.last < c.last
  <2>1. c.first <= d.first
    <3>1. CASE lang = "rust"
      BY <1>1, <1>2, <1>3, <3>1, ExtendedInOrder
    <3>2. CASE lang # "rust"
      BY <1>1, <1>2, <1>3, <3>2
    <3> QED
      BY <3>1, <3>2
  <2>2. i \in Ancestors(j)
    BY <1>1, <1>3, <1>5 DEF Ancestors, p, q
  <2> QED
    BY <1>2, <1>5, <2>1, <2>2 DEF i, j
<1> QED
  BY <1>3, <1>4, <1>5

(* Whatever the items, their order and the comments over them, the chunks of a source have     *)
(* ranges of their own, and overlap only as their items hold one another.                  *)
THEOREM ChunksStandApart == DeclSpec => []ChunksNest
<1>1. DeclInv => ChunksNest
  <2> SUFFICES ASSUME DeclInv, Parsed, NEW c \in CollectChunks, NEW d \in CollectChunks, c # d
               PROVE  /\ <<c.first, c.last>> # <<d.first, d.last>>
                      /\ \/ c.last < d.first \/ d.last < c.first
                         \/ c.node \in Ancestors(d.node) /\ c.first <= d.first /\ d.last <= c.last
                         \/ d.node \in Ancestors(c.node) /\ d.first <= c.first /\ c.last <= d.last
    BY DEF ChunksNest
  <2>1. c.node \in 1..Len(nodes) /\ d.node \in 1..Len(nodes) /\ c.node # d.node
    BY ChunkIs
  <2>2. c.node < d.node \/ d.node < c.node
    BY <2>1
  <2>3. CASE c.node < d.node
    BY <2>3, InOrderOrAround
  <2>4. CASE d.node < c.node
    BY <2>4, InOrderOrAround
  <2> QED
    BY <2>2, <2>3, <2>4
<1> QED
  BY <1>1, SourcesGoOn, PTL

(* A node stands under one written before it, and a chunk has its first line at or before      *)
(* its last.                                                                        *)
THEOREM DeclTyping == DeclSpec => []DeclTypeOK
<1>1. DeclInv => DeclTypeOK
  <2> SUFFICES ASSUME DeclInv PROVE DeclTypeOK
    OBVIOUS
  <2>1. lang \in DeclLang /\ \A i \in 1..Len(nodes) : nodes[i].under \in 0..(i - 1)
    BY DEF DeclInv, DeclTyped, NodesAreWritten
  <2>2. ASSUME Parsed, NEW c \in CollectChunks PROVE c.first \in 1..c.last
    <3> DEFINE p == nodes[c.node].first
    <3>1. /\ c.node \in 1..Len(nodes) /\ c.last = nodes[c.node].last /\ c.last # 0
          /\ c.first = IF lang = "rust" THEN ExtendStartForRustDocs(p) ELSE p
      BY <2>2, ChunkIs
    <3>2. p \in 1..Len(text) /\ c.last \in 1..Len(text) /\ p < c.last /\ Len(text) \in Nat
      BY <3>1 DEF DeclInv, DeclTyped, NodesAreWritten
    <3> HIDE DEF p
    <3>3. c.first \in 1..p
      BY <3>1, <3>2, ExtendedIs
    <3> QED
      BY <3>2, <3>3
  <2> QED
    BY <2>1, <2>2 DEF DeclTypeOK
<1> QED
  BY <1>1, SourcesGoOn, PTL

(***************************************************************************)
(* Intercepted searches, for commands of any length.                       *)
(***************************************************************************)
(* What a scan and a reading are.                                              *)
HookScan ==
  [next : {"any", "skip", "pattern", "tail"}, gaveUp : BOOLEAN,
   patterns : Seq(1..Len(args)), positionals : Seq(1..Len(args))]
ToolReading ==
  [next : {"any", "value", "pattern", "tail"}, ok : BOOLEAN,
   patterns : Seq(1..Len(args)), positionals : Seq(1..Len(args))]

(* What each way of going on makes of the parts of a scan.                            *)
LEMMA ScanParts ==
  ASSUME args \in Seq(Token), NEW scan \in HookScan, NEW i \in 1..Len(args)
  PROVE  /\ Resumed(scan) \in HookScan /\ WithPattern(scan, i) \in HookScan
         /\ WithPositional(scan, i) \in HookScan
         /\ [scan EXCEPT !.gaveUp = TRUE] \in HookScan
         /\ \A next \in {"any", "skip", "pattern", "tail"} : [scan EXCEPT !.next = next] \in HookScan
<1>1. Append(scan.patterns, i) \in Seq(1..Len(args)) /\ Append(scan.positionals, i) \in Seq(1..Len(args))
  BY DEF HookScan
<1> QED
  BY <1>1 DEF HookScan, Resumed, WithPattern, WithPositional

LEMMA ScanStays ==
  ASSUME args \in Seq(Token), NEW scan \in HookScan, NEW i \in 1..Len(args)
  PROVE  ScanArgument(scan, i) \in HookScan
<1>1. Resumed(scan) \in HookScan
  BY ScanParts
<1>2. WithPattern(Resumed(scan), i) \in HookScan
  BY <1>1, ScanParts
<1>3. ScanNext(scan, i) \in HookScan
  BY ScanParts, Zenon DEF ScanNext
<1> QED
  BY <1>1, <1>2, <1>3, ScanParts, Zenon DEF ScanArgument

LEMMA ReadingParts ==
  ASSUME args \in Seq(Token), NEW seen \in ToolReading, NEW i \in 1..Len(args)
  PROVE  /\ Resumed(seen) \in ToolReading /\ WithPattern(seen, i) \in ToolReading
         /\ WithPositional(seen, i) \in ToolReading /\ Valued(seen, i) \in ToolReading
         /\ \A next \in {"any", "value", "pattern", "tail"} : [seen EXCEPT !.next = next] \in ToolReading
<1>1. Append(seen.patterns, i) \in Seq(1..Len(args)) /\ Append(seen.positionals, i) \in Seq(1..Len(args))
  BY DEF ToolReading
<1>2. (seen.ok /\ args[i] = "word") \in BOOLEAN
  OBVIOUS
<1> QED
  BY <1>1, <1>2 DEF ToolReading, Resumed, WithPattern, WithPositional, Valued

LEMMA ReadingStays ==
  ASSUME args \in Seq(Token), NEW seen \in ToolReading, NEW i \in 1..Len(args)
  PROVE  ToolStep(seen, i) \in ToolReading
<1>1. Valued(seen, i) \in ToolReading
  BY ReadingParts
<1>2. WithPattern(Valued(seen, i), i) \in ToolReading
  BY <1>1, ReadingParts
<1>3. ToolNext(seen, i) \in ToolReading
  BY ReadingParts, Zenon DEF ToolNext
<1> QED
  BY <1>1, <1>2, <1>3, ReadingParts, Zenon DEF ToolStep

(* The scans and the readings of a command exist, and go on as the steps say.                *)
LEMMA ScansAre ==
  ASSUME args \in Seq(Token)
  PROVE  /\ Scans[0] = ScanStart
         /\ \A i \in 1..Len(args) : Scans[i] = ScanArgument(Scans[i - 1], i)
         /\ \A i \in 0..Len(args) : Scans[i] \in HookScan
<1> DEFINE n == Len(args)
           step == [xi \in HookScan \X (1..n) |-> ScanArgument(xi[1], xi[2])]
<1>1. n \in Nat /\ ScanStart \in HookScan
  BY DEF ScanStart, HookScan
<1>2. \A scan \in HookScan, i \in 1..n : step[<<scan, i>>] = ScanArgument(scan, i) /\ step[<<scan, i>>] \in HookScan
  BY ScanStays
<1> HIDE DEF step, n
<1>3. PICK f \in [0..n -> HookScan] : IsRun(f, n, ScanStart, step)
  <2>1. StepsStay(step, n, HookScan)
    BY <1>2 DEF StepsStay
  <2> QED
    BY <1>1, <2>1, Iterated
<1>4. \A i \in 0..n : i = 0 \/ (i \in 1..n /\ i - 1 \in 0..n)
  BY <1>1
<1>5. f = [i \in 0..n |-> IF i = 0 THEN ScanStart ELSE ScanArgument(f[i - 1], i)]
  BY <1>2, <1>3, <1>4 DEF IsRun
<1>6. Scans = [i \in 0..n |-> IF i = 0 THEN ScanStart ELSE ScanArgument(Scans[i - 1], i)]
  BY <1>5, Zenon DEF Scans, n
<1>7. 0 \in 0..n /\ \A i \in 1..n : i \in 0..n /\ i # 0
  BY <1>1
<1>8. Scans[0] = ScanStart /\ \A i \in 1..n : Scans[i] = ScanArgument(Scans[i - 1], i)
  BY <1>6, <1>7
<1>9. \A i \in 1..n : Scans[i - 1] \in HookScan => Scans[i] \in HookScan
  BY <1>8, ScanStays DEF n
<1>10. \A i \in 0..n : Scans[i] \in HookScan
  BY <1>1, <1>8, <1>9, IteratedStays
<1> QED
  BY <1>8, <1>10 DEF n

LEMMA ReadingsAre ==
  ASSUME args \in Seq(Token)
  PROVE  /\ Readings[0] = ToolStart
         /\ \A i \in 1..Len(args) : Readings[i] = ToolStep(Readings[i - 1], i)
         /\ \A i \in 0..Len(args) : Readings[i] \in ToolReading
<1> DEFINE n == Len(args)
           step == [xi \in ToolReading \X (1..n) |-> ToolStep(xi[1], xi[2])]
<1>1. n \in Nat /\ ToolStart \in ToolReading
  BY DEF ToolStart, ToolReading
<1>2. \A seen \in ToolReading, i \in 1..n : step[<<seen, i>>] = ToolStep(seen, i) /\ step[<<seen, i>>] \in ToolReading
  BY ReadingStays
<1> HIDE DEF step, n
<1>3. PICK f \in [0..n -> ToolReading] : IsRun(f, n, ToolStart, step)
  <2>1. StepsStay(step, n, ToolReading)
    BY <1>2 DEF StepsStay
  <2> QED
    BY <1>1, <2>1, Iterated
<1>4. \A i \in 0..n : i = 0 \/ (i \in 1..n /\ i - 1 \in 0..n)
  BY <1>1
<1>5. f = [i \in 0..n |-> IF i = 0 THEN ToolStart ELSE ToolStep(f[i - 1], i)]
  BY <1>2, <1>3, <1>4 DEF IsRun
<1>6. Readings = [i \in 0..n |-> IF i = 0 THEN ToolStart ELSE ToolStep(Readings[i - 1], i)]
  BY <1>5, Zenon DEF Readings, n
<1>7. 0 \in 0..n /\ \A i \in 1..n : i \in 0..n /\ i # 0
  BY <1>1
<1>8. Readings[0] = ToolStart /\ \A i \in 1..n : Readings[i] = ToolStep(Readings[i - 1], i)
  BY <1>6, <1>7
<1>9. \A i \in 1..n : Readings[i - 1] \in ToolReading => Readings[i] \in ToolReading
  BY <1>8, ReadingStays DEF n
<1>10. \A i \in 0..n : Readings[i] \in ToolReading
  BY <1>1, <1>8, <1>9, IteratedStays
<1> QED
  BY <1>8, <1>10 DEF n

(* As long as neither has given up: what the tool has read as a pattern or a path the hook has  *)
(* too, as a pattern or a positional; only what the hook has taken as a positional can be a       *)
(* value to the tool.                                                           *)
Agree(scan, seen) ==
  (~scan.gaveUp /\ seen.ok) =>
    /\ \/ scan.next = "any" /\ seen.next \in {"any", "value", "pattern"}
       \/ scan.next = "skip" /\ seen.next = "value"
       \/ scan.next = "pattern" /\ seen.next = "pattern"
       \/ scan.next = "tail" /\ seen.next = "tail"
    /\ scan.positionals = <<>> => seen.patterns = scan.patterns /\ seen.positionals = <<>>
    /\ (Len(scan.positionals) = 1 /\ scan.patterns = <<>>) =>
         \/ seen.patterns = <<>> /\ seen.positionals \in {<<>>, scan.positionals}
         \/ seen.patterns = scan.positionals /\ seen.positionals = <<>>

(* The parts a step leaves and those it changes.                                      *)
LEMMA HookFields ==
  ASSUME args \in Seq(Token), NEW scan \in HookScan, NEW i \in 1..Len(args)
  PROVE  /\ Resumed(scan).next = "any" /\ Resumed(scan).patterns = scan.patterns
         /\ Resumed(scan).positionals = scan.positionals
         /\ WithPattern(scan, i).next = scan.next
         /\ WithPattern(scan, i).patterns = Append(scan.patterns, i)
         /\ WithPattern(scan, i).positionals = scan.positionals
         /\ WithPositional(scan, i).next = scan.next
         /\ WithPositional(scan, i).patterns = scan.patterns
         /\ WithPositional(scan, i).positionals = Append(scan.positionals, i)
         /\ \A next : /\ [scan EXCEPT !.next = next].next = next
                      /\ [scan EXCEPT !.next = next].patterns = scan.patterns
                      /\ [scan EXCEPT !.next = next].positionals = scan.positionals
BY DEF HookScan, Resumed, WithPattern, WithPositional

LEMMA ToolFields ==
  ASSUME args \in Seq(Token), NEW seen \in ToolReading, NEW i \in 1..Len(args)
  PROVE  /\ Valued(seen, i).next = "any" /\ Valued(seen, i).patterns = seen.patterns
         /\ Valued(seen, i).positionals = seen.positionals
         /\ Valued(seen, i).ok <=> seen.ok /\ args[i] = "word"
         /\ WithPattern(seen, i).next = seen.next /\ (WithPattern(seen, i).ok <=> seen.ok)
         /\ WithPattern(seen, i).patterns = Append(seen.patterns, i)
         /\ WithPattern(seen, i).positionals = seen.positionals
         /\ WithPositional(seen, i).next = seen.next /\ (WithPositional(seen, i).ok <=> seen.ok)
         /\ WithPositional(seen, i).patterns = seen.patterns
         /\ WithPositional(seen, i).positionals = Append(seen.positionals, i)
         /\ \A next : /\ [seen EXCEPT !.next = next].next = next
                      /\ [seen EXCEPT !.next = next].patterns = seen.patterns
                      /\ [seen EXCEPT !.next = next].positionals = seen.positionals
                      /\ [seen EXCEPT !.next = next].ok <=> seen.ok
BY DEF ToolReading, Resumed, Valued, WithPattern, WithPositional

(* A sequence grown by one.                                                     *)
LEMMA GrownByOne ==
  ASSUME NEW S, NEW s \in Seq(S), NEW i \in S
  PROVE  /\ Append(s, i) # <<>>
         /\ Len(Append(s, i)) = 1 => s = <<>>
         /\ s = <<>> => Append(s, i) = <<i>>
<1>1. Len(Append(s, i)) = Len(s) + 1 /\ Len(s) \in Nat
  OBVIOUS
<1>2. Append(s, i) # <<>> /\ (Len(Append(s, i)) = 1 => Len(s) = 0)
  BY <1>1
<1>3. Len(s) = 0 => s = <<>>
  OBVIOUS
<1>4. s = <<>> => Append(s, i) = <<i>>
  OBVIOUS
<1> QED
  BY <1>2, <1>3, <1>4

LEMMA AgreementStays ==
  ASSUME args \in Seq(Token), tool = "rg", NEW i \in 1..Len(args),
         NEW scan \in HookScan, NEW seen \in ToolReading, Agree(scan, seen)
  PROVE  Agree(ScanArgument(scan, i), ToolStep(seen, i))
<1> DEFINE scan2 == ScanArgument(scan, i)
           seen2 == ToolStep(seen, i)
           t == args[i]
<1>1. scan.gaveUp => scan2.gaveUp
  BY Zenon DEF ScanArgument
<1>2. ~seen.ok => ~seen2.ok
  <2>1. CASE seen.next = "tail"
    BY <2>1, ToolFields DEF ToolStep
  <2>2. CASE seen.next = "value"
    BY <2>2, ToolFields DEF ToolStep
  <2>3. CASE seen.next = "pattern"
    <3>1. Valued(seen, i) \in ToolReading
      BY ReadingParts
    <3> QED
      BY <2>3, <3>1, ToolFields DEF ToolStep
  <2>4. CASE seen.next = "any"
    <3>1. ~seen.ok => ~ToolNext(seen, i).ok
      BY ToolFields DEF ToolNext
    <3> QED
      BY <2>4, <3>1 DEF ToolStep
  <2> QED
    BY <2>1, <2>2, <2>3, <2>4 DEF ToolReading
<1>3. SUFFICES ASSUME ~scan.gaveUp, seen.ok, ~scan2.gaveUp, seen2.ok PROVE Agree(scan2, seen2)
  BY <1>1, <1>2 DEF Agree
<1> DEFINE p == scan.patterns
           q == scan.positionals
<1>4. /\ p \in Seq(1..Len(args)) /\ q \in Seq(1..Len(args))
      /\ seen.patterns \in Seq(1..Len(args)) /\ seen.positionals \in Seq(1..Len(args))
  BY DEF HookScan, ToolReading
<1>5. /\ Append(p, i) # <<>> /\ Append(q, i) # <<>>
      /\ Len(Append(q, i)) = 1 => q = <<>>
      /\ q = <<>> => Append(q, i) = <<i>>
      /\ p = <<>> => Append(p, i) = <<i>>
  <2> HIDE DEF p, q
  <2> QED
    BY <1>4, GrownByOne
<1>6. /\ q = <<>> => seen.patterns = p /\ seen.positionals = <<>>
      /\ (Len(q) = 1 /\ p = <<>>) =>
           \/ seen.patterns = <<>> /\ seen.positionals \in {<<>>, q}
           \/ seen.patterns = q /\ seen.positionals = <<>>
  BY <1>3 DEF Agree
<1> HIDE DEF scan2, seen2
<1> DEFINE Next(x, y) ==
             \/ x = "any" /\ y \in {"any", "value", "pattern"}
             \/ x = "skip" /\ y = "value"
             \/ x = "pattern" /\ y = "pattern"
             \/ x = "tail" /\ y = "tail"
(* Neither takes the argument, the hook alone takes it, or both do.                  *)
<1>7. ASSUME Next(scan2.next, seen2.next),
             \/ /\ scan2.patterns = p /\ scan2.positionals = q
                /\ seen2.patterns = seen.patterns /\ seen2.positionals = seen.positionals
             \/ /\ scan2.patterns = p /\ scan2.positionals = Append(q, i)
                /\ seen2.patterns = seen.patterns
                /\ seen2.positionals \in {seen.positionals, Append(seen.positionals, i)}
             \/ /\ scan2.patterns = p /\ scan2.positionals = Append(q, i)
                /\ seen2.patterns = Append(seen.patterns, i) /\ seen2.positionals = seen.positionals
             \/ /\ scan2.patterns = Append(p, i) /\ scan2.positionals = q
                /\ seen2.patterns = Append(seen.patterns, i) /\ seen2.positionals = seen.positionals
      PROVE  Agree(scan2, seen2)
  <2> HIDE DEF p, q
  <2> QED
    BY <1>5, <1>6, <1>7, Zenon DEF Agree
<1> HIDE DEF p, q
<1>8. CASE scan.next = "tail" /\ seen.next = "tail"
  <2>1. scan2 = WithPositional(scan, i) /\ seen2 = WithPositional(seen, i)
    BY <1>3, <1>8 DEF scan2, seen2, ScanArgument, ToolStep
  <2> QED
    BY <1>7, <1>8, <2>1, HookFields, ToolFields DEF p, q
<1>9. CASE scan.next = "skip" /\ seen.next = "value"
  <2>1. scan2 = Resumed(scan) /\ seen2 = Valued(seen, i)
    BY <1>3, <1>9 DEF scan2, seen2, ScanArgument, ToolStep
  <2> QED
    BY <1>7, <1>9, <2>1, HookFields, ToolFields DEF p, q
<1>10. CASE scan.next = "pattern" /\ seen.next = "pattern"
  <2>1. scan2 = WithPattern(Resumed(scan), i) /\ seen2 = WithPattern(Valued(seen, i), i)
    BY <1>3, <1>10 DEF scan2, seen2, ScanArgument, ToolStep
  <2>2. Resumed(scan) \in HookScan /\ Valued(seen, i) \in ToolReading
    BY ScanParts, ReadingParts
  <2>3. /\ scan2.next = "any" /\ scan2.patterns = Append(p, i) /\ scan2.positionals = q
    <3>1. /\ Resumed(scan).next = "any" /\ Resumed(scan).patterns = p
          /\ Resumed(scan).positionals = q
      BY HookFields DEF p, q
    <3>2. /\ scan2.next = Resumed(scan).next /\ scan2.patterns = Append(Resumed(scan).patterns, i)
          /\ scan2.positionals = Resumed(scan).positionals
      BY <2>1, <2>2, HookFields
    <3> QED
      BY <3>1, <3>2, Zenon
  <2>4. /\ seen2.next = "any" /\ seen2.patterns = Append(seen.patterns, i)
        /\ seen2.positionals = seen.positionals
    BY <2>1, <2>2, ToolFields
  <2> QED
    BY <1>7, <2>3, <2>4
<1>11. CASE scan.next = "any" /\ seen.next \in {"value", "pattern"}
  <2>1. args[i] = "word" /\ seen2.next = "any" /\ seen2.positionals = seen.positionals
        /\ seen2.patterns \in {seen.patterns, Append(seen.patterns, i)}
    <3>1. CASE seen.next = "value"
      <4>1. seen2 = Valued(seen, i)
        BY <3>1 DEF seen2, ToolStep
      <4> QED
        BY <1>3, <4>1, ToolFields
    <3>2. CASE seen.next = "pattern"
      <4>1. seen2 = WithPattern(Valued(seen, i), i) /\ Valued(seen, i) \in ToolReading
        BY <3>2, ReadingParts DEF seen2, ToolStep
      <4>2. (seen2.ok <=> Valued(seen, i).ok) /\ seen2.next = Valued(seen, i).next
            /\ seen2.patterns = Append(Valued(seen, i).patterns, i)
            /\ seen2.positionals = Valued(seen, i).positionals
        BY <4>1, ToolFields
      <4> QED
        BY <1>3, <4>2, ToolFields
    <3> QED
      BY <1>11, <3>1, <3>2
  <2>2. scan2 = WithPositional(scan, i)
    <3>1. ScanNext(scan, i) = WithPositional(scan, i)
      BY <2>1 DEF ScanNext, Disruptive, PatternNext, PatternGlued, SkipsNext, Positional
    <3> QED
      BY <1>3, <1>11, <3>1 DEF scan2, ScanArgument
  <2>3. scan2.next = "any" /\ scan2.patterns = p /\ scan2.positionals = Append(q, i)
    BY <1>11, <2>2, HookFields DEF p, q
  <2> QED
    BY <1>7, <2>1, <2>3
<1>12. CASE scan.next = "any" /\ seen.next = "any"
  <2>1. scan2 = ScanNext(scan, i) /\ seen2 = ToolNext(seen, i)
    BY <1>3, <1>12 DEF scan2, seen2, ScanArgument, ToolStep
  <2>2. t \in Token
    OBVIOUS
  <2> USE DEF Token, PlainFlag, Disruptive, PatternNext, PatternGlued, SkipsNext, Positional,
              TakesPattern, TakesValue
  <2>3. CASE t = "--"
    <3>1. scan2 = [scan EXCEPT !.next = "tail"] /\ seen2 = [seen EXCEPT !.next = "tail"]
      BY <2>1, <2>3 DEF ScanNext, ToolNext
    <3> QED
      BY <1>7, <3>1, HookFields, ToolFields DEF p, q
  <2>4. CASE t \in Disruptive
    <3>1. scan2 = [scan EXCEPT !.gaveUp = TRUE]
      BY <2>1, <2>4 DEF ScanNext
    <3> QED
      BY <1>3, <3>1 DEF HookScan
  <2>5. CASE t \in PatternNext
    <3>1. scan2 = [scan EXCEPT !.next = "pattern"] /\ seen2 = [seen EXCEPT !.next = "pattern"]
      BY <2>1, <2>5 DEF ScanNext, ToolNext
    <3> QED
      BY <1>7, <3>1, HookFields, ToolFields DEF p, q
  <2>6. CASE t \in PatternGlued
    <3>1. scan2 = WithPattern(scan, i) /\ seen2 = WithPattern(seen, i)
      BY <2>1, <2>6 DEF ScanNext, ToolNext
    <3> QED
      BY <1>7, <1>12, <3>1, HookFields, ToolFields DEF p, q
  <2>7. CASE t \in SkipsNext
    <3>1. scan2 = [scan EXCEPT !.next = "skip"] /\ seen2 = [seen EXCEPT !.next = "value"]
      BY <2>1, <2>7 DEF ScanNext, ToolNext
    <3> QED
      BY <1>7, <3>1, HookFields, ToolFields DEF p, q
  <2>8. CASE t \in Positional
    <3>1. scan2 = WithPositional(scan, i) /\ seen2 = WithPositional(seen, i)
      BY <2>1, <2>8 DEF ScanNext, ToolNext
    <3> QED
      BY <1>7, <1>12, <3>1, HookFields, ToolFields DEF p, q
  <2>9. CASE t \in Token \ ({"--"} \cup Disruptive \cup PatternNext \cup PatternGlued \cup SkipsNext \cup Positional)
    <3>1. scan2 = scan
      BY <2>1, <2>9 DEF ScanNext
    <3>2. \/ seen2 = seen
          \/ \E next \in {"pattern", "value"} : seen2 = [seen EXCEPT !.next = next]
      BY <2>1, <2>9 DEF ToolNext
    <3>3. seen2.next \in {"any", "value", "pattern"} /\ seen2.patterns = seen.patterns
          /\ seen2.positionals = seen.positionals
      <4>1. CASE seen2 = seen
        BY <1>12, <4>1
      <4>2. ASSUME NEW next \in {"pattern", "value"}, seen2 = [seen EXCEPT !.next = next]
            PROVE  seen2.next = next /\ seen2.patterns = seen.patterns
                   /\ seen2.positionals = seen.positionals
        BY <4>2 DEF ToolReading
      <4> QED
        BY <3>2, <4>1, <4>2
    <3>4. Next(scan2.next, seen2.next)
      BY <1>12, <3>1, <3>3
    <3>5. scan2.patterns = p /\ scan2.positionals = q
      BY <3>1 DEF p, q
    <3> QED
      BY <1>7, <3>3, <3>4, <3>5
  <2> QED
    BY <2>2, <2>3, <2>4, <2>5, <2>6, <2>7, <2>8, <2>9
<1> QED
  BY <1>3, <1>8, <1>9, <1>10, <1>11, <1>12 DEF Agree

(* The scan of a command of rg agrees with what rg reads, argument by argument.               *)
LEMMA ScansAgree ==
  ASSUME args \in Seq(Token), tool = "rg"
  PROVE  \A i \in 0..Len(args) : Agree(Scans[i], Readings[i])
<1> DEFINE n == Len(args)
           S == {i \in 0..n : Agree(Scans[i], Readings[i])}
<1>1. n \in Nat
  OBVIOUS
<1>2. Agree(Scans[0], Readings[0])
  BY ScansAre, ReadingsAre DEF Agree, ScanStart, ToolStart
<1>3. ASSUME NEW i \in 1..n, i - 1 \in S PROVE i \in S
  <2>1. Scans[i] = ScanArgument(Scans[i - 1], i) /\ Scans[i - 1] \in HookScan
    BY <1>1, <1>3, ScansAre
  <2>2. Readings[i] = ToolStep(Readings[i - 1], i) /\ Readings[i - 1] \in ToolReading
    BY <1>1, <1>3, ReadingsAre
  <2>3. Agree(Scans[i - 1], Readings[i - 1])
    BY <1>3
  <2>4. Agree(ScanArgument(Scans[i - 1], i), ToolStep(Readings[i - 1], i))
    BY <2>1, <2>2, <2>3, AgreementStays
  <2> QED
    BY <1>1, <1>3, <2>1, <2>2, <2>4
<1>4. 0 \in S
  BY <1>1, <1>2
<1> HIDE DEF S, n
<1>5. \A i \in 0..n : i \in S
  BY <1>1, <1>3, <1>4, UpTo
<1> QED
  BY <1>5 DEF S, n

GrepVariablesOK == wrappers \in Seq(Wrapper) /\ tool \in Tool /\ args \in Seq(Token)

LEMMA GrepVariablesStay == GrepSpec => []GrepVariablesOK
<1>1. GrepInit => GrepVariablesOK
  BY DEF GrepInit, GrepVariablesOK
<1>2. GrepVariablesOK /\ [GrepNext]_grepVars => GrepVariablesOK'
  <2> SUFFICES ASSUME GrepVariablesOK, [GrepNext]_grepVars PROVE GrepVariablesOK'
    OBVIOUS
  <2> USE DEF GrepVariablesOK
  <2>1. CASE WrapCommand
    BY <2>1 DEF WrapCommand
  <2>2. CASE TypeArgument
    BY <2>2 DEF TypeArgument
  <2>3. CASE UNCHANGED grepVars
    BY <2>3 DEF grepVars
  <2> QED
    BY <2>1, <2>2, <2>3 DEF GrepNext
<1> QED
  BY <1>1, <1>2, PTL DEF GrepSpec

(* Whatever the program, the hook searches for an argument of the command or leaves it.         *)
LEMMA PatternIsAnArgument ==
  ASSUME args \in Seq(Token)
  PROVE  ExtractPattern \in 0..Len(args)
<1>1. Len(args) \in Nat /\ Len(args) \in 0..Len(args)
  OBVIOUS
<1>2. Scans[Len(args)] \in HookScan
  BY <1>1, ScansAre
<1> DEFINE scan == Scans[Len(args)]
<1>3. scan.patterns \in Seq(1..Len(args)) /\ scan.positionals \in Seq(1..Len(args))
  BY <1>2 DEF HookScan
<1>4. ASSUME NEW s \in Seq(1..Len(args)), Len(s) = 1 PROVE s[1] \in 0..Len(args)
  <2>1. 1 \in 1..Len(s)
    BY <1>4
  <2>2. s[1] \in 1..Len(args)
    BY <2>1
  <2> QED
    BY <1>1, <2>2
<1> HIDE DEF scan
<1>5. 0 \in 0..Len(args)
  BY <1>1
<1>6. ExtractPattern = 0 \/ (Len(scan.patterns) = 1 /\ ExtractPattern = scan.patterns[1])
      \/ (Len(scan.positionals) = 1 /\ ExtractPattern = scan.positionals[1])
  BY Zenon DEF ExtractPattern, scan
<1> QED
  BY <1>3, <1>4, <1>5, <1>6

(* The variables of a command are of their types, and the pattern the hook extracts is one    *)
(* of its arguments (grep.rs, extract_pattern).                                              *)
THEOREM GrepTyping == GrepSpec => []GrepTypeOK
<1>1. GrepVariablesOK => GrepTypeOK
  BY PatternIsAnArgument DEF GrepVariablesOK, GrepTypeOK
<1> QED
  BY <1>1, GrepVariablesStay, PTL

(* A sequence of one.                                                          *)
LEMMA OfOne ==
  ASSUME NEW S, NEW s \in Seq(S), Len(s) = 1
  PROVE  s = <<s[1]>> /\ s # <<>> /\ Tail(s) = <<>>
<1>1. s # <<>>
  OBVIOUS
<1>2. Tail(s) \in Seq(S) /\ Len(Tail(s)) = 0
  BY <1>1
<1>3. Tail(s) = <<>>
  <2>1. ASSUME NEW t \in Seq(S), Len(t) = 0 PROVE t = <<>>
    BY <2>1, EmptySeq
  <2> QED
    BY <1>2, <2>1
<1>4. s = <<s[1]>>
  OBVIOUS
<1> QED
  BY <1>1, <1>3, <1>4

(* Of every command of rg, however long: what the hook takes for its pattern is what rg would     *)
(* search for, and rg would search no path of the user's choice.                         *)
THEOREM InterceptsThePattern == GrepSpec => []InterceptedIsThePattern
<1>1. GrepVariablesOK => InterceptedIsThePattern
  <2> SUFFICES ASSUME GrepVariablesOK, tool = "rg", ExtractPattern # 0, Runs
               PROVE  ToolPatterns = <<ExtractPattern>> /\ ToolPaths = <<>>
    BY DEF InterceptedIsThePattern
  <2> DEFINE scan == Scans[Len(args)]
             seen == Readings[Len(args)]
  <2>1. args \in Seq(Token) /\ Len(args) \in 0..Len(args)
    BY DEF GrepVariablesOK
  <2>2. scan \in HookScan /\ seen \in ToolReading /\ Agree(scan, seen)
    BY <2>1, ScansAre, ReadingsAre, ScansAgree
  <2> HIDE DEF scan, seen
  <2>3. /\ seen.ok /\ (seen.patterns # <<>> \/ seen.positionals # <<>>)
        /\ ToolPatterns = IF seen.patterns # <<>> THEN seen.patterns ELSE <<seen.positionals[1]>>
        /\ ToolPaths = IF seen.patterns # <<>> THEN seen.positionals ELSE Tail(seen.positionals)
    BY Zenon DEF Runs, ToolPatterns, ToolPaths, Understood, seen
  <2>4. /\ ~scan.gaveUp
        /\ \/ Len(scan.patterns) = 1 /\ scan.positionals = <<>> /\ ExtractPattern = scan.patterns[1]
           \/ /\ Len(scan.positionals) = 1 /\ scan.patterns = <<>>
              /\ ExtractPattern = scan.positionals[1]
    BY Zenon DEF ExtractPattern, scan
  <2>5. \A s \in Seq(1..Len(args)) : Len(s) = 1 => s = <<s[1]>> /\ s # <<>> /\ Tail(s) = <<>>
    BY OfOne
  <2>6. scan.patterns \in Seq(1..Len(args)) /\ scan.positionals \in Seq(1..Len(args))
    BY <2>2 DEF HookScan
  <2>7. CASE Len(scan.patterns) = 1 /\ scan.positionals = <<>> /\ ExtractPattern = scan.patterns[1]
    <3>1. seen.patterns = scan.patterns /\ seen.positionals = <<>>
      BY <2>2, <2>3, <2>4, <2>7 DEF Agree
    <3> QED
      BY <2>3, <2>5, <2>6, <2>7, <3>1
  <2>8. CASE Len(scan.positionals) = 1 /\ scan.patterns = <<>> /\ ExtractPattern = scan.positionals[1]
    <3>1. \/ seen.patterns = <<>> /\ seen.positionals \in {<<>>, scan.positionals}
          \/ seen.patterns = scan.positionals /\ seen.positionals = <<>>
      BY <2>2, <2>3, <2>4, <2>8 DEF Agree
    <3> QED
      BY <2>3, <2>5, <2>6, <2>8, <3>1
  <2> QED
    BY <2>4, <2>7, <2>8
<1> QED
  BY <1>1, GrepVariablesStay, PTL

(***************************************************************************)
(* Vectors and requests, for any texts, batches and answers.                  *)
(***************************************************************************)
RequestsOnTrack ==
  /\ requests \in Seq(Outcome)
  /\ Len(requests) <= Attempts
  /\ \A i \in 1..(Len(requests) - 1) : requests[i] \in Retryable
  /\ embedding = "request" =>
       /\ Len(requests) < Attempts
       /\ \A i \in 1..Len(requests) : requests[i] \in Retryable
  /\ embedding = "failed" /\ provider = "http_or_bundled" => Last(requests) = "narrow"
  /\ provider = "bundled" => embedding \notin {"request", "failed"}

(* One more request, after some that are to be sent again.                            *)
LEMMA OneMore ==
  ASSUME requests \in Seq(Outcome), Len(requests) < Attempts,
         \A i \in 1..Len(requests) : requests[i] \in Retryable,
         NEW outcome \in Outcome, requests' = Append(requests, outcome)
  PROVE  /\ requests' \in Seq(Outcome)
         /\ Len(requests') = Len(requests) + 1 /\ Len(requests') <= Attempts
         /\ \A i \in 1..(Len(requests') - 1) : requests'[i] \in Retryable
         /\ outcome \in Retryable => \A i \in 1..Len(requests') : requests'[i] \in Retryable
         /\ Last(requests') = outcome
<1>1. Len(requests) \in Nat
  OBVIOUS
<1>2. /\ requests' \in Seq(Outcome) /\ Len(requests') = Len(requests) + 1
      /\ \A i \in 1..Len(requests) : requests'[i] = requests[i]
      /\ requests'[Len(requests) + 1] = outcome
  OBVIOUS
<1>3. Len(requests) + 1 <= Attempts
  BY <1>1, EmbeddingAssumption
<1>4. Last(requests') = outcome
  BY <1>2 DEF Last
<1>5. \A i \in 1..(Len(requests') - 1) : requests'[i] \in Retryable
  BY <1>1, <1>2
<1>6. ASSUME outcome \in Retryable, NEW i \in 1..Len(requests') PROVE requests'[i] \in Retryable
  <2>1. i \in 1..Len(requests) \/ i = Len(requests) + 1
    BY <1>1, <1>2, <1>6
  <2> QED
    BY <1>2, <1>6, <2>1
<1> QED
  BY <1>2, <1>3, <1>4, <1>5, <1>6

BatchTyped ==
  /\ tokens \in [Text -> 1..Longest]
  /\ embedded \in Seq(Text) /\ Len(embedded) <= Items

(* A batch is the texts that follow those embedded.                                     *)
LEMMA LeastOfTwo ==
  ASSUME NEW a \in Nat, NEW b \in Nat
  PROVE  Min({a, b}) \in {a, b} /\ Min({a, b}) <= a /\ Min({a, b}) <= b
<1>1. \E x \in {a, b} : \A y \in {a, b} : x <= y
  OBVIOUS
<1>2. Min({a, b}) \in {a, b} /\ \A y \in {a, b} : Min({a, b}) <= y
  BY <1>1, Zenon DEF Min
<1> QED
  BY <1>2

LEMMA BatchIs ==
  ASSUME BatchTyped
  PROVE  /\ Len(embedded) \in Nat /\ Len(Batch) \in Nat
         /\ Len(embedded) + Len(Batch) <= Items
         /\ Batch \in Seq(Text) /\ \A i \in Indices : Batch[i] = Len(embedded) + i
         /\ Len(Batch) = 0 => Len(embedded) = Items
<1> DEFINE m == Len(embedded)
           last == Min({m + BatchSize, Items})
           all == [i \in Text |-> i]
<1>1. m \in Nat /\ m <= Items /\ Items \in Nat /\ BatchSize \in Nat /\ BatchSize # 0
  BY EmbeddingAssumption DEF BatchTyped
<1>2. last \in {m + BatchSize, Items} /\ last <= m + BatchSize /\ last <= Items
  <2> HIDE DEF m
  <2> QED
    BY <1>1, LeastOfTwo
<1>3. last \in Nat /\ m <= last /\ (last = m => m = Items)
  <2> HIDE DEF m
  <2> QED
    BY <1>1, <1>2
<1>4. all \in Seq(Text) /\ Len(all) = Items
  BY <1>1 DEF Text
<1>5. Batch = SubSeq(all, m + 1, last)
  BY DEF Batch
<1> HIDE DEF m, last, all
<1>6. /\ Batch \in Seq(Text)
      /\ Len(Batch) = IF m + 1 <= last THEN last - (m + 1) + 1 ELSE 0
      /\ \A i \in 1..((last - (m + 1)) + 1) : Batch[i] = all[(m + 1) + i - 1]
  <2>1. m + 1 \in Int /\ last \in Int
    BY <1>1, <1>3
  <2>2. \A i \in (m + 1)..last : i \in Text
    BY <1>1, <1>2, <1>3 DEF Text
  <2>3. \A i \in (m + 1)..last : all[i] \in Text
    BY <2>2 DEF all
  <2> QED
    BY <1>5, <2>1, <2>3, SubSeqProperties
<1>7. Len(Batch) = last - m
  BY <1>1, <1>3, <1>6
<1>8. ASSUME NEW i \in Indices PROVE Batch[i] = m + i
  <2>1. i \in 1..(last - m)
    BY <1>7, <1>8 DEF Indices
  <2>2. i \in 1..((last - (m + 1)) + 1) /\ (m + 1) + i - 1 = m + i /\ m + i \in Text
    BY <1>1, <1>2, <1>3, <2>1 DEF Text
  <2> QED
    BY <1>6, <2>2 DEF all
<1> QED
  BY <1>1, <1>2, <1>3, <1>6, <1>7, <1>8 DEF m

LEMMA TokensAre ==
  ASSUME BatchTyped, NEW i \in Indices
  PROVE  TokensOf(i) \in 1..Longest /\ TokensOf(i) \in Nat
<1>1. Batch[i] \in Text
  BY BatchIs DEF Indices
<1>2. TokensOf(i) \in 1..Longest
  BY <1>1 DEF BatchTyped, TokensOf
<1> QED
  BY <1>2, EmbeddingAssumption

(* Every text of the batch has its place in the order the texts are planned in.              *)
LEMMA EachInTheOrder ==
  ASSUME BatchTyped
  PROVE  /\ ShortestFirst \in [Indices -> Indices]
         /\ \A i \in Indices : \E n \in Indices : ShortestFirst[n] = i
<1> DEFINE before == [i \in Indices |-> RunBefore(i)]
           rank == [i \in Indices |-> 1 + Cardinality(RunBefore(i))]
<1>1. Len(Batch) \in Nat /\ IsFiniteSet(Indices) /\ Cardinality(Indices) = Len(Batch)
  <2> DEFINE n == Len(Batch)
  <2>1. n \in Nat
    BY BatchIs
  <2> HIDE DEF n
  <2>2. IsFiniteSet(1..n) /\ Cardinality(1..n) = n
    BY <2>1, FS_Interval
  <2> QED
    BY <2>1, <2>2 DEF Indices, n
<1>2. AreRanks(rank, Indices, before)
  <2>1. before \in [Indices -> SUBSET Indices]
    BY DEF RunBefore
  <2>2. \A i \in Indices : i \in Nat /\ TokensOf(i) \in Nat
    BY TokensAre DEF Indices
  <2>3. \A i, j \in Indices : j \in before[i] <=> (TokensOf(j) < TokensOf(i) \/ (TokensOf(j) = TokensOf(i) /\ j < i))
    BY DEF RunBefore
  <2>4. /\ \A i \in Indices : i \notin before[i]
        /\ \A i, j \in Indices : i = j \/ i \in before[j] \/ j \in before[i]
        /\ \A i, j, k \in Indices : i \in before[j] /\ j \in before[k] => i \in before[k]
    <3> HIDE DEF before
    <3> QED
      BY <2>2, <2>3
  <2>5. \A i \in Indices : IsFiniteSet(before[i]) /\ Cardinality(before[i]) \in Nat
    BY <1>1, <2>1, FS_Subset, FS_CardinalityType
  <2>6. \A i \in Indices : rank[i] = 1 + Cardinality(before[i])
    OBVIOUS
  <2>7. rank \in [Indices -> Nat]
    BY <2>5
  <2> HIDE DEF before, rank
  <2> QED
    BY <1>1, <2>1, <2>4, <2>6, <2>7 DEF AreRanks
<1>3. EachHasItsOwn(rank, Indices)
  <2> HIDE DEF before, rank
  <2> QED
    BY <1>2, RanksAreTaken
<1>4. ASSUME NEW n \in Indices
      PROVE  ShortestFirst[n] \in Indices /\ rank[ShortestFirst[n]] = n
  <2>1. n \in 1..Cardinality(Indices) /\ n \in Nat
    BY <1>1 DEF Indices
  <2>2. PICK i \in Indices : rank[i] = n
    BY <1>3, <2>1 DEF EachHasItsOwn
  <2>3. \A j \in Indices : Cardinality(RunBefore(j)) \in Nat
    BY <1>1, FS_Subset, FS_CardinalityType DEF RunBefore
  <2>4. \A j \in Indices : rank[j] = n <=> Cardinality(RunBefore(j)) = n - 1
    BY <2>1, <2>3
  <2> HIDE DEF rank
  <2>5. /\ ShortestFirst[n] \in Indices
        /\ Cardinality(RunBefore(ShortestFirst[n])) = n - 1
    BY <2>2, <2>4, Zenon DEF ShortestFirst
  <2> QED
    BY <2>4, <2>5
<1> HIDE DEF rank
<1>5. ASSUME NEW i \in Indices PROVE \E n \in Indices : ShortestFirst[n] = i
  <2>1. rank[i] \in Indices
    BY <1>1, <1>3 DEF EachHasItsOwn, Indices
  <2>2. rank[ShortestFirst[rank[i]]] = rank[i] /\ ShortestFirst[rank[i]] \in Indices
    BY <1>4, <2>1
  <2>3. ShortestFirst[rank[i]] = i
    BY <1>3, <2>2 DEF EachHasItsOwn
  <2> QED
    BY <2>1, <2>3
<1> QED
  BY <1>4, <1>5 DEF ShortestFirst

(* A plan so far: groups of indices, the order up to n among them.                        *)
PlanOf(n) ==
  {plan \in Seq(Seq(Indices)) :
     \A m \in 1..n : \E g \in DOMAIN plan : \E k \in DOMAIN plan[g] : plan[g][k] = ShortestFirst[m]}

LEMMA LastIsThere ==
  ASSUME NEW S, NEW s \in Seq(S), s # <<>>
  PROVE  Len(s) \in DOMAIN s /\ Last(s) = s[Len(s)] /\ Last(s) \in S
<1>1. Len(s) \in 1..Len(s)
  BY EmptySeq
<1> QED
  BY <1>1 DEF Last

LEMMA JoinPlaces ==
  ASSUME NEW plan \in Seq(Seq(Indices)), NEW i \in Indices
  PROVE  /\ Join(plan, i) \in Seq(Seq(Indices))
         /\ \A g \in DOMAIN plan : /\ g \in DOMAIN Join(plan, i)
                                   /\ \A k \in DOMAIN plan[g] : k \in DOMAIN Join(plan, i)[g]
                                                                /\ Join(plan, i)[g][k] = plan[g][k]
         /\ \E g \in DOMAIN Join(plan, i) : \E k \in DOMAIN Join(plan, i)[g] : Join(plan, i)[g][k] = i
<1>1. CASE Join(plan, i) = Append(plan, <<i>>)
  <2>1. <<i>> \in Seq(Indices) /\ 1 \in DOMAIN <<i>> /\ <<i>>[1] = i
    OBVIOUS
  <2> DEFINE q == <<i>>
  <2>2. q \in Seq(Indices) /\ 1 \in DOMAIN q /\ q[1] = i
    BY <2>1
  <2> HIDE DEF q
  <2>3. /\ Append(plan, q) \in Seq(Seq(Indices))
        /\ \A g \in DOMAIN plan : g \in DOMAIN Append(plan, q) /\ Append(plan, q)[g] = plan[g]
        /\ Len(plan) + 1 \in DOMAIN Append(plan, q) /\ Append(plan, q)[Len(plan) + 1] = q
    BY <2>2
  <2>4. Join(plan, i) = Append(plan, q)
    BY <1>1 DEF q
  <2> QED
    BY <2>2, <2>3, <2>4
<1>2. CASE plan # <<>> /\ Join(plan, i) = [plan EXCEPT ![Len(plan)] = Append(@, i)]
  <2> DEFINE last == Len(plan)
  <2>1. last \in DOMAIN plan /\ plan[last] \in Seq(Indices)
    BY <1>2, LastIsThere
  <2> DEFINE q == Append(plan[last], i)
  <2>2. /\ q \in Seq(Indices)
        /\ \A k \in DOMAIN plan[last] : k \in DOMAIN q /\ q[k] = plan[last][k]
        /\ Len(plan[last]) + 1 \in DOMAIN q /\ q[Len(plan[last]) + 1] = i
    BY <2>1
  <2>3. Join(plan, i) = [plan EXCEPT ![last] = q]
    BY <1>2
  <2> HIDE DEF q, last
  <2>4. /\ [plan EXCEPT ![last] = q] \in Seq(Seq(Indices))
        /\ DOMAIN [plan EXCEPT ![last] = q] = DOMAIN plan
        /\ [plan EXCEPT ![last] = q][last] = q
        /\ \A g \in DOMAIN plan : g # last => [plan EXCEPT ![last] = q][g] = plan[g]
    BY <2>1, <2>2
  <2> QED
    BY <2>1, <2>2, <2>3, <2>4
<1> QED
  BY <1>1, <1>2 DEF Join

LEMMA JoinCovers ==
  ASSUME BatchTyped, NEW n \in Indices, NEW plan \in PlanOf(n - 1)
  PROVE  Join(plan, ShortestFirst[n]) \in PlanOf(n)
<1> DEFINE i == ShortestFirst[n]
           after == Join(plan, i)
<1>1. i \in Indices /\ plan \in Seq(Seq(Indices)) /\ n \in Nat
  <2>1. i \in Indices
    BY EachInTheOrder
  <2>2. n \in Nat
    BY BatchIs DEF Indices
  <2> QED
    BY <2>1, <2>2 DEF PlanOf
<1> HIDE DEF i, after
<1>2. /\ after \in Seq(Seq(Indices))
      /\ \A g \in DOMAIN plan : /\ g \in DOMAIN after
                                /\ \A k \in DOMAIN plan[g] : k \in DOMAIN after[g] /\ after[g][k] = plan[g][k]
      /\ \E g \in DOMAIN after : \E k \in DOMAIN after[g] : after[g][k] = i
  BY <1>1, JoinPlaces DEF after
<1>3. ASSUME NEW m \in 1..n
      PROVE  \E g \in DOMAIN after : \E k \in DOMAIN after[g] : after[g][k] = ShortestFirst[m]
  <2>1. CASE m = n
    BY <1>2, <2>1 DEF i
  <2>2. CASE m # n
    <3>1. m \in 1..(n - 1)
      BY <1>1, <2>2
    <3>2. PICK g \in DOMAIN plan : \E k \in DOMAIN plan[g] : plan[g][k] = ShortestFirst[m]
      BY <3>1 DEF PlanOf
    <3> QED
      BY <1>2, <3>2
  <2> QED
    BY <2>1, <2>2
<1>4. after \in PlanOf(n)
  BY <1>2, <1>3 DEF PlanOf
<1> QED
  BY <1>4 DEF after, i

(* The plans for the n shortest texts exist, and have them all.                           *)
LEMMA PlansAre ==
  ASSUME BatchTyped
  PROVE  /\ Plans[0] = <<>>
         /\ \A n \in Indices : Plans[n] = Join(Plans[n - 1], ShortestFirst[n])
         /\ PlanSubBatches \in PlanOf(Len(Batch))
<1> DEFINE len == Len(Batch)
           A == Seq(Seq(Indices))
           step == [xi \in A \X (1..len) |-> Join(xi[1], ShortestFirst[xi[2]])]
<1>1. len \in Nat /\ Indices = 1..len
  BY BatchIs DEF Indices
<1>2. \A plan \in A, n \in 1..len : /\ step[<<plan, n>>] = Join(plan, ShortestFirst[n])
                                    /\ step[<<plan, n>>] \in A
  <2>1. ASSUME NEW plan \in A, NEW n \in 1..len PROVE Join(plan, ShortestFirst[n]) \in A
    <3>1. ShortestFirst[n] \in Indices
      BY <1>1, EachInTheOrder
    <3> QED
      BY <3>1, JoinPlaces
  <2> QED
    BY <2>1
<1> HIDE DEF step
<1>3. PICK f \in [0..len -> A] : IsRun(f, len, <<>>, step)
  <2>1. StepsStay(step, len, A)
    BY <1>2 DEF StepsStay
  <2>2. <<>> \in A
    OBVIOUS
  <2> HIDE DEF A, len
  <2> QED
    BY <1>1, <2>1, <2>2, Iterated
<1> HIDE DEF A, len
<1>4. \A n \in 0..len : n = 0 \/ (n \in 1..len /\ n - 1 \in 0..len)
  BY <1>1
<1>5. f = [n \in 0..len |-> IF n = 0 THEN <<>> ELSE Join(f[n - 1], ShortestFirst[n])]
  BY <1>2, <1>3, <1>4 DEF IsRun
<1>6. Plans = [n \in 0..len |-> IF n = 0 THEN <<>> ELSE Join(Plans[n - 1], ShortestFirst[n])]
  BY <1>5, Zenon DEF Plans, len
<1>7. 0 \in 0..len /\ \A n \in 1..len : n \in 0..len /\ n # 0
  BY <1>1
<1>8. Plans[0] = <<>> /\ \A n \in Indices : Plans[n] = Join(Plans[n - 1], ShortestFirst[n])
  BY <1>1, <1>6, <1>7
<1> DEFINE S == {n \in 0..len : Plans[n] \in PlanOf(n)}
<1>9. 0 \in S
  <2>1. <<>> \in Seq(Seq(Indices)) /\ 1..0 = {}
    OBVIOUS
  <2>2. <<>> \in PlanOf(0)
    BY <2>1 DEF PlanOf
  <2> QED
    BY <1>7, <1>8, <2>2
<1>10. ASSUME NEW n \in 1..len, n - 1 \in S PROVE n \in S
  <2>1. Plans[n - 1] \in PlanOf(n - 1) /\ n \in Indices
    BY <1>1, <1>10
  <2>2. Join(Plans[n - 1], ShortestFirst[n]) \in PlanOf(n)
    BY <2>1, JoinCovers
  <2> QED
    BY <1>7, <1>8, <2>1, <2>2
<1> HIDE DEF S
<1>11. len \in S
  <2>1. len \in 0..len
    BY <1>1
  <2> QED
    BY <1>1, <1>9, <1>10, <2>1, UpTo
<1> QED
  BY <1>8, <1>11 DEF S, PlanSubBatches, len

(* The budget holds of each group of several texts, in a plan so far and in the whole of it.     *)
WithinBudget(plan) ==
  \A g \in DOMAIN plan : Len(plan[g]) > 1 => Widest(plan[g]) * Len(plan[g]) <= TokenBudget

LEMMA JoinFits ==
  ASSUME NEW plan \in Seq(Seq(Indices)), NEW i \in Indices, WithinBudget(plan)
  PROVE  WithinBudget(Join(plan, i))
<1>1. CASE Join(plan, i) = Append(plan, <<i>>)
  <2> DEFINE q == <<i>>
  <2>1. q \in Seq(Indices) /\ Len(q) = 1
    OBVIOUS
  <2> HIDE DEF q
  <2>2. /\ \A g \in DOMAIN Append(plan, q) : g \in DOMAIN plan \/ g = Len(plan) + 1
        /\ \A g \in DOMAIN plan : Append(plan, q)[g] = plan[g]
        /\ Append(plan, q)[Len(plan) + 1] = q
    BY <2>1
  <2>3. Join(plan, i) = Append(plan, q)
    BY <1>1 DEF q
  <2>4. ~(Len(q) > 1)
    BY <2>1
  <2> QED
    BY <2>2, <2>3, <2>4, Zenon DEF WithinBudget
<1>2. CASE /\ plan # <<>> /\ Join(plan, i) = [plan EXCEPT ![Len(plan)] = Append(@, i)]
           /\ Widest(Append(Last(plan), i)) * (Len(Last(plan)) + 1) <= TokenBudget
  <2> DEFINE last == Len(plan)
             q == Append(plan[last], i)
  <2>1. last \in DOMAIN plan /\ Last(plan) = plan[last] /\ plan[last] \in Seq(Indices)
    BY <1>2, LastIsThere
  <2>2. Len(q) = Len(plan[last]) + 1
    BY <2>1
  <2>3. Widest(q) * Len(q) <= TokenBudget
    BY <1>2, <2>1, <2>2, Zenon
  <2>4. Join(plan, i) = [plan EXCEPT ![last] = q]
    BY <1>2
  <2> HIDE DEF q, last
  <2>5. /\ DOMAIN [plan EXCEPT ![last] = q] = DOMAIN plan
        /\ [plan EXCEPT ![last] = q][last] = q
        /\ \A g \in DOMAIN plan : g # last => [plan EXCEPT ![last] = q][g] = plan[g]
    BY <2>1
  <2> QED
    BY <2>3, <2>4, <2>5, Zenon DEF WithinBudget
<1> QED
  BY <1>1, <1>2, Zenon DEF Join

LEMMA PlansFit ==
  ASSUME BatchTyped
  PROVE  PlanSubBatches \in Seq(Seq(Indices)) /\ WithinBudget(PlanSubBatches)
<1> DEFINE len == Len(Batch)
           S == {n \in 0..len : Plans[n] \in Seq(Seq(Indices)) /\ WithinBudget(Plans[n])}
<1>1. len \in Nat /\ Indices = 1..len /\ len \in 0..len /\ 0 \in 0..len
  BY BatchIs DEF Indices
<1>2. 0 \in S
  <2>1. Plans[0] = <<>>
    BY PlansAre
  <2>2. <<>> \in Seq(Seq(Indices)) /\ DOMAIN <<>> = {}
    OBVIOUS
  <2>3. WithinBudget(<<>>)
    BY <2>2, Zenon DEF WithinBudget
  <2> QED
    BY <1>1, <2>1, <2>2, <2>3, Zenon
<1>3. ASSUME NEW n \in 1..len, n - 1 \in S PROVE n \in S
  <2>1. Plans[n - 1] \in Seq(Seq(Indices)) /\ WithinBudget(Plans[n - 1]) /\ n \in Indices
    BY <1>1, <1>3
  <2>2. Plans[n] = Join(Plans[n - 1], ShortestFirst[n]) /\ ShortestFirst[n] \in Indices
    BY <2>1, PlansAre, EachInTheOrder
  <2>3. Plans[n] \in Seq(Seq(Indices)) /\ WithinBudget(Plans[n])
    BY <2>1, <2>2, JoinPlaces, JoinFits, Zenon
  <2>4. n \in 0..len
    BY <1>1
  <2> QED
    BY <2>3, <2>4, Zenon
<1> HIDE DEF S
<1>4. len \in S
  BY <1>1, <1>2, <1>3, UpTo
<1> QED
  BY <1>4 DEF S, PlanSubBatches

(* No text is skipped, and each gets the vector the model gave it.                        *)
LEMMA VectorsAreReassembled ==
  ASSUME BatchTyped
  PROVE  /\ \A i \in Indices : At(PlanSubBatches, i) # {}
         /\ Reassembled(PlanSubBatches) = [i \in Indices |-> Batch[i]]
<1> DEFINE plan == PlanSubBatches
<1>1. plan \in PlanOf(Len(Batch)) /\ Indices = 1..Len(Batch)
  BY PlansAre DEF Indices
<1> HIDE DEF plan
<1>2. ASSUME NEW i \in Indices PROVE At(plan, i) # {}
  <2>1. PICK m \in Indices : ShortestFirst[m] = i
    BY EachInTheOrder
  <2>2. PICK g \in DOMAIN plan : \E k \in DOMAIN plan[g] : plan[g][k] = i
    BY <1>1, <2>1 DEF PlanOf
  <2>3. PICK k \in DOMAIN plan[g] : plan[g][k] = i
    BY <2>2
  <2>4. <<g, k>> \in UNION {{h} \X DOMAIN plan[h] : h \in DOMAIN plan}
    BY <2>2, <2>3
  <2>5. <<g, k>> \in At(plan, i)
    BY <2>3, <2>4 DEF At
  <2> QED
    BY <2>5
<1>3. ASSUME NEW i \in Indices, NEW place \in At(plan, i)
      PROVE  Vectors(plan[place[1]])[place[2]] = Batch[i]
  <2>1. plan[place[1]][place[2]] = i /\ place \in UNION {{g} \X DOMAIN plan[g] : g \in DOMAIN plan}
    BY DEF At
  <2>2. PICK g \in DOMAIN plan : place \in {g} \X DOMAIN plan[g]
    BY <2>1
  <2>3. place[1] = g /\ place[2] \in DOMAIN plan[g]
    BY <2>2
  <2> QED
    BY <2>1, <2>3 DEF Vectors
<1>4. ASSUME NEW i \in Indices PROVE Reassembled(plan)[i] = Batch[i]
  <2>1. \E place \in At(plan, i) : TRUE
    BY <1>2
  <2> DEFINE p == CHOOSE place \in At(plan, i) : TRUE
  <2>2. p \in At(plan, i)
    BY <2>1, Zenon
  <2>3. Reassembled(plan)[i] = Vectors(plan[p[1]])[p[2]]
    BY Zenon DEF Reassembled
  <2> HIDE DEF p
  <2> QED
    BY <1>3, <2>2, <2>3
<1>5. Reassembled(plan) = [i \in Indices |-> Reassembled(plan)[i]]
  <2> DEFINE v(i) == LET place == CHOOSE place \in At(plan, i) : TRUE
                     IN  Vectors(plan[place[1]])[place[2]]
  <2>1. Reassembled(plan) = [i \in Indices |-> v(i)]
    BY DEF Reassembled
  <2> HIDE DEF v
  <2> QED
    BY <2>1
<1> QED
  BY <1>2, <1>4, <1>5 DEF plan

(* What the endpoint answered is put in the order of the texts by the numbers.                *)
LEMMA AnswersAreInOrder ==
  ASSUME BatchTyped, NEW p \in Payload
  PROVE  InOrder(p) = [i \in Indices |-> Batch[i]]
<1> DEFINE of == [j \in Indices |-> p[j].of]
<1>1. /\ p \in [Indices -> [of : Indices, numbered : BOOLEAN]] /\ DOMAIN p = Indices
      /\ \A i, j \in Indices : i # j => p[i].of # p[j].of
      /\ \A i \in Indices : ~p[i].numbered => p[i].of = i
  BY DEF Payload, Indices
<1>2. \A j \in Indices : Index(p, j) = p[j].of
  BY <1>1 DEF Index
<1>3. IsFiniteSet(Indices)
  BY BatchIs, FS_Interval DEF Indices
<1>4. of \in Injection(Indices, Indices)
  BY <1>1 DEF Injection, IsInjective
<1>5. of \in Surjection(Indices, Indices)
  <2> HIDE DEF of
  <2> QED
    BY <1>3, <1>4, FS_Injection
<1>6. ASSUME NEW i \in Indices PROVE InOrder(p)[i] = Batch[i]
  <2>1. \E j \in DOMAIN p : Index(p, j) = i
    <3>1. PICK j \in Indices : of[j] = i
      BY <1>5 DEF Surjection
    <3> QED
      BY <1>1, <1>2, <3>1
  <2> DEFINE j == CHOOSE position \in DOMAIN p : Index(p, position) = i
  <2>2. j \in DOMAIN p /\ Index(p, j) = i
    BY <2>1, Zenon
  <2>3. InOrder(p)[i] = Batch[p[j].of]
    BY Zenon DEF InOrder, Indices
  <2> HIDE DEF j
  <2> QED
    BY <1>1, <1>2, <2>2, <2>3
<1> QED
  BY <1>6, Zenon DEF InOrder, Indices

(* A batch is appended, all of it.                                                   *)
LEMMA BatchAppended ==
  ASSUME BatchTyped, embedded = [i \in 1..Len(embedded) |-> i], NEW vectors,
         vectors = [i \in Indices |-> Batch[i]], embedded' = embedded \o vectors
  PROVE  /\ embedded' \in Seq(Text) /\ Len(embedded') <= Items
         /\ embedded' = [i \in 1..Len(embedded') |-> i]
<1> DEFINE m == Len(embedded)
           n == Len(Batch)
<1>1. /\ m \in Nat /\ n \in Nat /\ m + n <= Items /\ Items \in Nat /\ embedded \in Seq(Text)
      /\ \A i \in 1..n : Batch[i] = m + i
      /\ \A i \in 1..n : Batch[i] \in Text
  <2>1. /\ m \in Nat /\ n \in Nat /\ m + n <= Items /\ Batch \in Seq(Text)
        /\ \A i \in 1..n : Batch[i] = m + i
    BY BatchIs DEF Indices
  <2>2. \A i \in 1..n : Batch[i] \in Text
    BY <2>1
  <2> QED
    BY <2>1, <2>2, EmbeddingAssumption DEF BatchTyped
<1>2. vectors \in Seq(Text) /\ Len(vectors) = n /\ \A i \in 1..n : vectors[i] = m + i
  <2> HIDE DEF m, n
  <2>1. vectors = [i \in 1..n |-> Batch[i]]
    BY DEF Indices, n
  <2>2. vectors \in [1..n -> Text]
    BY <1>1, <2>1
  <2>3. n \in Nat
    BY <1>1
  <2>4. vectors \in Seq(Text) /\ Len(vectors) = n
    BY <2>2, <2>3
  <2> QED
    BY <1>1, <2>1, <2>4
<1> DEFINE after == embedded \o vectors
<1>3. /\ after \in Seq(Text) /\ Len(after) = m + n
      /\ \A i \in 1..(m + n) : after[i] = IF i <= m THEN embedded[i] ELSE vectors[i - m]
  <2>1. embedded \in Seq(Text) /\ vectors \in Seq(Text) /\ Len(vectors) = n
    BY <1>1, <1>2, Zenon
  <2>2. /\ after \in Seq(Text) /\ Len(after) = Len(embedded) + Len(vectors)
        /\ \A i \in 1..(Len(embedded) + Len(vectors)) :
             after[i] = IF i <= Len(embedded) THEN embedded[i] ELSE vectors[i - Len(embedded)]
    <3>1. after = embedded \o vectors
      OBVIOUS
    <3> HIDE DEF after, m, n
    <3>2. /\ embedded \o vectors \in Seq(Text)
          /\ Len(embedded \o vectors) = Len(embedded) + Len(vectors)
          /\ \A i \in 1..(Len(embedded) + Len(vectors)) :
               (embedded \o vectors)[i] =
                 IF i <= Len(embedded) THEN embedded[i] ELSE vectors[i - Len(embedded)]
      BY <2>1, ConcatProperties
    <3> QED
      BY <3>1, <3>2, Zenon
  <2>3. Len(embedded) = m
    OBVIOUS
  <2> HIDE DEF after, m, n
  <2> QED
    BY <2>1, <2>2, <2>3
<1>4. ASSUME NEW i \in 1..m PROVE embedded[i] = i
  BY <1>1
<1> HIDE DEF after, m, n
<1>5. ASSUME NEW i \in 1..(m + n) PROVE after[i] = i
  <2>1. i \in Nat
    BY <1>1
  <2>2. CASE i <= m
    <3>1. i \in 1..m
      BY <1>1, <1>5, <2>1, <2>2
    <3>2. embedded[i] = i
      BY <1>4, <3>1
    <3>3. after[i] = IF i <= m THEN embedded[i] ELSE vectors[i - m]
      BY <1>3, <1>5, Zenon
    <3> QED
      BY <2>2, <3>2, <3>3, Zenon
  <2>3. CASE ~(i <= m)
    <3>1. i - m \in 1..n /\ m + (i - m) = i
      BY <1>1, <1>5, <2>1, <2>3
    <3>2. vectors[i - m] = m + (i - m)
      BY <1>2, <3>1, Zenon
    <3>3. after[i] = IF i <= m THEN embedded[i] ELSE vectors[i - m]
      BY <1>3, <1>5, Zenon
    <3> QED
      BY <2>3, <3>1, <3>2, <3>3, Zenon
  <2> QED
    BY <2>2, <2>3
<1>6. after = [i \in 1..Len(after) |-> i]
  <2>1. after = [i \in 1..Len(after) |-> after[i]]
    BY <1>3
  <2> QED
    BY <1>3, <1>5, <2>1
<1> QED
  BY <1>1, <1>3, <1>6 DEF after

(* The groups the model runs are of tokens of texts.                                   *)
LEMMA GroupsTyped ==
  ASSUME BatchTyped, NEW plan \in Seq(Seq(Indices))
  PROVE  [g \in DOMAIN plan |-> [k \in DOMAIN plan[g] |-> TokensOf(plan[g][k])]] \in Seq(Seq(1..Longest))
<1>1. ASSUME NEW g \in DOMAIN plan
      PROVE  [k \in DOMAIN plan[g] |-> TokensOf(plan[g][k])] \in Seq(1..Longest)
  <2>1. plan[g] \in Seq(Indices)
    OBVIOUS
  <2>2. \A k \in DOMAIN plan[g] : plan[g][k] \in Indices
    BY <2>1
  <2>3. \A k \in DOMAIN plan[g] : TokensOf(plan[g][k]) \in 1..Longest
    BY <2>2, TokensAre
  <2>4. Len(plan[g]) \in Nat /\ DOMAIN plan[g] = 1..Len(plan[g])
    BY <2>1
  <2> QED
    BY <2>3, <2>4
<1>2. Len(plan) \in Nat /\ DOMAIN plan = 1..Len(plan)
  OBVIOUS
<1> DEFINE run(g) == [k \in DOMAIN plan[g] |-> TokensOf(plan[g][k])]
<1> HIDE DEF run
<1>3. \A g \in 1..Len(plan) : run(g) \in Seq(1..Longest)
  BY <1>1, <1>2 DEF run
<1>4. [g \in 1..Len(plan) |-> run(g)] \in Seq(Seq(1..Longest))
  BY <1>2, <1>3
<1> QED
  BY <1>2, <1>4 DEF run

(* What is embedded are the texts, one after the other; and the requests are on track.       *)
EmbeddingOnTrack ==
  /\ provider \in {"http", "bundled", "http_or_bundled"}
  /\ embedding \in {"batch", "request", "model", "done", "failed"}
  /\ BatchTyped
  /\ embedded = [i \in 1..Len(embedded) |-> i]
  /\ embedding = "done" => Len(embedded) = Items
  /\ groups \in Seq(Seq(1..Longest))
  /\ RequestsOnTrack

LEMMA ModelRuns ==
  ASSUME EmbeddingOnTrack, RunModel PROVE EmbeddingOnTrack'
<1>1. BatchTyped /\ embedded = [i \in 1..Len(embedded) |-> i]
  BY DEF EmbeddingOnTrack
<1> DEFINE plan == PlanSubBatches
<1>2. /\ \A i \in Indices : At(plan, i) # {}
      /\ Reassembled(plan) = [i \in Indices |-> Batch[i]] /\ plan \in Seq(Seq(Indices))
  BY <1>1, PlansAre, VectorsAreReassembled DEF PlanOf
<1>3. /\ embedding = "model" /\ UNCHANGED <<provider, tokens, requests>>
      /\ groups' = [g \in DOMAIN plan |-> [k \in DOMAIN plan[g] |-> TokensOf(plan[g][k])]]
      /\ embedded' = embedded \o Reassembled(plan) /\ embedding' = "batch"
  BY <1>2, Zenon DEF RunModel
<1> HIDE DEF plan
<1>4. groups' \in Seq(Seq(1..Longest))
  BY <1>1, <1>2, <1>3, GroupsTyped
<1>5. /\ embedded' \in Seq(Text) /\ Len(embedded') <= Items
      /\ embedded' = [i \in 1..Len(embedded') |-> i]
  BY <1>1, <1>2, <1>3, BatchAppended
<1>6. RequestsOnTrack'
  BY <1>3 DEF EmbeddingOnTrack, RequestsOnTrack
<1>7. BatchTyped'
  BY <1>3, <1>5 DEF EmbeddingOnTrack, BatchTyped, Text
<1> QED
  BY <1>3, <1>4, <1>5, <1>6, <1>7 DEF EmbeddingOnTrack

LEMMA EndpointAnswers ==
  ASSUME EmbeddingOnTrack, NEW p \in Payload, Answered(p) PROVE EmbeddingOnTrack'
<1>1. BatchTyped /\ embedded = [i \in 1..Len(embedded) |-> i]
  BY DEF EmbeddingOnTrack
<1>2. InOrder(p) = [i \in Indices |-> Batch[i]]
  BY <1>1, AnswersAreInOrder
<1>3. /\ embedding = "request" /\ embedding' = "batch" /\ UNCHANGED <<provider, tokens, groups>>
      /\ requests' = Append(requests, "answered") /\ "answered" \in Outcome
      /\ embedded' = embedded \o InOrder(p)
  BY DEF Answered, Outcome
<1>4. /\ embedded' \in Seq(Text) /\ Len(embedded') <= Items
      /\ embedded' = [i \in 1..Len(embedded') |-> i]
  BY <1>1, <1>2, <1>3, BatchAppended
<1>5. RequestsOnTrack'
  BY <1>3, OneMore DEF EmbeddingOnTrack, RequestsOnTrack
<1>6. BatchTyped'
  BY <1>3, <1>4 DEF EmbeddingOnTrack, BatchTyped, Text
<1> QED
  BY <1>3, <1>4, <1>5, <1>6 DEF EmbeddingOnTrack

LEMMA EmbeddingStays == EmbedSpec => []EmbeddingOnTrack
<1>1. EmbedInit => EmbeddingOnTrack
  <2> SUFFICES ASSUME EmbedInit PROVE EmbeddingOnTrack
    OBVIOUS
  <2>1. BatchTyped /\ embedded = [i \in 1..Len(embedded) |-> i] /\ groups \in Seq(Seq(1..Longest))
    BY EmbeddingAssumption DEF EmbedInit, BatchTyped
  <2>2. RequestsOnTrack
    BY EmbeddingAssumption DEF EmbedInit, RequestsOnTrack
  <2> QED
    BY <2>1, <2>2 DEF EmbedInit, EmbeddingOnTrack
<1>2. EmbeddingOnTrack /\ [EmbedNext]_embedVars => EmbeddingOnTrack'
  <2> SUFFICES ASSUME EmbeddingOnTrack, [EmbedNext]_embedVars PROVE EmbeddingOnTrack'
    OBVIOUS
  <2>1. CASE NextBatch
    <3>1. BatchTyped
      BY DEF EmbeddingOnTrack
    <3>2. Batch = <<>> => Len(Batch) = 0
      OBVIOUS
    <3>3. embedding' = "done" => Len(embedded) = Items
      BY <2>1, <3>1, <3>2, BatchIs DEF NextBatch
    <3>4. /\ embedding = "batch" /\ embedding' \in {"done", "model", "request"}
          /\ provider = "bundled" => embedding' # "request"
          /\ requests' = <<>> /\ groups' = <<>> /\ UNCHANGED <<provider, tokens, embedded>>
      BY <2>1 DEF NextBatch
    <3>5. RequestsOnTrack'
      BY <3>4, EmbeddingAssumption DEF EmbeddingOnTrack, RequestsOnTrack
    <3> QED
      BY <3>3, <3>4, <3>5 DEF EmbeddingOnTrack, BatchTyped, Text
  <2>2. CASE RunModel
    BY <2>2, ModelRuns
  <2>3. ASSUME NEW p \in Payload, Answered(p) PROVE EmbeddingOnTrack'
    BY <2>3, EndpointAnswers
  <2>4. ASSUME NEW outcome \in Outcome, SendAgain(outcome) PROVE EmbeddingOnTrack'
    <3>1. /\ embedding = "request" /\ UNCHANGED <<provider, tokens, embedded, embedding, groups>>
          /\ requests' = Append(requests, outcome) /\ outcome \in Retryable
          /\ Len(requests) + 1 < Attempts
      BY <2>4 DEF SendAgain
    <3>2. RequestsOnTrack'
      BY <3>1, OneMore DEF EmbeddingOnTrack, RequestsOnTrack
    <3> QED
      BY <3>1, <3>2 DEF EmbeddingOnTrack, BatchTyped, Text
  <2>5. ASSUME NEW outcome \in Outcome, GiveUp(outcome) PROVE EmbeddingOnTrack'
    <3>1. /\ embedding = "request" /\ embedding' \in {"model", "failed"}
          /\ UNCHANGED <<provider, tokens, embedded, groups>>
          /\ requests' = Append(requests, outcome) /\ outcome # "answered"
      BY <2>5 DEF GiveUp
    <3>2. ASSUME embedding' = "failed", provider = "http_or_bundled" PROVE outcome = "narrow"
      BY <2>5, <3>1, <3>2 DEF GiveUp, Unavailable, Outcome
    <3>3. RequestsOnTrack'
      BY <3>1, <3>2, OneMore DEF EmbeddingOnTrack, RequestsOnTrack
    <3> QED
      BY <3>1, <3>3 DEF EmbeddingOnTrack, BatchTyped, Text
  <2>6. CASE UNCHANGED embedVars
    <3>1. RequestsOnTrack'
      BY <2>6 DEF embedVars, EmbeddingOnTrack, RequestsOnTrack
    <3> QED
      BY <2>6, <3>1 DEF embedVars, EmbeddingOnTrack, BatchTyped, Text
  <2> QED
    BY <2>1, <2>2, <2>3, <2>4, <2>5, <2>6 DEF EmbedNext
<1> QED
  BY <1>1, <1>2, PTL DEF EmbedSpec

(* The variables of an index run are of their types.                                 *)
THEOREM EmbeddingTyping == EmbedSpec => []EmbedTypeOK
<1>1. EmbeddingOnTrack => EmbedTypeOK
  BY DEF EmbeddingOnTrack, BatchTyped, RequestsOnTrack, EmbedTypeOK
<1> QED
  BY <1>1, EmbeddingStays, PTL

(* What is worth another try is tried until the attempts run out, and nothing else is;    *)
(* neither trouble with the endpoint nor the sub-batches of the model fail an index that      *)
(* has the model to turn to.                                                        *)
THEOREM RetriesEnd == EmbedSpec => []RetriesStop
<1>1. EmbeddingOnTrack => RetriesStop
  BY DEF EmbeddingOnTrack, RequestsOnTrack, RetriesStop
<1> QED
  BY <1>1, EmbeddingStays, PTL

(* However the texts are batched, whatever order the endpoint answers in and however the     *)
(* model's sub-batches are cut: the n-th vector is of the n-th text, and an index that is      *)
(* done has them all.                                                              *)
THEOREM VectorsAreOfTheirTexts == EmbedSpec => []VectorsFollowTexts
<1>1. EmbeddingOnTrack => VectorsFollowTexts
  BY DEF EmbeddingOnTrack, VectorsFollowTexts
<1> QED
  BY <1>1, EmbeddingStays, PTL

(* The tokens of a group of the plan: as many as its texts, the most of them its widest.           *)
LEMMA RunIsOfItsGroup ==
  ASSUME NEW group \in Seq(Indices), NEW run, run = [k \in DOMAIN group |-> TokensOf(group[k])]
  PROVE  Len(run) = Len(group) /\ Max(Range(run)) = Widest(group)
<1>1. Len(group) \in Nat /\ DOMAIN group = 1..Len(group)
  OBVIOUS
<1>2. Len(run) = Len(group)
  BY <1>1
<1>3. Range(run) = {TokensOf(i) : i \in Range(group)}
  BY DEF Range
<1> QED
  BY <1>2, <1>3, Zenon DEF Widest

(* Whatever texts a batch brings, what the model runs at once stays within the budget, but for a   *)
(* text that exceeds it alone.                                                    *)
THEOREM BudgetIsKept == EmbedSpec => []SubBatchesFit
<1>1. EmbedInit => SubBatchesFit
  <2> SUFFICES ASSUME EmbedInit PROVE SubBatchesFit
    OBVIOUS
  <2>1. groups = <<>> /\ DOMAIN groups = {}
    BY DEF EmbedInit
  <2> QED
    BY <2>1, Zenon DEF SubBatchesFit
<1>2. EmbeddingOnTrack /\ SubBatchesFit /\ [EmbedNext]_embedVars => SubBatchesFit'
  <2> SUFFICES ASSUME EmbeddingOnTrack, SubBatchesFit, [EmbedNext]_embedVars PROVE SubBatchesFit'
    OBVIOUS
  <2>1. CASE NextBatch
    <3>1. groups' = <<>> /\ DOMAIN groups' = {}
      BY <2>1 DEF NextBatch
    <3> QED
      BY <3>1, Zenon DEF SubBatchesFit
  <2>2. CASE RunModel
    <3> DEFINE plan == PlanSubBatches
    <3>1. plan \in Seq(Seq(Indices)) /\ WithinBudget(plan)
      BY PlansFit DEF EmbeddingOnTrack
    <3>2. groups' = [g \in DOMAIN plan |-> [k \in DOMAIN plan[g] |-> TokensOf(plan[g][k])]]
      BY <2>2, Zenon DEF RunModel
    <3> HIDE DEF plan
    <3>3. ASSUME NEW g \in DOMAIN plan
          PROVE  /\ Len(groups'[g]) = Len(plan[g]) /\ Max(Range(groups'[g])) = Widest(plan[g])
                 /\ Len(plan[g]) > 1 => Widest(plan[g]) * Len(plan[g]) <= TokenBudget
      <4>1. plan[g] \in Seq(Indices)
        BY <3>1
      <4>2. groups'[g] = [k \in DOMAIN plan[g] |-> TokensOf(plan[g][k])]
        BY <3>2, Zenon
      <4> QED
        BY <3>1, <4>1, <4>2, RunIsOfItsGroup DEF WithinBudget
    <3>4. DOMAIN groups' = DOMAIN plan
      BY <3>2, Zenon
    <3> QED
      BY <3>3, <3>4, Zenon DEF SubBatchesFit
  <2>3. CASE UNCHANGED groups
    BY <2>3 DEF SubBatchesFit
  <2> QED
    BY <2>1, <2>2, <2>3 DEF EmbedNext, Answered, SendAgain, GiveUp, embedVars
<1> QED
  BY <1>1, <1>2, EmbeddingStays, PTL DEF EmbedSpec

-----------------------------------------------------------------------------
(* Chunks as rows of the table, and what is read of them: of any chunks and windows.     *)

(* What a window of embedded chunks is appended as.                               *)
Recorded(window) == RecordBatch([i \in DOMAIN window |-> StoredChunk(window[i])])
WrittenBatches == {Recorded(window) : window \in Window}

(* Where the rows of each batch end among the chunks that were brought.                    *)
IsCut(cut) ==
  /\ cut \in [0..Len(batches) -> Nat] /\ cut[0] = 0 /\ cut[Len(batches)] = Len(brought)
  /\ \A b \in 1..Len(batches) :
       /\ cut[b - 1] <= cut[b] /\ cut[b] <= Len(brought)
       /\ DOMAIN batches[b]["file_path"] = 1..(cut[b] - cut[b - 1])
       /\ \A column \in Column : \A i \in 1..(cut[b] - cut[b - 1]) :
            batches[b][column][i] = StoredChunk(brought[cut[b - 1] + i])[column]

RowsOnTrack ==
  /\ batches \in Seq(WrittenBatches) /\ brought \in Seq(Embedded)
  /\ \E cut : IsCut(cut)
  /\ width \in Nat /\ width = 0 => brought = <<>>
  /\ \A i \in 1..Len(brought) : Len(brought[i].vector) = width

Row(columns, i) == [column \in columns |-> StoredChunk(brought[i])[column]]
UpToCut(cut, columns, n) == [i \in 1..cut[n] |-> Row(columns, i)]

(* The rows of one more batch are those of the chunks after the ones before it.              *)
LEMMA RowsOfBatch ==
  ASSUME RowsOnTrack, NEW cut, IsCut(cut), NEW columns \in SUBSET Column, NEW b \in 1..Len(batches)
  PROVE  UpToCut(cut, columns, b - 1) \o RowsIn(batches[b], columns) = UpToCut(cut, columns, b)
<1> DEFINE before == UpToCut(cut, columns, b - 1)
           m == cut[b - 1]
           n == cut[b] - cut[b - 1]
           S == {Row(columns, i) : i \in 1..Len(brought)}
           here == RowsIn(batches[b], columns)
<1>1. /\ m \in Nat /\ n \in Nat /\ m + n <= Len(brought) /\ Len(brought) \in Nat /\ m + n = cut[b]
      /\ DOMAIN batches[b]["file_path"] = 1..n
      /\ \A column \in Column : \A i \in 1..n :
           batches[b][column][i] = StoredChunk(brought[m + i])[column]
  <2>1. b - 1 \in 0..Len(batches) /\ b \in 0..Len(batches)
    BY DEF RowsOnTrack
  <2>2. cut[b - 1] \in Nat /\ cut[b] \in Nat /\ cut[b - 1] <= cut[b] /\ cut[b] <= Len(brought)
    BY <2>1 DEF IsCut
  <2>3. Len(brought) \in Nat
    BY DEF RowsOnTrack
  <2>4. /\ DOMAIN batches[b]["file_path"] = 1..n
        /\ \A column \in Column : \A i \in 1..n :
             batches[b][column][i] = StoredChunk(brought[m + i])[column]
    BY Zenon DEF IsCut
  <2> QED
    BY <2>2, <2>3, <2>4
<1> HIDE DEF m, n
<1>2. \A i \in 1..m : i \in 1..Len(brought)
  BY <1>1
<1>3. \A i \in 1..n : m + i \in 1..Len(brought)
  BY <1>1
<1>4. before \in Seq(S) /\ Len(before) = m
  BY <1>1, <1>2 DEF m, UpToCut
<1>5. here = [i \in 1..n |-> Row(columns, m + i)]
  BY <1>1 DEF RowsIn, Row
<1>6. here \in Seq(S) /\ Len(here) = n
  BY <1>1, <1>3, <1>5
<1> HIDE DEF here, S, before
<1> DEFINE after == before \o here
<1>7. /\ after \in Seq(S) /\ Len(after) = m + n
      /\ \A i \in 1..(m + n) : after[i] = IF i <= m THEN before[i] ELSE here[i - m]
  <2>1. /\ before \o here \in Seq(S) /\ Len(before \o here) = Len(before) + Len(here)
        /\ \A i \in 1..(Len(before) + Len(here)) :
             (before \o here)[i] = IF i <= Len(before) THEN before[i] ELSE here[i - Len(before)]
    BY <1>4, <1>6, ConcatProperties
  <2> QED
    BY <1>4, <1>6, <2>1
<1> HIDE DEF after
<1>8. ASSUME NEW i \in 1..(m + n) PROVE after[i] = Row(columns, i)
  <2>1. i \in Nat
    BY <1>1
  <2>2. CASE i <= m
    <3>1. i \in 1..m
      BY <1>8, <2>1, <2>2
    <3> QED
      BY <1>7, <2>2, <3>1 DEF m, before, UpToCut
  <2>3. CASE ~(i <= m)
    <3>1. i - m \in 1..n /\ m + (i - m) = i
      BY <1>1, <1>8, <2>1, <2>3
    <3> QED
      BY <1>5, <1>7, <2>3, <3>1
  <2> QED
    BY <2>2, <2>3
<1>9. after = [i \in 1..(m + n) |-> after[i]]
  BY <1>7
<1>10. after = [i \in 1..(m + n) |-> Row(columns, i)]
  BY <1>8, <1>9
<1> QED
  BY <1>1, <1>10 DEF after, here, before, UpToCut

(* A read has a row of each chunk, in the columns it selects.                               *)
LEMMA ReadIs ==
  ASSUME RowsOnTrack, NEW columns \in SUBSET Column
  PROVE  ReadBatches(columns) = [i \in 1..Len(brought) |-> Row(columns, i)]
<1> PICK cut : IsCut(cut)
  BY DEF RowsOnTrack
<1> DEFINE len == Len(batches)
           upTo(n) == UpToCut(cut, columns, n)
           f == [n \in 0..len |-> upTo(n)]
           Read[n \in 0..Len(batches)] ==
             IF n = 0 THEN <<>> ELSE Read[n - 1] \o RowsIn(batches[n], columns)
<1>1. len \in Nat /\ \A n \in 0..len : n = 0 \/ (n \in 1..len /\ n - 1 \in 0..len)
  BY DEF RowsOnTrack
<1>2. upTo(0) = <<>>
  BY DEF IsCut, UpToCut
<1>3. ASSUME NEW n \in 1..len PROVE upTo(n) = upTo(n - 1) \o RowsIn(batches[n], columns)
  BY RowsOfBatch
<1> HIDE DEF upTo
<1>4. f = [n \in 0..len |-> IF n = 0 THEN <<>> ELSE f[n - 1] \o RowsIn(batches[n], columns)]
  BY <1>1, <1>2, <1>3
<1>5. Read = [n \in 0..len |-> IF n = 0 THEN <<>> ELSE Read[n - 1] \o RowsIn(batches[n], columns)]
  <2> HIDE DEF f
  <2> QED
    BY <1>4, Zenon
<1>6. ReadBatches(columns) = Read[len]
  BY DEF ReadBatches
<1> DEFINE S == {n \in 0..len : Read[n] = upTo(n)}
<1> HIDE DEF Read, len
<1>7. 0 \in S
  <2>1. 0 \in 0..len
    BY <1>1
  <2> QED
    BY <1>2, <1>5, <2>1
<1>8. ASSUME NEW n \in 1..len, n - 1 \in S PROVE n \in S
  <2>1. n \in 0..len /\ n # 0
    BY <1>1
  <2> QED
    BY <1>3, <1>5, <1>8, <2>1
<1> HIDE DEF S
<1>9. len \in S
  <2>1. len \in 0..len
    BY <1>1
  <2> QED
    BY <1>1, <1>7, <1>8, <2>1, UpTo
<1>10. Read[len] = upTo(len)
  BY <1>9 DEF S
<1>11. cut[len] = Len(brought)
  BY DEF IsCut, len
<1> QED
  BY <1>6, <1>10, <1>11 DEF upTo, UpToCut

(* A window that is appended is one more batch, of the chunks that follow.                   *)
LEMMA WindowAppended ==
  ASSUME RowsOnTrack, NEW d \in Dimension, NEW window \in Window, AppendRows(window, d)
  PROVE  RowsOnTrack'
<1> PICK cut : IsCut(cut)
  BY DEF RowsOnTrack
<1> PICK w \in 1..MaxWindow : window \in [1..w -> Embedded]
  BY DEF Window
<1> DEFINE m == Len(brought)
           k == Len(batches)
           batch == Recorded(window)
<1>1. m \in Nat /\ k \in Nat /\ w \in Nat /\ w # 0
  BY RowsAssumption DEF RowsOnTrack
<1>2. window \in Seq(Embedded) /\ Len(window) = w /\ DOMAIN window = 1..w
  BY <1>1
<1>3. /\ \A i \in 1..w : Len(window[i].vector) = d
      /\ width \in {0, d} /\ width' = d
      /\ batches' = Append(batches, batch) /\ brought' = brought \o window
  BY <1>2 DEF AppendRows, Valid, Recorded
<1>4. /\ brought' \in Seq(Embedded) /\ Len(brought') = m + w
      /\ \A i \in 1..(m + w) : brought'[i] = IF i <= m THEN brought[i] ELSE window[i - m]
  <2>1. brought \in Seq(Embedded)
    BY DEF RowsOnTrack
  <2>2. /\ brought \o window \in Seq(Embedded) /\ Len(brought \o window) = Len(brought) + Len(window)
        /\ \A i \in 1..(Len(brought) + Len(window)) : (brought \o window)[i] =
             IF i <= Len(brought) THEN brought[i] ELSE window[i - Len(brought)]
    BY <1>2, <2>1, ConcatProperties
  <2> QED
    BY <1>2, <1>3, <2>2
<1>5. /\ batch \in WrittenBatches /\ DOMAIN batch["file_path"] = 1..w
      /\ \A column \in Column : \A i \in 1..w : batch[column][i] = StoredChunk(window[i])[column]
  <2>1. batch \in WrittenBatches
    BY DEF WrittenBatches
  <2>2. batch = [column \in Column |-> [i \in 1..w |-> StoredChunk(window[i])[column]]]
    BY <1>2 DEF Recorded, RecordBatch
  <2>3. "file_path" \in Column
    BY DEF Column
  <2> HIDE DEF batch
  <2> QED
    BY <2>1, <2>2, <2>3
<1> HIDE DEF m, k, batch
<1>6. /\ batches' \in Seq(WrittenBatches) /\ Len(batches') = k + 1 /\ batches'[k + 1] = batch
      /\ \A b \in 1..k : batches'[b] = batches[b]
  BY <1>3, <1>5 DEF RowsOnTrack, k
<1>7. /\ cut \in [0..k -> Nat] /\ cut[0] = 0 /\ cut[k] = m
      /\ \A b \in 1..k :
           /\ cut[b - 1] <= cut[b] /\ cut[b] <= m
           /\ DOMAIN batches[b]["file_path"] = 1..(cut[b] - cut[b - 1])
           /\ \A column \in Column : \A i \in 1..(cut[b] - cut[b - 1]) :
                batches[b][column][i] = StoredChunk(brought[cut[b - 1] + i])[column]
  BY Zenon DEF IsCut, k, m
<1>8. PICK cut2 :
        /\ cut2 \in [0..(k + 1) -> Nat] /\ cut2[0] = 0 /\ cut2[k + 1] = m + w /\ cut2[k] = m
        /\ \A b \in 1..k : cut2[b] = cut[b] /\ cut2[b - 1] = cut[b - 1]
  <2> DEFINE longer == [b \in 0..(k + 1) |-> IF b <= k THEN cut[b] ELSE m + w]
  <2>1. /\ longer \in [0..(k + 1) -> Nat] /\ longer[0] = 0 /\ longer[k + 1] = m + w /\ longer[k] = m
        /\ \A b \in 1..k : longer[b] = cut[b] /\ longer[b - 1] = cut[b - 1]
    BY <1>1, <1>7
  <2> QED
    BY <2>1
<1>9. ASSUME NEW b \in 1..(k + 1)
      PROVE  /\ cut2[b - 1] <= cut2[b] /\ cut2[b] <= m + w
             /\ DOMAIN batches'[b]["file_path"] = 1..(cut2[b] - cut2[b - 1])
             /\ \A column \in Column : \A i \in 1..(cut2[b] - cut2[b - 1]) :
                  batches'[b][column][i] = StoredChunk(brought'[cut2[b - 1] + i])[column]
  <2>1. CASE b = k + 1
    <3>1. b - 1 = k /\ cut2[b - 1] = m /\ cut2[b] = m + w /\ (m + w) - m = w
      BY <1>1, <1>8, <2>1
    <3>2. ASSUME NEW i \in 1..w PROVE brought'[m + i] = window[i]
      <4>1. m + i \in 1..(m + w) /\ ~(m + i <= m) /\ (m + i) - m = i
        BY <1>1
      <4> QED
        BY <1>4, <4>1
    <3>3. batches'[b] = batch
      BY <1>6, <2>1
    <3> QED
      BY <1>1, <1>5, <3>1, <3>2, <3>3
  <2>2. CASE b # k + 1
    <3>1. b \in 1..k
      BY <1>1, <2>2
    <3>2. cut2[b] = cut[b] /\ cut2[b - 1] = cut[b - 1] /\ batches'[b] = batches[b]
      BY <1>6, <1>8, <3>1
    <3>3. cut[b - 1] \in Nat /\ cut[b] \in Nat /\ cut[b - 1] <= cut[b] /\ cut[b] <= m
      <4>1. b \in 0..k /\ b - 1 \in 0..k
        BY <1>1, <3>1
      <4> QED
        BY <1>7, <3>1, <4>1
    <3>4. ASSUME NEW i \in 1..(cut[b] - cut[b - 1])
          PROVE  brought'[cut[b - 1] + i] = brought[cut[b - 1] + i]
      <4>1. cut[b - 1] + i \in 1..(m + w) /\ cut[b - 1] + i <= m
        BY <1>1, <3>3
      <4> QED
        BY <1>4, <4>1
    <3>5. /\ DOMAIN batches[b]["file_path"] = 1..(cut[b] - cut[b - 1])
          /\ \A column \in Column : \A i \in 1..(cut[b] - cut[b - 1]) :
               batches[b][column][i] = StoredChunk(brought[cut[b - 1] + i])[column]
      BY <1>7, <3>1
    <3>6. cut[b] <= m + w
      BY <1>1, <3>3
    <3> QED
      BY <3>2, <3>3, <3>4, <3>5, <3>6
  <2> QED
    BY <2>1, <2>2
<1>10. (\E c : IsCut(c))'
  <2>1. IsCut(cut2)'
    BY <1>4, <1>6, <1>8, <1>9 DEF IsCut
  <2> QED
    BY <2>1
<1>11. ASSUME NEW i \in 1..(m + w) PROVE Len(brought'[i].vector) = d
  <2>1. CASE i <= m
    <3>1. i \in 1..m
      BY <1>1, <1>11, <2>1
    <3>2. Len(brought[i].vector) = width /\ width = d
      <4>1. brought # <<>>
        BY <3>1 DEF m
      <4> QED
        BY <1>3, <3>1, <4>1 DEF RowsOnTrack, m
    <3> QED
      BY <1>4, <2>1, <3>2
  <2>2. CASE ~(i <= m)
    <3>1. i - m \in 1..w
      BY <1>1, <1>11, <2>2
    <3> QED
      BY <1>3, <1>4, <2>2, <3>1
  <2> QED
    BY <2>1, <2>2
<1>12. d \in Nat /\ d # 0
  BY RowsAssumption
<1> QED
  BY <1>3, <1>4, <1>6, <1>10, <1>11, <1>12 DEF RowsOnTrack

LEMMA RowsStay == RowsSpec => []RowsOnTrack
<1>1. ASSUME batches = <<>>, brought = <<>>, width \in Nat PROVE RowsOnTrack
  <2>1. IsCut([b \in 0..0 |-> 0])
    BY <1>1 DEF IsCut
  <2> QED
    BY <1>1, <2>1 DEF RowsOnTrack
<1>2. RowsInit => RowsOnTrack
  BY <1>1 DEF RowsInit
<1>3. RowsOnTrack /\ [RowsNext]_rowVars => RowsOnTrack'
  <2> SUFFICES ASSUME RowsOnTrack, [RowsNext]_rowVars PROVE RowsOnTrack'
    OBVIOUS
  <2>1. ASSUME NEW d \in Dimension, ResetTable(d) PROVE RowsOnTrack'
    <3>1. batches' = <<>> /\ brought' = <<>> /\ width' \in Nat
      BY <2>1, RowsAssumption DEF ResetTable
    <3>2. IsCut([b \in 0..0 |-> 0])'
      BY <3>1 DEF IsCut
    <3> QED
      BY <3>1, <3>2 DEF RowsOnTrack
  <2>2. ASSUME NEW d \in Dimension, NEW window \in Window, AppendRows(window, d) PROVE RowsOnTrack'
    BY <2>2, WindowAppended
  <2>3. CASE UNCHANGED rowVars
    <3>1. batches' = batches /\ width' = width /\ brought' = brought
      BY <2>3 DEF rowVars
    <3>2. PICK cut : IsCut(cut)
      BY DEF RowsOnTrack
    <3>3. IsCut(cut)'
      BY <3>1, <3>2, Zenon DEF IsCut
    <3>4. \E c : IsCut(c)'
      BY <3>3
    <3> QED
      BY <3>1, <3>4, Zenon DEF RowsOnTrack
  <2> QED
    BY <2>1, <2>2, <2>3 DEF RowsNext
<1> QED
  BY <1>2, <1>3, PTL DEF RowsSpec

(* Every language comes back from its name, and no two have the same; so do the kinds.          *)
LEMMA LanguagesComeBack ==
  /\ \A l \in Language : FromStorage(LanguageStored, LanguageName[l], "Unknown") = l
  /\ \A l, m \in Language : LanguageName[l] = LanguageName[m] => l = m
<1>1. ASSUME NEW l \in Language
      PROVE  FromStorage(LanguageStored, LanguageName[l], "Unknown") = l
  BY DEF FromStorage, LanguageStored, LanguageName, Language
<1> QED
  BY <1>1

LEMMA KindsComeBack ==
  \A k \in ChunkKind : FromStorage(KindStored, KindName[k], "Other") = k
BY DEF FromStorage, KindStored, KindName, ChunkKind

LEMMA LanguageIs ==
  ASSUME NEW path
  PROVE  LanguageForPath(path) \in Language
<1>1. \A ext : FromExtension(ext) \in Language
  BY DEF FromExtension, Language, LanguageName
<1>2. "Unknown" \in Language
  BY DEF Language, LanguageName
<1> QED
  BY <1>1, <1>2 DEF LanguageForPath

LEMMA ChunkComesBack ==
  ASSUME NEW e, Embeddable(e), NEW r, r = [column \in Column |-> StoredChunk(e)[column]]
  PROVE  /\ \A f \in DOMAIN ChunkOf(r) : ChunkOf(r)[f] = e[f]
         /\ r.vector = e.vector
         /\ r.file_path = e.file_path /\ r.language = LanguageName[LanguageForPath(e.file_path)]
<1>1. /\ r.chunk_id = e.id /\ r.file_path = e.file_path /\ r.language = LanguageName[e.language]
      /\ r.kind = KindName[e.kind] /\ r.name = e.name
      /\ r.line_start = e.line_range.start /\ r.line_end = e.line_range.end
      /\ r.byte_start = e.byte_range.start /\ r.byte_end = e.byte_range.end
      /\ r.file_hash = e.file_hash /\ r.content = e.content /\ r.vector = e.vector
  BY DEF StoredChunk, Column
<1>2. e.language \in Language /\ e.kind \in ChunkKind /\ NewPath(r.file_path) = e.file_path
  BY <1>1, LanguageIs DEF Embeddable
<1>3. /\ FromStorage(LanguageStored, r.language, "Unknown") = e.language
      /\ FromStorage(KindStored, r.kind, "Other") = e.kind
  BY <1>1, <1>2, LanguagesComeBack, KindsComeBack
<1>4. /\ [start |-> r.line_start, end |-> r.line_end] = e.line_range
      /\ [start |-> r.byte_start, end |-> r.byte_end] = e.byte_range
  <2>1. e.line_range \in [start : Nat, end : Nat] /\ e.byte_range \in [start : Nat, end : Nat]
    BY DEF Embeddable
  <2> QED
    BY <1>1, <2>1
<1>5. ChunkOf(r) = [id |-> e.id, file_path |-> e.file_path, language |-> e.language, kind |-> e.kind,
                    name |-> e.name, line_range |-> e.line_range, byte_range |-> e.byte_range,
                    file_hash |-> e.file_hash, content |-> e.content]
  BY <1>1, <1>2, <1>3, <1>4 DEF ChunkOf
<1>6. \A f \in DOMAIN ChunkOf(r) : ChunkOf(r)[f] = e[f]
  BY <1>5
<1> QED
  BY <1>1, <1>6 DEF Embeddable

(* The columns a read selects hold what the chunks brought.                                *)
LEMMA ReadsTellOfTheChunks ==
  ASSUME RowsOnTrack
  PROVE  /\ Len(brought) \in Nat /\ \A i \in 1..Len(brought) : Embeddable(brought[i])
         /\ AllRows = [i \in 1..Len(brought) |-> Row(Column, i)]
         /\ WithoutContent = [i \in 1..Len(brought) |-> Row(Column \ {"content"}, i)]
         /\ Metadata = [i \in 1..Len(brought) |-> Row({"file_path", "file_hash", "language", "name"}, i)]
         /\ Paths = [i \in 1..Len(brought) |-> Row({"file_path"}, i)]
<1>1. Column \in SUBSET Column /\ Column \ {"content"} \in SUBSET Column
      /\ {"file_path", "file_hash", "language", "name"} \in SUBSET Column
      /\ {"file_path"} \in SUBSET Column
  BY DEF Column
<1>2. Len(brought) \in Nat /\ \A i \in 1..Len(brought) : brought[i] \in Embedded
  BY DEF RowsOnTrack
<1> QED
  BY <1>1, <1>2, ReadIs, RowsAssumption DEF AllRows, WithoutContent, Metadata, Paths

(* Whatever chunks were indexed in whatever windows, a search answers them as they were, a      *)
(* read without text has their vectors, and a filter by a language keeps those of its          *)
(* extensions.                                                               *)
THEOREM SearchesAnswerTheChunks == RowsSpec => []SearchesSeeTheChunks
<1>1. RowsOnTrack => SearchesSeeTheChunks
  <2> SUFFICES ASSUME RowsOnTrack PROVE SearchesSeeTheChunks
    OBVIOUS
  <2> DEFINE N == Len(brought)
             rows == AllRows
  <2>1. /\ N \in Nat /\ \A i \in 1..N : Embeddable(brought[i])
        /\ rows = [i \in 1..N |-> Row(Column, i)]
        /\ WithoutContent = [i \in 1..N |-> Row(Column \ {"content"}, i)]
    BY ReadsTellOfTheChunks
  <2>2. DOMAIN brought = 1..N /\ \A i \in 1..N : Len(brought[i].vector) = width
    BY DEF RowsOnTrack
  <2> HIDE DEF N, rows
  <2>3. ASSUME NEW i \in 1..N
        PROVE  /\ \A f \in DOMAIN ChunkOf(rows[i]) : ChunkOf(rows[i])[f] = brought[i][f]
               /\ rows[i].vector = brought[i].vector
               /\ rows[i].file_path = brought[i].file_path
               /\ rows[i].language = LanguageName[LanguageForPath(brought[i].file_path)]
    <3>1. Embeddable(brought[i]) /\ rows[i] = [column \in Column |-> StoredChunk(brought[i])[column]]
      BY <2>1 DEF Row
    <3> QED
      BY <3>1, ChunkComesBack
  <2>4. ASSUME NEW i \in 1..N PROVE WithoutContent[i].vector = brought[i].vector
    <3>1. "vector" \in Column \ {"content"}
      BY DEF Column
    <3>2. WithoutContent[i].vector = StoredChunk(brought[i]).vector
      BY <2>1, <3>1 DEF Row
    <3> QED
      BY <3>2 DEF StoredChunk
  <2>5. ChunksSurviveStorage
    <3>1. Len(rows) = N
      BY <2>1
    <3> QED
      BY <2>2, <2>3, <2>4, <3>1 DEF ChunksSurviveStorage, rows, N
  <2>6. LanguageFilterIsExact
    <3>1. ASSUME NEW alias \in DOMAIN FilterInput
          PROVE  OfLanguages(rows, {FilterInput[alias]})
                   = {i \in DOMAIN rows : LanguageForPath(rows[i].file_path) = FilterInput[alias]}
      <4> DEFINE l == FilterInput[alias]
      <4>1. l \in Language
        BY DEF FilterInput, Language, LanguageName
      <4> HIDE DEF l
      <4>2. DOMAIN rows = 1..N
        BY <2>1
      <4>3. ASSUME NEW i \in 1..N
            PROVE  rows[i].language \in {LanguageName[k] : k \in {l}} <=> LanguageForPath(rows[i].file_path) = l
        <5>1. LanguageForPath(brought[i].file_path) \in Language
          BY LanguageIs
        <5> QED
          BY <2>3, <4>1, <5>1, LanguagesComeBack
      <4> QED
        BY <4>2, <4>3 DEF OfLanguages, l
    <3> QED
      BY <3>1 DEF LanguageFilterIsExact, rows
  <2> QED
    BY <2>5, <2>6 DEF SearchesSeeTheChunks
<1> QED
  BY <1>1, RowsStay, PTL

(* What falls into the first n of some parts, and into one of them.                           *)
InFirst(X, partOf, parts, n) == {x \in X : \E j \in 1..n : partOf[x] = parts[j]}
InPart(X, partOf, d) == {x \in X : partOf[x] = d}

AreApart(parts, n) == \A i, j \in 1..n : parts[i] = parts[j] => i = j

(* The counts of the parts a finite set falls into add up.                               *)
LEMMA PartsAddUp ==
  ASSUME NEW X, IsFiniteSet(X), NEW partOf, NEW n \in Nat, NEW parts,
         AreApart(parts, n), NEW k \in 1..n
  PROVE  Cardinality(InFirst(X, partOf, parts, k))
           = Cardinality(InFirst(X, partOf, parts, k - 1)) + Cardinality(InPart(X, partOf, parts[k]))
<1> DEFINE A == InFirst(X, partOf, parts, k - 1)
           B == InPart(X, partOf, parts[k])
           C == InFirst(X, partOf, parts, k)
<1> USE DEF InFirst, InPart, AreApart
<1>1. /\ IsFiniteSet(A) /\ IsFiniteSet(B) /\ IsFiniteSet(C)
  <2>1. A \in SUBSET X /\ B \in SUBSET X /\ C \in SUBSET X
    OBVIOUS
  <2> QED
    BY <2>1, FS_Subset
<1>2. C = A \cup B
  <2>1. \A j : j \in 1..k <=> j \in 1..(k - 1) \/ j = k
    OBVIOUS
  <2> QED
    BY <2>1, Zenon
<1>3. A \cap B = {}
  <2> SUFFICES ASSUME NEW x \in A, x \in B PROVE FALSE
    OBVIOUS
  <2>1. PICK j \in 1..(k - 1) : partOf[x] = parts[j]
    OBVIOUS
  <2>2. j \in 1..n /\ k \in 1..n /\ j # k
    BY <2>1
  <2> QED
    BY <2>1, <2>2
<1>4. Cardinality(A) \in Nat /\ Cardinality(B) \in Nat /\ Cardinality(C) \in Nat /\ Cardinality({}) = 0
  BY <1>1, FS_CardinalityType, FS_EmptySet
<1> HIDE DEF A, B, C
<1>5. Cardinality(C) = Cardinality(A) + Cardinality(B)
  <2>1. Cardinality(A \cup B) = Cardinality(A) + Cardinality(B) - Cardinality(A \cap B)
    BY <1>1, FS_Union
  <2>2. Cardinality(A \cap B) = 0
    BY <1>3, <1>4
  <2>3. Cardinality(C) = Cardinality(A \cup B)
    BY <1>2
  <2> QED
    BY <1>4, <2>1, <2>2, <2>3
<1> QED
  BY <1>5 DEF A, B, C

(* The directories of an overview, each once.                                          *)
LEMMA EachOnce ==
  ASSUME NEW D, IsFiniteSet(D)
  PROVE  /\ Len(SetToSeq(D)) \in Nat
         /\ \A i, j \in 1..Len(SetToSeq(D)) : SetToSeq(D)[i] = SetToSeq(D)[j] => i = j
         /\ \A i \in 1..Len(SetToSeq(D)) : SetToSeq(D)[i] \in D
         /\ \A d \in D : \E i \in 1..Len(SetToSeq(D)) : SetToSeq(D)[i] = d
<1> DEFINE n == Cardinality(D)
           s == SetToSeq(D)
<1>1. n \in Nat /\ \E f \in [1..n -> D] : IsInjective(f)
  BY FS_CardinalityType DEF ExistsBijection, Bijection, Injection
<1>2. s \in [1..n -> D] /\ IsInjective(s)
  BY <1>1, Zenon DEF SetToSeq
<1> HIDE DEF s
<1>3. IsFiniteSet(1..n) /\ Cardinality(1..n) = n
  <2> HIDE DEF n
  <2> QED
    BY <1>1, FS_Interval
<1>4. s \in Surjection(1..n, D)
  <2>1. s \in Injection(1..n, D)
    BY <1>2 DEF Injection
  <2> QED
    BY <1>3, <2>1, FS_Injection
<1>5. Len(s) = n
  <2> HIDE DEF n
  <2> QED
    BY <1>1, <1>2
<1> HIDE DEF n
<1>6. \A i, j \in 1..n : s[i] = s[j] => i = j
  BY <1>2 DEF IsInjective
<1>7. (\A i \in 1..n : s[i] \in D) /\ (\A d \in D : \E i \in 1..n : s[i] = d)
  BY <1>2, <1>4 DEF Surjection
<1> QED
  BY <1>1, <1>5, <1>6, <1>7 DEF s


(* The totals of an overview are the counts of the rows it is of.                            *)
LEMMA TotalsAre ==
  ASSUME NEW M \in Nat, NEW rows, DOMAIN rows = 1..M
  PROVE  Totals(Overview(rows, 1..M)) = Stats(rows, 1..M)
<1> DEFINE overview == Overview(rows, 1..M)
           parent == [i \in 1..M |-> ImmediateParentDir(rows[i].file_path)]
           paths == {rows[i].file_path : i \in 1..M}
           parentOf == [p \in paths |-> ImmediateParentDir(p)]
           D == {parent[i] : i \in 1..M}
           dirs == SetToSeq(D)
           N == Len(dirs)
<1>1. IsFiniteSet(1..M) /\ IsFiniteSet(paths) /\ IsFiniteSet(D)
  <2>1. IsFiniteSet(1..M)
    BY FS_Interval
  <2>2. [i \in 1..M |-> rows[i].file_path] \in Surjection(1..M, paths)
    BY DEF Surjection
  <2>3. parent \in Surjection(1..M, D)
    BY DEF Surjection
  <2> HIDE DEF parent, paths, D
  <2> QED
    BY <2>1, <2>2, <2>3, FS_Surjection
<1>2. DOMAIN overview = D
  BY DEF Overview
<1>3. /\ N \in Nat /\ \A i, j \in 1..N : dirs[i] = dirs[j] => i = j
      /\ \A i \in 1..N : dirs[i] \in D
      /\ \A d \in D : \E i \in 1..N : dirs[i] = d
  <2> HIDE DEF D
  <2> QED
    BY <1>1, EachOnce
<1> HIDE DEF N, dirs
<1>4. AreApart(dirs, N)
  BY <1>3 DEF AreApart
(* The rows and the paths of the first n directories.                                   *)
<1> DEFINE rowsOf(n) == InFirst(1..M, parent, dirs, n)
           pathsOf(n) == InFirst(paths, parentOf, dirs, n)
           sums(n) == [chunks |-> Cardinality(rowsOf(n)), files |-> Cardinality(pathsOf(n))]
<1>5. sums(0) = [chunks |-> 0, files |-> 0]
  <2>1. rowsOf(0) = {} /\ pathsOf(0) = {}
    BY DEF InFirst
  <2> HIDE DEF rowsOf, pathsOf
  <2> QED
    BY <2>1, FS_EmptySet
<1>6. ASSUME NEW n \in 1..N
      PROVE  /\ overview[dirs[n]].stats.chunks = Cardinality(InPart(1..M, parent, dirs[n]))
             /\ overview[dirs[n]].stats.files = Cardinality(InPart(paths, parentOf, dirs[n]))
  <2> DEFINE d == dirs[n]
             here == {i \in 1..M : ImmediateParentDir(rows[i].file_path) = d}
  <2>1. d \in D
    BY <1>3
  <2>2. overview[d].stats = Stats(rows, here)
    BY <2>1 DEF Overview, Rollup
  <2>3. here = InPart(1..M, parent, d)
    BY DEF InPart
  <2>4. {rows[i].file_path : i \in here} = InPart(paths, parentOf, d)
    BY DEF InPart
  <2> HIDE DEF here, d, overview, parent, parentOf, paths
  <2>5. /\ overview[d].stats.chunks = Cardinality(here)
        /\ overview[d].stats.files = Cardinality({rows[i].file_path : i \in here})
    BY <2>2 DEF Stats
  <2> QED
    BY <2>3, <2>4, <2>5 DEF d
<1> HIDE DEF overview
<1>7. ASSUME NEW n \in 1..N
      PROVE  sums(n) = [chunks |-> sums(n - 1).chunks + overview[dirs[n]].stats.chunks,
                        files |-> sums(n - 1).files + overview[dirs[n]].stats.files]
  <2> HIDE DEF parent, parentOf, paths
  <2>1. Cardinality(rowsOf(n)) = Cardinality(rowsOf(n - 1)) + Cardinality(InPart(1..M, parent, dirs[n]))
    BY <1>1, <1>3, <1>4, PartsAddUp
  <2>2. Cardinality(pathsOf(n))
          = Cardinality(pathsOf(n - 1)) + Cardinality(InPart(paths, parentOf, dirs[n]))
    BY <1>1, <1>3, <1>4, PartsAddUp
  <2> HIDE DEF rowsOf, pathsOf
  <2> QED
    BY <1>6, <2>1, <2>2
<1>8. sums(N) = Stats(rows, 1..M)
  <2>1. rowsOf(N) = 1..M
    <3>1. \A i \in 1..M : parent[i] \in D
      OBVIOUS
    <3> HIDE DEF parent, D
    <3> QED
      BY <1>3, <3>1 DEF InFirst
  <2>2. pathsOf(N) = paths
    <3>1. \A p \in paths : parentOf[p] \in D
      OBVIOUS
    <3> HIDE DEF parentOf, D, paths
    <3> QED
      BY <1>3, <3>1 DEF InFirst
  <2> HIDE DEF rowsOf, pathsOf
  <2> QED
    BY <2>1, <2>2 DEF Stats
<1> HIDE DEF sums
<1> DEFINE f == [n \in 0..N |-> sums(n)]
           Sums[n \in 0..N] ==
             IF n = 0 THEN [chunks |-> 0, files |-> 0]
             ELSE [chunks |-> Sums[n - 1].chunks + overview[dirs[n]].stats.chunks,
                   files |-> Sums[n - 1].files + overview[dirs[n]].stats.files]
<1>9. \A n \in 0..N : n = 0 \/ (n \in 1..N /\ n - 1 \in 0..N)
  BY <1>3
<1>10. f = [n \in 0..N |->
             IF n = 0 THEN [chunks |-> 0, files |-> 0]
             ELSE [chunks |-> f[n - 1].chunks + overview[dirs[n]].stats.chunks,
                   files |-> f[n - 1].files + overview[dirs[n]].stats.files]]
  BY <1>5, <1>7, <1>9
<1>11. Sums = [n \in 0..N |->
             IF n = 0 THEN [chunks |-> 0, files |-> 0]
             ELSE [chunks |-> Sums[n - 1].chunks + overview[dirs[n]].stats.chunks,
                   files |-> Sums[n - 1].files + overview[dirs[n]].stats.files]]
  <2> HIDE DEF f
  <2> QED
    BY <1>10, Zenon
<1>12. Totals(overview) = Sums[N]
  <2>1. SetToSeq(DOMAIN overview) = dirs
    BY <1>2 DEF overview, dirs
  <2> QED
    BY <2>1, Zenon DEF Totals, N
<1> HIDE DEF Sums
<1> DEFINE S == {n \in 0..N : Sums[n] = sums(n)}
<1>13. 0 \in S
  <2>1. 0 \in 0..N
    BY <1>3
  <2> QED
    BY <1>5, <1>11, <2>1
<1>14. ASSUME NEW n \in 1..N, n - 1 \in S PROVE n \in S
  <2>1. n \in 0..N /\ n # 0
    BY <1>3
  <2> QED
    BY <1>7, <1>11, <1>14, <2>1
<1> HIDE DEF S
<1>15. N \in S
  <2>1. N \in 0..N
    BY <1>3
  <2> QED
    BY <1>3, <1>13, <1>14, <2>1, UpTo
<1>16. Sums[N] = sums(N)
  BY <1>15 DEF S
<1> QED
  BY <1>8, <1>12, <1>16 DEF overview

(* A directory a path is below.                                                     *)
IsBelow(path, dir) ==
  /\ path \in Seq(STRING) /\ dir \in Seq(STRING) /\ Len(dir) < Len(path)
  /\ \A i \in 1..Len(dir) : path[i] = dir[i]
  /\ path[Len(dir) + 1] = "/"

LEMMA Greatest ==
  ASSUME NEW n \in Nat, NEW S \in SUBSET (0..n), S # {}
  PROVE  Max(S) \in S /\ \A j \in S : j <= Max(S)
<1>1. \E k \in S : \A j \in S : k >= j
  <2>1. PICK k \in S : \A j \in S : j <= k
    BY LastOf
  <2> QED
    BY <2>1
<1>2. Max(S) \in S /\ \A j \in S : Max(S) >= j
  BY <1>1, Zenon DEF Max
<1> QED
  BY <1>2

(* A path is below its directory.                                                    *)
LEMMA ParentIs ==
  ASSUME NEW path \in Seq(STRING), ImmediateParentDir(path) # <<".">>
  PROVE  IsBelow(path, ImmediateParentDir(path))
<1> DEFINE slashes == {i \in DOMAIN path : path[i] = "/"}
           k == Max(slashes)
<1>1. Len(path) \in Nat /\ DOMAIN path = 1..Len(path)
  OBVIOUS
<1>2. slashes # {} /\ ImmediateParentDir(path) = SubSeq(path, 1, k - 1)
  BY DEF ImmediateParentDir
<1>3. k \in slashes
  <2>1. slashes \in SUBSET (0..Len(path))
    BY <1>1
  <2> HIDE DEF slashes
  <2> QED
    BY <1>1, <1>2, <2>1, Greatest
<1> HIDE DEF k
<1>4. k \in 1..Len(path) /\ path[k] = "/" /\ k \in Nat
  BY <1>1, <1>3
<1> HIDE DEF slashes
<1> DEFINE dir == SubSeq(path, 1, k - 1)
<1>5. dir \in Seq(STRING) /\ Len(dir) = k - 1 /\ \A i \in 1..(k - 1) : dir[i] = path[i]
  BY <1>1, <1>4
<1> HIDE DEF dir
<1>6. (k - 1) + 1 = k /\ k - 1 < Len(path)
  BY <1>1, <1>4
<1>7. IsBelow(path, dir)
  BY <1>4, <1>5, <1>6 DEF IsBelow
<1> QED
  BY <1>2, <1>7 DEF dir

(* What is below a directory is found by its name, however many slashes end it.               *)
LEMMA BelowIsMatched ==
  ASSUME NEW path, NEW dir, IsBelow(path, dir)
  PROVE  PathPrefixMatches(path, dir)
<1> DEFINE named == {0} \cup {i \in DOMAIN dir : dir[i] # "/"}
           k == Max(named)
           p == Trimmed(dir)
           rest == SubSeq(path, Len(p) + 1, Len(path))
<1>1. /\ path \in Seq(STRING) /\ dir \in Seq(STRING) /\ Len(dir) \in Nat /\ Len(path) \in Nat
      /\ DOMAIN dir = 1..Len(dir) /\ Len(dir) < Len(path)
      /\ \A i \in 1..Len(dir) : path[i] = dir[i]
      /\ path[Len(dir) + 1] = "/"
  BY DEF IsBelow
<1>2. k \in named /\ \A j \in named : j <= k
  <2>1. named \in SUBSET (0..Len(dir)) /\ named # {}
    BY <1>1
  <2> HIDE DEF named
  <2> QED
    BY <1>1, <2>1, Greatest
<1>3. p = SubSeq(dir, 1, k)
  BY DEF Trimmed
<1> HIDE DEF k, p
<1>4. k \in 0..Len(dir) /\ k \in Nat
  BY <1>1, <1>2
<1>5. Len(p) = k /\ p \in Seq(STRING) /\ \A i \in 1..k : p[i] = path[i]
  BY <1>1, <1>3, <1>4
<1>6. IsPrefix(p, path)
  <2>1. SubSeq(p, 1, k) \in Seq(STRING) /\ Len(SubSeq(p, 1, k)) = k
        /\ \A i \in 1..k : SubSeq(p, 1, k)[i] = p[i]
    BY <1>4, <1>5
  <2>2. SubSeq(path, 1, k) \in Seq(STRING) /\ Len(SubSeq(path, 1, k)) = k
        /\ \A i \in 1..k : SubSeq(path, 1, k)[i] = path[i]
    BY <1>1, <1>4
  <2> DEFINE a == SubSeq(p, 1, k)
             b == SubSeq(path, 1, k)
  <2> HIDE DEF a, b
  <2>3. a = b
    BY <1>5, <2>1, <2>2, SeqEqual DEF a, b
  <2>4. k <= Len(path)
    BY <1>1, <1>4
  <2> QED
    BY <1>5, <2>3, <2>4 DEF IsPrefix, a, b
<1>7. path[k + 1] = "/"
  <2>1. CASE k = Len(dir)
    BY <1>1, <2>1
  <2>2. CASE k # Len(dir)
    <3>1. k + 1 \in 1..Len(dir) /\ ~(k + 1 <= k)
      <4> DEFINE n == Len(dir)
      <4>1. n \in Nat
        BY <1>1
      <4> HIDE DEF n
      <4>2. k \in 0..n /\ k # n /\ k \in Nat
        BY <1>4, <2>2 DEF n
      <4>3. k + 1 \in 1..n /\ ~(k + 1 <= k)
        BY <4>1, <4>2
      <4> QED
        BY <4>3 DEF n
    <3>2. dir[k + 1] = "/"
      BY <1>1, <1>2, <3>1
    <3> QED
      BY <1>1, <3>1, <3>2
  <2> QED
    BY <2>1, <2>2
<1>8. rest # <<>> /\ rest[1] = "/"
  <2>1. k + 1 \in 1..Len(path) /\ 1 \in 1..(Len(path) - (k + 1) + 1)
    BY <1>1, <1>4
  <2>2. rest = SubSeq(path, k + 1, Len(path))
    BY <1>5
  <2>3. Len(SubSeq(path, k + 1, Len(path))) = Len(path) - (k + 1) + 1
        /\ SubSeq(path, k + 1, Len(path))[1] = path[(k + 1) + 1 - 1]
    BY <1>1, <1>4, <2>1
  <2>4. (k + 1) + 1 - 1 = k + 1 /\ Len(path) - (k + 1) + 1 # 0
    BY <1>1, <1>4
  <2> HIDE DEF rest
  <2> QED
    BY <1>7, <2>2, <2>3, <2>4
<1> QED
  BY <1>6, <1>8 DEF PathPrefixMatches, p

(* A directory's own directories are below it.                                          *)
LEMMA BelowIsTransitive ==
  ASSUME NEW path, NEW other, IsBelow(path, other), NEW dir \in Seq(STRING),
         IsPrefix(Append(dir, "/"), other)
  PROVE  IsBelow(path, dir)
<1> DEFINE n == Len(dir)
           q == Append(dir, "/")
<1>1. /\ path \in Seq(STRING) /\ other \in Seq(STRING) /\ Len(other) < Len(path)
      /\ Len(path) \in Nat /\ Len(other) \in Nat /\ n \in Nat
      /\ \A i \in 1..Len(other) : path[i] = other[i]
  BY DEF IsBelow
<1>2. q \in Seq(STRING) /\ Len(q) = n + 1 /\ q[n + 1] = "/" /\ \A i \in 1..n : q[i] = dir[i]
  <2>1. Len(other) + 1 \in 1..Len(path) /\ path[Len(other) + 1] = "/"
    BY <1>1 DEF IsBelow
  <2>2. "/" \in STRING
    BY <1>1, <2>1
  <2> QED
    BY <2>2, AppendProperties
<1> HIDE DEF q
<1>3. n + 1 <= Len(other) /\ SubSeq(q, 1, n + 1) = SubSeq(other, 1, n + 1)
  BY <1>2 DEF IsPrefix, q
<1> HIDE DEF n
<1>4. ASSUME NEW i \in 1..(n + 1) PROVE path[i] = q[i]
  <2>1. SubSeq(q, 1, n + 1)[i] = q[i]
    BY <1>1, <1>2
  <2>2. SubSeq(other, 1, n + 1)[i] = other[i] /\ i \in 1..Len(other)
    BY <1>1, <1>3
  <2> QED
    BY <1>1, <1>3, <2>1, <2>2
<1>5. n < Len(path) /\ n + 1 \in 1..(n + 1) /\ \A i \in 1..n : i \in 1..(n + 1)
  BY <1>1, <1>3
<1> QED
  BY <1>1, <1>2, <1>4, <1>5 DEF IsBelow, n

LEMMA NormalizedIs ==
  ASSUME NEW path \in Seq(STRING), path = NewPath(path), NEW dir, IsBelow(path, dir)
  PROVE  NewPath(dir) = dir
<1>1. /\ dir \in Seq(STRING) /\ Len(dir) \in Nat /\ Len(path) \in Nat /\ Len(dir) < Len(path)
      /\ DOMAIN dir = 1..Len(dir) /\ DOMAIN path = 1..Len(path)
      /\ \A i \in 1..Len(dir) : path[i] = dir[i]
  BY DEF IsBelow
<1>2. ASSUME NEW i \in 1..Len(path) PROVE path[i] # "\\"
  <2>1. NewPath(path)[i] = IF path[i] = "\\" THEN "/" ELSE path[i]
    BY <1>1 DEF NewPath
  <2> QED
    BY <2>1
<1>3. ASSUME NEW i \in 1..Len(dir) PROVE dir[i] # "\\"
  <2>1. i \in 1..Len(path)
    BY <1>1
  <2> QED
    BY <1>1, <1>2, <2>1
<1>4. NewPath(dir) = [i \in 1..Len(dir) |-> dir[i]]
  BY <1>1, <1>3 DEF NewPath
<1> QED
  BY <1>1, <1>4

(* Asking for a directory that was shown shows it as it was, and what is below it.              *)
LEMMA DrillsDown ==
  ASSUME NEW M \in Nat, NEW rows, DOMAIN rows = 1..M,
         \A i \in 1..M : rows[i].file_path \in Seq(STRING) /\ rows[i].file_path = NewPath(rows[i].file_path),
         NEW dir \in DOMAIN Overview(rows, 1..M), dir # <<".">>
  PROVE  LET shown == Overview(rows, 1..M)
             deeper == Overview(rows, UnderPrefix(rows, dir))
         IN  /\ dir \in DOMAIN deeper
             /\ deeper[dir] = shown[dir]
             /\ \A other \in DOMAIN shown : IsPrefix(Append(dir, "/"), other) => other \in DOMAIN deeper
<1> DEFINE under == UnderPrefix(rows, dir)
           parent(i) == ImmediateParentDir(rows[i].file_path)
           shown == Overview(rows, 1..M)
           deeper == Overview(rows, under)
<1>1. DOMAIN shown = {parent(i) : i \in 1..M} /\ DOMAIN deeper = {parent(i) : i \in under}
  BY DEF Overview
<1>2. under = {i \in 1..M : PathPrefixMatches(rows[i].file_path, NewPath(dir))}
  BY DEF UnderPrefix
<1>3. \A i \in 1..M : parent(i) # <<".">> => IsBelow(rows[i].file_path, parent(i))
  BY ParentIs
<1>4. PICK k \in 1..M : parent(k) = dir
  BY <1>1
<1> HIDE DEF parent
<1>5. IsBelow(rows[k].file_path, dir)
  BY <1>3, <1>4
<1>6. NewPath(dir) = dir /\ dir \in Seq(STRING)
  <2>1. NewPath(dir) = dir
    BY <1>5, NormalizedIs
  <2>2. dir \in Seq(STRING)
    BY <1>5 DEF IsBelow
  <2> QED
    BY <2>1, <2>2
<1> HIDE DEF under
<1>7. ASSUME NEW i \in 1..M, IsBelow(rows[i].file_path, dir) PROVE i \in under
  BY <1>2, <1>6, <1>7, BelowIsMatched
<1>8. \A i \in 1..M : parent(i) = dir => i \in under
  BY <1>3, <1>7
<1>9. dir \in DOMAIN deeper
  BY <1>1, <1>4, <1>8
<1>10. deeper[dir] = shown[dir]
  <2>1. {i \in under : ImmediateParentDir(rows[i].file_path) = dir}
          = {i \in 1..M : ImmediateParentDir(rows[i].file_path) = dir}
    BY <1>2, <1>8 DEF parent
  <2>2. Rollup(rows, under, dir) = Rollup(rows, 1..M, dir)
    BY <2>1, Zenon DEF Rollup
  <2>3. deeper[dir] = Rollup(rows, under, dir) /\ shown[dir] = Rollup(rows, 1..M, dir)
    BY <1>1, <1>9, Zenon DEF Overview, parent
  <2> QED
    BY <2>2, <2>3
<1>11. ASSUME NEW other \in DOMAIN shown, IsPrefix(Append(dir, "/"), other) PROVE other \in DOMAIN deeper
  <2>1. PICK i \in 1..M : parent(i) = other
    BY <1>1
  <2>2. other # <<".">>
    <3> SUFFICES ASSUME other = <<".">> PROVE FALSE
      OBVIOUS
    <3>1. Len(dir) \in Nat /\ Len(Append(dir, "/")) = Len(dir) + 1
      BY <1>6
    <3>2. Len(dir) + 1 <= 1 /\ SubSeq(Append(dir, "/"), 1, Len(dir) + 1) = SubSeq(<<".">>, 1, Len(dir) + 1)
      BY <1>11, <3>1 DEF IsPrefix
    <3>3. Len(dir) = 0 /\ SubSeq(Append(dir, "/"), 1, 1) = SubSeq(<<".">>, 1, 1)
      BY <3>1, <3>2
    <3>4. dir = <<>>
      BY <1>6, <3>3, EmptySeq
    <3>5. SubSeq(Append(<<>>, "/"), 1, 1)[1] = "/" /\ SubSeq(<<".">>, 1, 1)[1] = "."
      OBVIOUS
    <3> QED
      BY <3>3, <3>4, <3>5
  <2>3. IsBelow(rows[i].file_path, other)
    BY <1>3, <2>1, <2>2
  <2>4. IsBelow(rows[i].file_path, dir)
    BY <1>6, <1>11, <2>3, BelowIsTransitive
  <2> QED
    BY <1>1, <1>7, <2>1, <2>4
<1> HIDE DEF shown, deeper
<1>12. /\ dir \in DOMAIN deeper /\ deeper[dir] = shown[dir]
       /\ \A other \in DOMAIN shown : IsPrefix(Append(dir, "/"), other) => other \in DOMAIN deeper
  BY <1>9, <1>10, <1>11
<1> QED
  BY <1>12 DEF shown, deeper, under

(* Whatever was indexed: the three reads count the same rows and files, the directories of the   *)
(* overview add up to them, and asking for one of them shows it as it was.                   *)
THEOREM OverviewsAddUp == RowsSpec => []OverviewIsExact
<1>1. RowsOnTrack => OverviewIsExact
  <2> SUFFICES ASSUME RowsOnTrack PROVE OverviewIsExact
    OBVIOUS
  <2> DEFINE M == Len(brought)
  <2>1. /\ M \in Nat /\ \A i \in 1..M : Embeddable(brought[i])
        /\ DOMAIN AllRows = 1..M /\ DOMAIN Metadata = 1..M /\ DOMAIN Paths = 1..M
        /\ \A i \in 1..M : AllRows[i].file_path = brought[i].file_path
        /\ \A i \in 1..M : Metadata[i].file_path = brought[i].file_path
        /\ \A i \in 1..M : Paths[i].file_path = brought[i].file_path
    <3>1. /\ M \in Nat /\ \A i \in 1..M : Embeddable(brought[i])
          /\ AllRows = [i \in 1..M |-> Row(Column, i)]
          /\ Metadata = [i \in 1..M |-> Row({"file_path", "file_hash", "language", "name"}, i)]
          /\ Paths = [i \in 1..M |-> Row({"file_path"}, i)]
      BY ReadsTellOfTheChunks
    <3> HIDE DEF M
    <3>2. ASSUME NEW columns, "file_path" \in columns, NEW i
          PROVE  Row(columns, i).file_path = brought[i].file_path
      <4>1. Row(columns, i).file_path = StoredChunk(brought[i]).file_path
        BY <3>2 DEF Row
      <4> QED
        BY <4>1 DEF StoredChunk
    <3>3. "file_path" \in Column
      BY DEF Column
    <3>4. \A i \in 1..M : AllRows[i].file_path = brought[i].file_path
      BY <3>1, <3>2, <3>3
    <3>5. \A i \in 1..M : Metadata[i].file_path = brought[i].file_path
      BY <3>1, <3>2
    <3>6. \A i \in 1..M : Paths[i].file_path = brought[i].file_path
      BY <3>1, <3>2
    <3> QED
      BY <3>1, <3>4, <3>5, <3>6
  <2> HIDE DEF M
  <2> DEFINE all == Stats(AllRows, 1..M)
  <2>2. Stats(Paths, 1..M) = all /\ Stats(Metadata, 1..M) = all
    <3>1. /\ {Paths[i].file_path : i \in 1..M} = {AllRows[i].file_path : i \in 1..M}
          /\ {Metadata[i].file_path : i \in 1..M} = {AllRows[i].file_path : i \in 1..M}
      BY <2>1
    <3> QED
      BY <3>1 DEF Stats
  <2>3. Totals(Overview(Metadata, 1..M)) = Stats(Metadata, 1..M)
    BY <2>1, TotalsAre
  <2>4. StatsAgree
    BY <2>1, <2>2, <2>3 DEF StatsAgree
  <2>5. \A i \in 1..M : /\ Metadata[i].file_path \in Seq(STRING)
                        /\ Metadata[i].file_path = NewPath(Metadata[i].file_path)
    BY <2>1 DEF Embeddable
  <2>6. DrillDownShowsTheDirectory
    BY <2>1, <2>5, DrillsDown DEF DrillDownShowsTheDirectory
  <2> QED
    BY <2>4, <2>6 DEF OverviewIsExact
<1> QED
  BY <1>1, RowsStay, PTL

-----------------------------------------------------------------------------
(* What an edit of a file asks neighbors for, whatever the lines of the file.          *)

LEMMA LineBounds == /\ MinLines \in Nat /\ MaxLines \in Nat
                    /\ 1 <= MinLines /\ MinLines < MaxLines
BY ChunkingAssumption DEF MinLines, MaxLines, MaxOf2

(* The segments of a text, by the first line of the segment each line is in.                *)
IsSegmented(start, form, source) ==
  /\ start \in [1..Len(source) -> Nat]
  /\ \A i \in 1..Len(source) : 1 <= start[i] /\ start[i] <= i
  /\ \A i \in 1..(Len(source) - 1) :
       start[i + 1] = IF SegmentEnds(form, source, start[i], i) THEN i + 1 ELSE start[i]

LEMMA Segments ==
  ASSUME NEW form, NEW source, Len(source) \in Nat
  PROVE  IsSegmented(SegmentStart(form, source), form, source)
<1> DEFINE N == Len(source)
           ends(s, i) == SegmentEnds(form, source, s, i)
           step == [a \in Nat \X Nat |-> IF ends(a[1], a[2]) THEN a[2] + 1 ELSE a[1]]
           start[i \in 1..N] ==
             IF i = 1 THEN 1
             ELSE IF SegmentEnds(form, source, start[i - 1], i - 1) THEN i ELSE start[i - 1]
<1>1. SegmentStart(form, source) = start
  BY DEF SegmentStart
<1> HIDE DEF ends
<1>2. \E g : g = [i \in 1..N |-> IF i = 1 THEN 1 ELSE IF ends(g[i - 1], i - 1) THEN i ELSE g[i - 1]]
  <2>1. CASE N = 0
    <3>1. 1..N = {}
      BY <2>1
    <3> DEFINE g == [i \in {} |-> 1]
    <3>2. g = [i \in {} |-> IF i = 1 THEN 1 ELSE IF ends(g[i - 1], i - 1) THEN i ELSE g[i - 1]]
      OBVIOUS
    <3> HIDE DEF g
    <3> QED
      BY <3>1, <3>2
  <2>2. CASE N # 0
    <3>1. N - 1 \in Nat /\ N \in Nat
      BY <2>2
    <3>2. StepsStay(step, N - 1, Nat)
      BY <3>1 DEF StepsStay
    <3>3. PICK f \in [0..(N - 1) -> Nat] : IsRun(f, N - 1, 1, step)
      BY <3>1, <3>2, Iterated
    <3>4. f[0] = 1 /\ \A i \in 1..(N - 1) : f[i] = step[<<f[i - 1], i>>]
      BY <3>3 DEF IsRun
    <3> DEFINE g == [i \in 1..N |-> f[i - 1]]
    <3>5. ASSUME NEW i \in 1..N, i # 1
          PROVE  g[i] = IF ends(g[i - 1], i - 1) THEN i ELSE g[i - 1]
      <4>1. /\ i - 1 \in 1..N /\ i - 1 \in 1..(N - 1) /\ (i - 1) - 1 \in 0..(N - 1)
            /\ i - 1 \in Nat /\ (i - 1) + 1 = i
        BY <3>1, <3>5
      <4>2. g[i] = f[i - 1] /\ g[i - 1] = f[(i - 1) - 1] /\ f[(i - 1) - 1] \in Nat
        BY <4>1
      <4>3. f[i - 1] = step[<<f[(i - 1) - 1], i - 1>>]
        BY <3>4, <4>1
      <4>4. step[<<g[i - 1], i - 1>>] = IF ends(g[i - 1], i - 1) THEN (i - 1) + 1 ELSE g[i - 1]
        BY <4>1, <4>2
      <4> QED
        BY <4>1, <4>2, <4>3, <4>4
    <3>6. 1 \in 1..N => g[1] = 1
      BY <3>4
    <3>7. g = [i \in 1..N |-> g[i]]
      OBVIOUS
    <3> HIDE DEF g
    <3>8. g = [i \in 1..N |-> IF i = 1 THEN 1 ELSE IF ends(g[i - 1], i - 1) THEN i ELSE g[i - 1]]
      BY <3>5, <3>6, <3>7
    <3> QED
      BY <3>8
  <2> QED
    BY <2>1, <2>2
<1> USE DEF ends
<1>3. start = [i \in 1..N |->
                 IF i = 1 THEN 1
                 ELSE IF SegmentEnds(form, source, start[i - 1], i - 1) THEN i ELSE start[i - 1]]
  <2>1. PICK g : g = [i \in 1..N |->
                        IF i = 1 THEN 1
                        ELSE IF SegmentEnds(form, source, g[i - 1], i - 1) THEN i ELSE g[i - 1]]
    BY <1>2, Zenon
  <2> QED
    BY <2>1, Zenon
<1> HIDE DEF start, N
<1>4. N \in Nat
  BY DEF N
<1>5. ASSUME NEW i \in 1..N, i # 1
      PROVE  start[i] = IF SegmentEnds(form, source, start[i - 1], i - 1) THEN i ELSE start[i - 1]
  BY <1>3, <1>5
<1>6. 1 \in 1..N => start[1] = 1
  BY <1>3
<1> DEFINE S == {n \in 0..(N - 1) : start[n + 1] \in 1..(n + 1)}
<1>7. ASSUME NEW i \in 1..N PROVE start[i] \in 1..i
  <2>1. N - 1 \in Nat /\ i - 1 \in 0..(N - 1) /\ (i - 1) + 1 = i /\ 1 \in 1..N
    BY <1>4
  <2>2. 0 \in S
    BY <1>6, <2>1
  <2>3. ASSUME NEW n \in 1..(N - 1), n - 1 \in S PROVE n \in S
    <3>1. n + 1 \in 1..N /\ n + 1 # 1 /\ (n + 1) - 1 = n /\ (n - 1) + 1 = n /\ n \in 0..(N - 1)
      BY <1>4, <2>1
    <3>2. start[n] \in 1..n
      BY <2>3, <3>1
    <3>3. start[n + 1] = n + 1 \/ start[n + 1] = start[n]
      BY <1>5, <3>1
    <3> QED
      BY <3>1, <3>2, <3>3
  <2> HIDE DEF S
  <2>4. i - 1 \in S
    BY <2>1, <2>2, <2>3, UpTo
  <2> QED
    BY <2>1, <2>4 DEF S
<1>8. start \in [1..N -> Nat]
  <2>1. start = [i \in 1..N |-> start[i]]
    BY <1>3
  <2>2. \A i \in 1..N : start[i] \in Nat
    BY <1>7
  <2> QED
    BY <2>1, <2>2
<1>9. ASSUME NEW i \in 1..(N - 1)
      PROVE  start[i + 1] = IF SegmentEnds(form, source, start[i], i) THEN i + 1 ELSE start[i]
  <2>1. i + 1 \in 1..N /\ i + 1 # 1 /\ (i + 1) - 1 = i
    BY <1>4
  <2> QED
    BY <1>5, <2>1
<1>10. \A i \in 1..N : 1 <= start[i] /\ start[i] <= i
  BY <1>7
<1> QED
  BY <1>1, <1>8, <1>9, <1>10 DEF IsSegmented, N

(* The line a segment starts with is in that segment.                                *)
LEMMA StartIsAStart ==
  ASSUME NEW form, NEW source, Len(source) \in Nat, NEW start, IsSegmented(start, form, source),
         NEW i \in 1..Len(source)
  PROVE  start[start[i]] = start[i]
<1> DEFINE N == Len(source)
           S == {n \in 0..(N - 1) : start[start[n + 1]] = start[n + 1]}
<1>1. /\ N - 1 \in Nat /\ i - 1 \in 0..(N - 1) /\ (i - 1) + 1 = i /\ 1 \in 1..N
      /\ \A n \in 1..(N - 1) : n + 1 \in 1..N /\ (n - 1) + 1 = n /\ n \in 0..(N - 1)
  OBVIOUS
<1>2. /\ \A n \in 1..N : 1 <= start[n] /\ start[n] <= n /\ start[n] \in Nat
      /\ \A n \in 1..(N - 1) : start[n + 1] = n + 1 \/ start[n + 1] = start[n]
  BY DEF IsSegmented
<1>3. 0 \in S
  <2>1. start[1] = 1
    BY <1>1, <1>2
  <2> QED
    BY <1>1, <2>1
<1>4. ASSUME NEW n \in 1..(N - 1), n - 1 \in S PROVE n \in S
  <2>1. start[start[n]] = start[n]
    BY <1>1, <1>4
  <2>2. start[n + 1] = n + 1 \/ start[n + 1] = start[n]
    BY <1>2
  <2> QED
    BY <1>1, <2>1, <2>2
<1> HIDE DEF S, N
<1>5. i - 1 \in S
  BY <1>1, <1>3, <1>4, UpTo
<1> QED
  BY <1>1, <1>5 DEF S

(* Two boundary lines that stand well apart, with none between them.                       *)
Apart(form, source, j, i) ==
  /\ LineIsBoundary(form, source, j) /\ LineIsBoundary(form, source, i)
  /\ \A k \in (j + 1)..(i - 1) : ~LineIsBoundary(form, source, k)
  /\ i - j \in MinLines..(MaxLines - MinLines + 1)

(* Whatever the segments above are, a segment ends with the second of them.                 *)
LEMMA SettledEnds ==
  ASSUME NEW form, NEW source, Len(source) \in Nat, NEW start, IsSegmented(start, form, source),
         NEW i \in 1..(Len(source) - 1), NEW j \in 1..(i - 1), Apart(form, source, j, i)
  PROVE  start[i + 1] = i + 1
<1> DEFINE N == Len(source)
           s == start[j + 1]
<1>1. /\ MinLines \in Nat /\ MaxLines \in Nat /\ 1 <= MinLines /\ MinLines < MaxLines
      /\ MinLines <= i - j /\ i - j <= MaxLines - MinLines + 1
  BY LineBounds DEF Apart
<1>2. /\ N \in Nat /\ \A k \in j..i : k \in 1..(N - 1) /\ k \in 1..N
      /\ j \in Nat /\ i \in Nat /\ j < i /\ i < N
  OBVIOUS
<1>3. /\ \A k \in 1..N : start[k] \in Nat /\ 1 <= start[k] /\ start[k] <= k
      /\ \A k \in 1..(N - 1) : start[k + 1] = IF SegmentEnds(form, source, start[k], k) THEN k + 1 ELSE start[k]
  BY DEF IsSegmented
<1> HIDE DEF N
<1>4. s \in Nat /\ i - s < MaxLines /\ s <= j + 1
  <2>1. j \in 1..(N - 1) /\ start[j] \in Nat /\ start[j] <= j
    BY <1>2, <1>3
  <2>2. s = IF SegmentEnds(form, source, start[j], j) THEN j + 1 ELSE start[j]
    BY <1>3, <2>1
  <2>3. CASE s = j + 1
    BY <1>1, <1>2, <2>3
  <2>4. CASE s = start[j] /\ ~SegmentEnds(form, source, start[j], j)
    <3>1. LineIsBoundary(form, source, j)
      BY DEF Apart
    <3>2. (j + 1) - start[j] < MinLines
      BY <1>1, <1>2, <2>1, <2>4, <3>1 DEF SegmentEnds
    <3> QED
      BY <1>1, <1>2, <2>1, <2>4, <3>2
  <2> QED
    BY <2>2, <2>3, <2>4
<1>5. ASSUME NEW k \in (j + 1)..(i - 1), start[k] = s PROVE start[k + 1] = s
  <2>1. k \in 1..(N - 1)
    BY <1>2
  <2>2. ~LineIsBoundary(form, source, k)
    BY DEF Apart
  <2>3. ~((k + 1) - s >= MaxLines)
    BY <1>1, <1>2, <1>4
  <2>4. ~SegmentEnds(form, source, s, k)
    BY <2>2, <2>3 DEF SegmentEnds
  <2> QED
    BY <1>3, <1>5, <2>1, <2>4
<1> DEFINE S == {n \in 0..(i - j - 1) : start[j + 1 + n] = s}
<1>6. start[i] = s
  <2>1. /\ i - j - 1 \in Nat /\ i - j - 1 \in 0..(i - j - 1) /\ j + 1 + (i - j - 1) = i
        /\ 0 \in 0..(i - j - 1) /\ j + 1 + 0 = j + 1
    BY <1>2
  <2>2. 0 \in S
    BY <2>1
  <2>3. ASSUME NEW n \in 1..(i - j - 1), n - 1 \in S PROVE n \in S
    <3>1. /\ j + n \in (j + 1)..(i - 1) /\ j + 1 + (n - 1) = j + n /\ (j + n) + 1 = j + 1 + n
          /\ n \in 0..(i - j - 1)
      BY <1>2
    <3> HIDE DEF s
    <3>2. start[j + n] = s
      BY <2>3, <3>1
    <3>3. start[(j + n) + 1] = s
      BY <1>5, <3>1, <3>2
    <3> QED
      BY <3>1, <3>3
  <2> HIDE DEF S
  <2>4. i - j - 1 \in S
    BY <2>1, <2>2, <2>3, UpTo
  <2> QED
    BY <2>1, <2>4 DEF S
<1>7. SegmentEnds(form, source, s, i)
  <2>1. LineIsBoundary(form, source, i)
    BY DEF Apart
  <2>2. (i + 1) - s >= MinLines
    BY <1>1, <1>2, <1>4
  <2> HIDE DEF s
  <2> QED
    BY <2>1, <2>2 DEF SegmentEnds
<1>8. i \in 1..(N - 1)
  BY <1>2
<1> HIDE DEF s
<1> QED
  BY <1>3, <1>6, <1>7, <1>8

(* From a line on, two texts have the same boundaries, by some lines apart.                  *)
SameBelow(form, source, was, by, line) ==
  /\ Len(source) \in Nat /\ Len(was) \in Nat /\ by \in Int /\ Len(source) = Len(was) + by
  /\ line \in Nat /\ line >= 1 /\ line - by >= 1
  /\ \A k \in line..Len(source) :
       LineIsBoundary(form, source, k) <=> LineIsBoundary(form, was, k - by)

(* From a cut in both of them on, the cuts fall where they fell.                           *)
LEMMA CutsFallWhereTheyFell ==
  ASSUME NEW form, NEW source, NEW was, NEW by, NEW line, SameBelow(form, source, was, by, line),
         NEW at, IsSegmented(at, form, source), NEW before, IsSegmented(before, form, was),
         line \in 1..Len(source), at[line] = line, before[line - by] = line - by
  PROVE  \A k \in line..Len(source) : before[k - by] = at[k] - by /\ line <= at[k]
<1> DEFINE N == Len(source)
           S == {n \in 0..(N - line) : /\ before[(line + n) - by] = at[line + n] - by
                                /\ line <= at[line + n]}
<1>1. /\ N \in Nat /\ by \in Int /\ line \in Nat /\ line >= 1 /\ line <= N /\ line - by >= 1
      /\ N = Len(was) + by /\ Len(was) \in Nat
  BY DEF SameBelow
<1>2. /\ \A k \in 1..N : at[k] \in Nat
      /\ \A k \in 1..(N - 1) : at[k + 1] = IF SegmentEnds(form, source, at[k], k) THEN k + 1 ELSE at[k]
      /\ \A k \in 1..Len(was) : before[k] \in Nat
      /\ \A k \in 1..(Len(was) - 1) :
           before[k + 1] = IF SegmentEnds(form, was, before[k], k) THEN k + 1 ELSE before[k]
  BY DEF IsSegmented
<1> HIDE DEF N
<1>3. ASSUME NEW k \in line..(N - 1), before[k - by] = at[k] - by, line <= at[k]
      PROVE  before[(k + 1) - by] = at[k + 1] - by /\ line <= at[k + 1]
  <2>1. k \in 1..(N - 1) /\ k \in 1..N /\ k - by \in 1..(Len(was) - 1) /\ (k - by) + 1 = (k + 1) - by
    BY <1>1
  <2>2. /\ at[k] \in Nat
        /\ at[k + 1] = IF SegmentEnds(form, source, at[k], k) THEN k + 1 ELSE at[k]
        /\ before[(k + 1) - by] = IF SegmentEnds(form, was, before[k - by], k - by)
                                  THEN (k + 1) - by ELSE before[k - by]
    BY <1>2, <2>1
  <2>3. ((k - by) + 1) - before[k - by] = (k + 1) - at[k]
    BY <1>1, <1>3, <2>2
  <2>4. LineIsBoundary(form, source, k) <=> LineIsBoundary(form, was, k - by)
    <3>1. k \in line..Len(source)
      BY <1>1 DEF N
    <3> QED
      BY <3>1 DEF SameBelow
  <2>5. SegmentEnds(form, source, at[k], k) <=> SegmentEnds(form, was, before[k - by], k - by)
    BY <2>3, <2>4 DEF SegmentEnds
  <2>6. CASE SegmentEnds(form, source, at[k], k)
    BY <1>1, <2>2, <2>5, <2>6
  <2>7. CASE ~SegmentEnds(form, source, at[k], k)
    BY <1>1, <1>3, <2>2, <2>5, <2>7
  <2> QED
    BY <2>6, <2>7
<1>4. N - line \in Nat
  BY <1>1
<1>5. 0 \in S
  <2>1. line + 0 = line /\ 0 \in 0..(N - line) /\ (line + 0) - by = line - by
    BY <1>1
  <2>2. before[(line + 0) - by] = at[line + 0] - by /\ line <= at[line + 0]
    BY <1>1, <2>1
  <2> QED
    BY <2>1, <2>2
<1>6. ASSUME NEW n \in 1..(N - line), n - 1 \in S PROVE n \in S
  <2>1. PICK k \in line..(N - 1) : k = line + (n - 1)
    <3>1. line + (n - 1) \in line..(N - 1)
      BY <1>1
    <3> QED
      BY <3>1
  <2>2. before[k - by] = at[k] - by /\ line <= at[k]
    <3>1. /\ before[(line + (n - 1)) - by] = at[line + (n - 1)] - by
          /\ line <= at[line + (n - 1)]
      BY <1>6, SMT
    <3> QED
      BY <2>1, <3>1, Zenon
  <2> HIDE DEF S
  <2>3. before[(k + 1) - by] = at[k + 1] - by /\ line <= at[k + 1]
    BY <1>3, <2>1, <2>2
  <2>4. k + 1 = line + n /\ n \in 0..(N - line)
    BY <1>1, <2>1
  <2>5. before[(line + n) - by] = at[line + n] - by /\ line <= at[line + n]
    BY <2>3, <2>4, Zenon
  <2> QED
    BY <2>4, <2>5 DEF S
<1> HIDE DEF S
<1>7. \A n \in 0..(N - line) : n \in S
  BY <1>4, <1>5, <1>6, UpTo
<1>8. ASSUME NEW k \in line..N PROVE before[k - by] = at[k] - by /\ line <= at[k]
  <2>1. /\ k - line \in 0..(N - line) /\ line + (k - line) = k
        /\ (line + (k - line)) - by = k - by
    BY <1>1
  <2>2. k - line \in S
    BY <1>7, <2>1
  <2>3. /\ before[(line + (k - line)) - by] = at[line + (k - line)] - by
        /\ line <= at[line + (k - line)]
    BY <2>2, Zenon DEF S
  <2> QED
    BY <2>1, <2>3, Zenon
<1> QED
  BY <1>8 DEF N

(* The lines of a file as it is first indexed.                                       *)
Original(n) == [i \in 1..n |-> i]

LEMMA OriginalIs ==
  ASSUME NEW n \in Nat
  PROVE  /\ Original(n) \in Seq(Nat) /\ Len(Original(n)) = n
         /\ \A i \in 1..n : Original(n)[i] = i
BY DEF Original

(* Some lines are the same as some others, by some lines apart.                            *)
LEMMA SameLines ==
  ASSUME NEW source, NEW was, NEW by \in Int, NEW a \in Nat, NEW b \in Nat, a <= b,
         \A k \in a..b : source[k] \in Nat /\ source[k] = was[k - by]
  PROVE  SubSeq(source, a, b) = SubSeq(was, a - by, b - by)
<1> DEFINE s == SubSeq(source, a, b)
           t == SubSeq(was, a - by, b - by)
<1>1. /\ a - by \in Int /\ b - by \in Int /\ a - by <= b - by /\ (b - by) - (a - by) + 1 = b - a + 1
      /\ \A k \in (a - by)..(b - by) : k + by \in a..b /\ (k + by) - by = k
      /\ \A i \in 1..(b - a + 1) : (a + i) - 1 \in a..b /\ ((a - by) + i) - 1 = ((a + i) - 1) - by
      /\ a \in Int /\ b \in Int /\ b - a + 1 \in Nat
  OBVIOUS
<1>2. \A k \in (a - by)..(b - by) : was[k] \in Nat
  <2>1. ASSUME NEW k \in (a - by)..(b - by) PROVE was[k] \in Nat
    <3>1. k + by \in a..b /\ (k + by) - by = k
      BY <1>1
    <3>2. source[k + by] \in Nat /\ source[k + by] = was[(k + by) - by]
      BY <3>1
    <3> QED
      BY <3>1, <3>2
  <2> QED
    BY <2>1
<1>3. /\ s \in Seq(Nat) /\ Len(s) = b - a + 1
      /\ \A i \in 1..(b - a + 1) : s[i] = source[a + i - 1]
  BY <1>1, SubSeqProperties
<1>4. /\ t \in Seq(Nat) /\ Len(t) = (b - by) - (a - by) + 1
      /\ \A i \in 1..((b - by) - (a - by) + 1) : t[i] = was[(a - by) + i - 1]
  BY <1>1, <1>2, SubSeqProperties
<1> HIDE DEF s, t
<1>5. ASSUME NEW i \in 1..Len(s) PROVE s[i] = t[i]
  <2>1. i \in 1..(b - a + 1) /\ a + i - 1 = (a + i) - 1 /\ (a - by) + i - 1 = ((a - by) + i) - 1
    BY <1>1, <1>3
  <2>2. s[i] = source[(a + i) - 1] /\ t[i] = was[((a - by) + i) - 1]
    BY <1>1, <1>3, <1>4, <2>1
  <2>3. source[(a + i) - 1] = was[((a + i) - 1) - by]
    BY <1>1, <2>1
  <2> QED
    BY <1>1, <2>1, <2>2, <2>3
<1>6. Len(s) = Len(t)
  BY <1>1, <1>3, <1>4
<1>7. s = t
  BY <1>3, <1>4, <1>5, <1>6, SeqEqual
<1> QED
  BY <1>7 DEF s, t

(* A segment ends with the line, or the text does.                                     *)
IsEnd(at, source, m) == m \in 1..Len(source) /\ (m = Len(source) \/ at[m + 1] = m + 1)

(* The chunk of the segment that ends with a line.                                     *)
ChunkTo(at, source, m) == Chunk(source, MaxOf2(at[m] - Overlap, 1), m, 0)

LEMMA ChunksAre ==
  ASSUME NEW form, NEW source, Len(source) \in Nat, NEW at, at = SegmentStart(form, source)
  PROVE  \A c : c \in TextChunks(form, source) <=> \E m : IsEnd(at, source, m) /\ c = ChunkTo(at, source, m)
<1> DEFINE start == [i \in 1..Len(source) |-> at[i]]
<1>1. TextChunks(form, source)
        = {Chunk(source, MaxOf2(start[i] - Overlap, 1), i, 0) :
             i \in {j \in 1..Len(source) : j = Len(source) \/ start[j + 1] = j + 1}}
  BY DEF TextChunks
<1>2. \A i \in 1..Len(source) : start[i] = at[i]
  OBVIOUS
<1>3. \A j \in 1..Len(source) : j = Len(source) \/ j + 1 \in 1..Len(source)
  OBVIOUS
<1> HIDE DEF start
<1>4. {j \in 1..Len(source) : j = Len(source) \/ start[j + 1] = j + 1}
        = {j \in 1..Len(source) : j = Len(source) \/ at[j + 1] = j + 1}
  BY <1>2, <1>3
<1> QED
  BY <1>1, <1>2, <1>4, Zenon DEF IsEnd, ChunkTo

(* A text was edited: from the line under the edit on, its lines are those of the original,   *)
(* by the lines the edit put in or took.                                               *)
EditedText(by) ==
  /\ by \in Int /\ below \in Nat /\ below >= 1 /\ below - by >= 1 /\ (below = 1 => by = -1)
  /\ Len(lines) \in Nat /\ Len(lines) = TextLines + by
  /\ \A k \in below..Len(lines) : lines[k] = k - by

IsText == shape.by = "text" /\ shape.cuts \subseteq 1..TextLines

LEMMA BoundariesStay ==
  ASSUME NEW by, EditedText(by), NEW line \in Nat, line >= below
  PROVE  SameBelow(shape, lines, Original(TextLines), by, line)
<1>1. /\ by \in Int /\ below \in Nat /\ below >= 1 /\ below - by >= 1 /\ TextLines \in Nat
      /\ Len(lines) \in Nat /\ Len(lines) = TextLines + by
      /\ \A k \in below..Len(lines) : lines[k] = k - by
  BY ChunkingAssumption DEF EditedText
<1>2. Len(Original(TextLines)) = TextLines /\ \A i \in 1..TextLines : Original(TextLines)[i] = i
  BY <1>1, OriginalIs
<1>3. ASSUME NEW k \in line..Len(lines)
      PROVE  LineIsBoundary(shape, lines, k) <=> LineIsBoundary(shape, Original(TextLines), k - by)
  <2>1. k \in below..Len(lines) /\ k - by \in 1..TextLines
    BY <1>1
  <2>2. lines[k] = Original(TextLines)[k - by]
    BY <1>1, <1>2, <2>1
  <2> QED
    BY <2>2 DEF LineIsBoundary
<1>4. line >= 1 /\ line - by >= 1
  BY <1>1
<1> QED
  BY <1>1, <1>2, <1>3, <1>4 DEF SameBelow

(* The cuts of the edited text under a settled boundary are those of the original.            *)
LEMMA CutsUnderTheEdit ==
  ASSUME NEW by, EditedText(by), NEW i, NEW m \in 1..Len(lines), i \in below..(m - 1), Settled(i),
         NEW at, at = SegmentStart(shape, lines),
         NEW before, before = SegmentStart(shape, Original(TextLines))
  PROVE  /\ IsSegmented(at, shape, lines) /\ IsSegmented(before, shape, Original(TextLines))
         /\ \A k \in m..Len(lines) : /\ before[k - by] = at[k] - by
                                     /\ k - by \in 1..TextLines /\ i + 1 <= at[k]
<1> DEFINE was == Original(TextLines)
           N == Len(lines)
<1>1. /\ by \in Int /\ below \in Nat /\ below >= 1 /\ below - by >= 1 /\ TextLines \in Nat
      /\ N \in Nat /\ N = TextLines + by /\ m <= N /\ m \in Nat
      /\ i \in Nat /\ i >= below /\ i < m
  BY ChunkingAssumption DEF EditedText
<1>2. Len(was) = TextLines
  BY <1>1, OriginalIs
<1> HIDE DEF N, was
<1>3. IsSegmented(at, shape, lines) /\ IsSegmented(before, shape, was)
  BY <1>1, <1>2, Segments DEF N, was
<1>4. PICK j \in below..(i - 1) : Apart(shape, lines, j, i)
  BY DEF Settled, Apart
<1>5. at[i + 1] = i + 1
  <2>1. i \in 1..(N - 1) /\ j \in 1..(i - 1)
    BY <1>1
  <2> QED
    BY <1>1, <1>3, <1>4, <2>1, SettledEnds DEF N
<1>6. SameBelow(shape, lines, was, by, below)
  BY <1>1, BoundariesStay DEF was
<1>7. Apart(shape, was, j - by, i - by)
  <2>1. \A k \in below..N : LineIsBoundary(shape, lines, k) <=> LineIsBoundary(shape, was, k - by)
    BY <1>6 DEF SameBelow, N
  <2>2. /\ j \in below..N /\ i \in below..N /\ (i - by) - (j - by) = i - j
        /\ \A k \in ((j - by) + 1)..((i - by) - 1) :
             k + by \in below..N /\ k + by \in (j + 1)..(i - 1) /\ (k + by) - by = k
    BY <1>1
  <2>3. /\ LineIsBoundary(shape, lines, j) /\ LineIsBoundary(shape, lines, i)
        /\ \A k \in (j + 1)..(i - 1) : ~LineIsBoundary(shape, lines, k)
        /\ i - j \in MinLines..(MaxLines - MinLines + 1)
    BY <1>4 DEF Apart
  <2>4. ASSUME NEW k \in ((j - by) + 1)..((i - by) - 1) PROVE ~LineIsBoundary(shape, was, k)
    <3>1. LineIsBoundary(shape, lines, k + by) <=> LineIsBoundary(shape, was, (k + by) - by)
      BY <2>1, <2>2
    <3> QED
      BY <2>2, <2>3, <3>1
  <2>5. LineIsBoundary(shape, was, j - by) /\ LineIsBoundary(shape, was, i - by)
    BY <2>1, <2>2, <2>3
  <2>6. (i - by) - (j - by) \in MinLines..(MaxLines - MinLines + 1)
    BY <2>2, <2>3
  <2> QED
    BY <2>4, <2>5, <2>6 DEF Apart
<1>8. before[(i - by) + 1] = (i - by) + 1
  <2>1. i - by \in 1..(TextLines - 1) /\ j - by \in 1..((i - by) - 1)
    BY <1>1
  <2>2. Len(was) \in Nat /\ i - by \in 1..(Len(was) - 1)
    BY <1>1, <1>2, <2>1
  <2> QED
    BY <1>3, <1>7, <2>1, <2>2, SettledEnds
<1>9. \A k \in (i + 1)..N : before[k - by] = at[k] - by /\ i + 1 <= at[k]
  <2>1. i + 1 \in Nat /\ i + 1 >= below /\ i + 1 \in 1..N /\ (i + 1) - by = (i - by) + 1
    BY <1>1
  <2>2. SameBelow(shape, lines, was, by, i + 1)
    BY <2>1, BoundariesStay DEF was
  <2>3. before[(i + 1) - by] = (i + 1) - by
    BY <1>8, <2>1
  <2> QED
    BY <1>3, <1>5, <2>1, <2>2, <2>3, CutsFallWhereTheyFell DEF N
<1>10. \A k \in m..N : k \in (i + 1)..N /\ k - by \in 1..TextLines
  BY <1>1
<1> QED
  BY <1>3, <1>9, <1>10 DEF N, was

(* The chunks of the edited text that its row does not hold.                              *)
NewChunks == {c \in TextChunks(shape, lines) :
                c.content \notin Contents(TextChunks(shape, Original(TextLines)))}

(* Those of them that hold no other one reach up to the edit, or to where nothing is settled. *)
LEMMA QueriesReachTheEdit ==
  ASSUME NEW by, EditedText(by), NEW c \in NewChunks, below <= c.first,
         ~\E inner \in NewChunks : StrictlyContains(c, inner),
         NEW i \in below..(c.last - 1), Settled(i)
  PROVE  FALSE
<1> DEFINE was == Original(TextLines)
           at == SegmentStart(shape, lines)
           before == SegmentStart(shape, was)
           N == Len(lines)
<1>1. /\ by \in Int /\ below \in Nat /\ below >= 1 /\ below - by >= 1 /\ (below = 1 => by = -1)
      /\ N \in Nat /\ N = TextLines + by /\ TextLines \in Nat
      /\ Overlap \in Nat
      /\ \A k \in below..N : lines[k] = k - by
  BY ChunkingAssumption DEF EditedText
<1>2. Len(was) = TextLines /\ \A k \in 1..TextLines : was[k] = k
  BY <1>1, OriginalIs
<1>3. PICK m : IsEnd(at, lines, m) /\ c = ChunkTo(at, lines, m)
  BY <1>1, ChunksAre DEF NewChunks
<1>4. /\ c.first = MaxOf2(at[m] - Overlap, 1) /\ c.last = m
      /\ c.content = SubSeq(lines, MaxOf2(at[m] - Overlap, 1), m)
  BY <1>3 DEF ChunkTo, Chunk
<1>5. /\ m \in 1..N /\ m \in Nat /\ m <= N /\ (m = N \/ at[m + 1] = m + 1)
      /\ i \in below..(m - 1)
  BY <1>1, <1>3, <1>4 DEF IsEnd
<1>6. /\ IsSegmented(at, shape, lines) /\ IsSegmented(before, shape, was)
      /\ \A k \in m..N : before[k - by] = at[k] - by /\ k - by \in 1..TextLines /\ i + 1 <= at[k]
  BY <1>5, CutsUnderTheEdit
<1>7. /\ \A k \in 1..N : at[k] \in Nat /\ 1 <= at[k] /\ at[k] <= k
      /\ \A k \in 1..TextLines : before[k] \in Nat /\ 1 <= before[k] /\ before[k] <= k
  BY <1>2, <1>6 DEF IsSegmented
<1>8. \A e : e \in TextChunks(shape, was) <=> \E l : IsEnd(before, was, l) /\ e = ChunkTo(before, was, l)
  BY <1>1, <1>2, ChunksAre
<1>9. \A e : e \in TextChunks(shape, lines) <=> \E l : IsEnd(at, lines, l) /\ e = ChunkTo(at, lines, l)
  BY <1>1, ChunksAre
<1> HIDE DEF was, at, before, N
<1>10. /\ m - by \in 1..TextLines /\ before[m - by] = at[m] - by /\ i + 1 <= at[m]
       /\ at[m] \in Nat /\ at[m] <= m /\ IsEnd(before, was, m - by)
  <2>1. m \in m..N
    BY <1>5
  <2>2. m - by \in 1..TextLines /\ before[m - by] = at[m] - by /\ i + 1 <= at[m]
    BY <1>6, <2>1
  <2>3. m - by = TextLines \/ before[(m - by) + 1] = (m - by) + 1
    <3>1. CASE m = N
      BY <1>1, <3>1
    <3>2. CASE m # N
      <4>1. m + 1 \in m..N /\ (m + 1) - by = (m - by) + 1
        BY <1>1, <1>5, <3>2
      <4> QED
        BY <1>5, <1>6, <3>2, <4>1
    <3> QED
      BY <3>1, <3>2
  <2> QED
    BY <1>2, <1>5, <1>7, <2>2, <2>3 DEF IsEnd
<1>11. CASE at[m] - Overlap >= 1
  <2> DEFINE first == at[m] - Overlap
  <2>1. /\ MaxOf2(at[m] - Overlap, 1) = first /\ first \in Nat /\ below <= first /\ first <= m
        /\ MaxOf2(before[m - by] - Overlap, 1) = first - by
    <3>1. first \in Nat /\ first >= 1 /\ first <= m
      BY <1>1, <1>5, <1>10, <1>11
    <3>2. MaxOf2(first, 1) = first
      BY <3>1 DEF MaxOf2
    <3>3. below <= first
      BY <1>4, <3>2
    <3>4. before[m - by] - Overlap = first - by
      BY <1>1, <1>10
    <3> HIDE DEF first
    <3>5. first - by \in Int /\ first - by >= 1
      BY <1>1, <3>1, <3>3
    <3>6. MaxOf2(first - by, 1) = first - by
      BY <3>5 DEF MaxOf2
    <3>7. MaxOf2(at[m] - Overlap, 1) = MaxOf2(first, 1)
      BY DEF first
    <3> QED
      BY <3>1, <3>2, <3>3, <3>4, <3>6, <3>7
  <2> HIDE DEF first
  <2>2. \A k \in first..m : lines[k] \in Nat /\ lines[k] = was[k - by]
    <3>1. \A k \in first..m : k \in below..N /\ k - by \in 1..TextLines /\ k - by \in Nat
      BY <1>1, <1>5, <2>1
    <3> QED
      BY <1>1, <1>2, <3>1
  <2>3. SubSeq(lines, first, m) = SubSeq(was, first - by, m - by)
    BY <1>1, <1>5, <2>1, <2>2, SameLines
  <2>4. ChunkTo(before, was, m - by) \in TextChunks(shape, was)
    BY <1>8, <1>10
  <2>5. ChunkTo(before, was, m - by).content = c.content
    BY <1>4, <2>1, <2>3 DEF ChunkTo, Chunk
  <2> QED
    BY <2>4, <2>5 DEF NewChunks, Contents, was
<1>12. CASE ~(at[m] - Overlap >= 1)
  <2> DEFINE p == at[m] - 1
  <2>1. below = 1 /\ by = -1 /\ c.first = 1
    BY <1>1, <1>4, <1>10, <1>12 DEF MaxOf2
  <2>2. /\ p \in 1..N /\ p + 1 = at[m] /\ p < m /\ p \in Nat /\ 1 <= p /\ p + 1 <= Overlap
        /\ at[p] \in Nat /\ at[p] <= p /\ MaxOf2(at[p] - Overlap, 1) = 1
    <3>1. p \in 1..N /\ p + 1 = at[m] /\ p < m /\ p \in Nat /\ 1 <= p /\ p + 1 <= Overlap
      BY <1>1, <1>5, <1>10, <1>12
    <3> HIDE DEF p
    <3>2. at[p] \in Nat /\ at[p] <= p
      BY <1>7, <3>1
    <3> QED
      BY <1>1, <3>1, <3>2 DEF MaxOf2
  <2>3. at[p + 1] = p + 1
    <3>1. at[at[m]] = at[m]
      <4>1. Len(lines) \in Nat /\ m \in 1..Len(lines)
        BY <1>1, <1>5 DEF N
      <4> QED
        BY <1>6, <4>1, StartIsAStart
    <3> QED
      BY <2>2, <3>1
  <2> HIDE DEF p
  <2> DEFINE q == ChunkTo(at, lines, p)
  <2>4. q \in TextChunks(shape, lines)
    <3>1. IsEnd(at, lines, p)
      BY <2>2, <2>3 DEF IsEnd, N
    <3> QED
      BY <1>9, <3>1
  <2>5. q.first = 1 /\ q.last = p /\ q.content = SubSeq(lines, 1, p)
    BY <2>2 DEF ChunkTo, Chunk
  <2>6. StrictlyContains(c, q)
    <3>1. c.first = 1 /\ q.first = 1 /\ c.last = m /\ q.last = p
      BY <1>4, <2>1, <2>5
    <3>2. 1 <= 1 /\ p <= m /\ p < m
      BY <1>5, <2>2
    <3> QED
      BY <3>1, <3>2 DEF StrictlyContains
  <2> HIDE DEF q
  <2>7. ASSUME NEW e \in TextChunks(shape, was), e.content = q.content PROVE FALSE
    <3>1. PICK l : IsEnd(before, was, l) /\ e = ChunkTo(before, was, l)
      BY <1>8
    <3> DEFINE first == MaxOf2(before[l] - Overlap, 1)
    <3>2. l \in 1..TextLines /\ e.content = SubSeq(was, first, l)
      BY <1>2, <3>1 DEF IsEnd, ChunkTo, Chunk
    <3>3. /\ first \in Nat /\ 1 <= first /\ first <= l
          /\ (first = 1 \/ before[l] = first + Overlap)
          /\ before[l] \in Nat /\ before[l] <= l
      <4>1. before[l] \in Nat /\ before[l] <= l /\ 1 <= before[l]
        BY <1>7, <3>2
      <4>2. l \in Nat /\ 1 <= l /\ Overlap \in Nat
        BY <1>1, <3>2
      <4>3. CASE before[l] - Overlap > 1
        <5>1. first = before[l] - Overlap
          BY <4>3 DEF MaxOf2
        <5> HIDE DEF first
        <5> QED
          BY <4>1, <4>2, <4>3, <5>1
      <4>4. CASE ~(before[l] - Overlap > 1)
        <5>1. first = 1
          BY <4>4 DEF MaxOf2
        <5> HIDE DEF first
        <5> QED
          BY <4>1, <4>2, <5>1
      <4> QED
        BY <4>3, <4>4
    <3> HIDE DEF first
    <3>4. \A k \in first..l : was[k] \in Nat /\ was[k] = k
      <4>1. \A k \in first..l : k \in 1..TextLines /\ k \in Nat
        BY <1>1, <3>2, <3>3
      <4> QED
        BY <1>2, <4>1
    <3>5. /\ Len(SubSeq(was, first, l)) = l - first + 1
          /\ SubSeq(was, first, l)[1] = first
      <4>1. /\ Len(SubSeq(was, first, l)) = IF first <= l THEN l - first + 1 ELSE 0
            /\ \A k \in 1..(l - first + 1) : SubSeq(was, first, l)[k] = was[first + k - 1]
        BY <3>2, <3>3, <3>4, SubSeqProperties
      <4>2. 1 \in 1..(l - first + 1) /\ first + 1 - 1 = first /\ first \in first..l
        BY <3>2, <3>3
      <4> QED
        BY <3>3, <3>4, <4>1, <4>2
    <3>6. \A k \in 1..p : lines[k] = k + 1 /\ lines[k] \in Nat
      <4>1. \A k \in 1..p : k \in below..N /\ k - by = k + 1
        BY <1>1, <2>1, <2>2
      <4> QED
        BY <1>1, <4>1
    <3>7. Len(SubSeq(lines, 1, p)) = p /\ SubSeq(lines, 1, p)[1] = 2
      <4>1. /\ Len(SubSeq(lines, 1, p)) = IF 1 <= p THEN p - 1 + 1 ELSE 0
            /\ \A k \in 1..(p - 1 + 1) : SubSeq(lines, 1, p)[k] = lines[1 + k - 1]
        BY <2>2, <3>6, SubSeqProperties
      <4>2. 1 \in 1..(p - 1 + 1) /\ 1 + 1 - 1 = 1 /\ 1 \in 1..p /\ p - 1 + 1 = p
        BY <2>2
      <4> QED
        BY <2>2, <3>6, <4>1, <4>2
    <3>8. SubSeq(was, first, l) = SubSeq(lines, 1, p)
      BY <2>5, <2>7, <3>2
    <3>9. first = 2 /\ l - first + 1 = p
      BY <3>5, <3>7, <3>8
    <3> QED
      BY <1>1, <2>2, <3>2, <3>3, <3>9
  <2>8. q \in NewChunks
    BY <2>4, <2>7 DEF NewChunks, Contents, was
  <2> QED
    BY <2>6, <2>8
<1> QED
  BY <1>11, <1>12

(* Edits of code.                                                           *)
IsCode == shape.by = "code" /\ shape.items \subseteq Item /\ shape.docs \subseteq 1..CodeLines

EditedCode ==
  /\ edited \in 1..CodeLines /\ Len(lines) = CodeLines
  /\ \A k \in 1..CodeLines : lines[k] = IF k = edited THEN Plain ELSE k

LEMMA NewLines == /\ Plain \in Nat /\ Plain > TextLines /\ Plain > CodeLines /\ Boundary = Plain + 1
                  /\ TextLines \in Nat /\ CodeLines \in Nat
BY ChunkingAssumption DEF Plain, Boundary, MaxOf2

(* A declaration starts with the docs over it.                                         *)
LEMMA DocStartIs ==
  ASSUME IsCode, NEW first \in Nat, 1 <= first
  PROVE  DocStart(shape, first) \in 1..first
<1> DEFINE S == {s \in 1..first : s..(first - 1) \subseteq shape.docs}
<1>1. S \in SUBSET Nat /\ first \in S
  OBVIOUS
<1>2. PICK s \in S : \A j \in S : s <= j
  BY <1>1, Least
<1>3. s - 1 \notin shape.docs
  <2> SUFFICES ASSUME s - 1 \in shape.docs PROVE FALSE
    OBVIOUS
  <2>1. s \in Nat /\ s - 1 >= 1 /\ s - 1 \in 1..first
    BY <1>2 DEF IsCode
  <2>2. \A k \in (s - 1)..(first - 1) : k = s - 1 \/ k \in s..(first - 1)
    BY <2>1
  <2>3. s - 1 \in S
    BY <1>2, <2>1, <2>2
  <2>4. s <= s - 1
    BY <1>2, <2>3
  <2> QED
    BY <2>1, <2>4
<1>4. \E t \in 1..first : t..(first - 1) \subseteq shape.docs /\ t - 1 \notin shape.docs
  BY <1>2, <1>3
<1> QED
  BY <1>4, Zenon DEF DocStart

LEMMA CodeChunksAre ==
  ASSUME IsCode, NEW source
  PROVE  \A c \in CodeChunks(shape, source) :
           \E d \in shape.items :
             /\ c = Chunk(source, DocStart(shape, d.first), d.last, d.n)
             /\ DocStart(shape, d.first) \in Nat /\ d.last \in Nat
             /\ 1 <= DocStart(shape, d.first) /\ DocStart(shape, d.first) <= d.last
             /\ d.last <= CodeLines
<1>1. ASSUME NEW d \in shape.items
      PROVE  /\ DocStart(shape, d.first) \in Nat /\ d.last \in Nat
             /\ 1 <= DocStart(shape, d.first) /\ DocStart(shape, d.first) <= d.last
             /\ d.last <= CodeLines
  <2>1. /\ d.first \in Nat /\ 1 <= d.first /\ d.first <= d.last /\ d.last \in Nat
        /\ d.last <= CodeLines
    BY NewLines DEF IsCode, Item
  <2>2. DocStart(shape, d.first) \in 1..d.first
    BY <2>1, DocStartIs
  <2> QED
    BY <2>1, <2>2
<1> QED
  BY <1>1 DEF CodeChunks

(* A chunk of code is new where it holds the line that was edited, and only there.             *)
LEMMA NewCodeHoldsTheEdit ==
  ASSUME IsCode, EditedCode, NEW c \in CodeChunks(shape, lines)
  PROVE  c.content \notin Contents(CodeChunks(shape, Original(CodeLines)))
           <=> edited \in c.first..c.last
<1> DEFINE was == Original(CodeLines)
<1>1. PICK d \in shape.items :
        /\ c = Chunk(lines, DocStart(shape, d.first), d.last, d.n)
        /\ DocStart(shape, d.first) \in Nat /\ d.last \in Nat
        /\ 1 <= DocStart(shape, d.first) /\ DocStart(shape, d.first) <= d.last /\ d.last <= CodeLines
  BY CodeChunksAre
<1> DEFINE a == DocStart(shape, d.first)
           b == d.last
<1>2. c.first = a /\ c.last = b /\ c.content = SubSeq(lines, a, b)
  BY <1>1 DEF Chunk
<1>3. /\ Len(was) = CodeLines /\ \A k \in 1..CodeLines : was[k] = k
      /\ CodeLines \in Nat /\ Plain \in Nat /\ Plain > CodeLines
      /\ edited \in 1..CodeLines
      /\ \A k \in 1..CodeLines : lines[k] = IF k = edited THEN Plain ELSE k
  BY NewLines, OriginalIs DEF EditedCode
<1>4. a \in Nat /\ b \in Nat /\ 1 <= a /\ a <= b /\ b <= CodeLines
  BY <1>1
<1>5. Chunk(was, a, b, d.n) \in CodeChunks(shape, was)
  BY DEF CodeChunks
<1>6. Chunk(was, a, b, d.n).content = SubSeq(was, a, b)
  BY DEF Chunk
<1>7. ASSUME NEW x \in Nat, NEW y \in Nat, 1 <= x, x <= y, y <= CodeLines
      PROVE  /\ Len(SubSeq(was, x, y)) = y - x + 1
             /\ \A k \in 1..(y - x + 1) : SubSeq(was, x, y)[k] <= CodeLines
  <2>1. \A k \in x..y : was[k] = k /\ was[k] \in Nat /\ k <= CodeLines
    BY <1>3, <1>7
  <2>2. /\ Len(SubSeq(was, x, y)) = IF x <= y THEN y - x + 1 ELSE 0
        /\ \A k \in 1..(y - x + 1) : SubSeq(was, x, y)[k] = was[x + k - 1]
    BY <2>1, SubSeqProperties
  <2>3. \A k \in 1..(y - x + 1) : x + k - 1 \in x..y
    OBVIOUS
  <2> QED
    BY <1>7, <2>1, <2>2, <2>3
<1> HIDE DEF was, a, b
<1>8. CASE edited \notin a..b
  <2>1. \A k \in a..b : lines[k] \in Nat /\ lines[k] = was[k - 0]
    <3>1. \A k \in a..b : k \in 1..CodeLines /\ k - 0 = k /\ k \in Nat
      BY <1>3, <1>4
    <3> QED
      BY <1>3, <1>8, <3>1
  <2>2. SubSeq(lines, a, b) = SubSeq(was, a - 0, b - 0)
    BY <1>4, <2>1, SameLines
  <2>3. a - 0 = a /\ b - 0 = b
    BY <1>4
  <2>4. c.content = Chunk(was, a, b, d.n).content
    BY <1>2, <1>6, <2>2, <2>3
  <2> QED
    BY <1>2, <1>5, <1>8, <2>4 DEF Contents, was
<1>9. CASE edited \in a..b
  <2>1. ASSUME NEW e \in CodeChunks(shape, was), e.content = c.content PROVE FALSE
    <3>1. PICK g \in shape.items :
            /\ e = Chunk(was, DocStart(shape, g.first), g.last, g.n)
            /\ DocStart(shape, g.first) \in Nat /\ g.last \in Nat
            /\ 1 <= DocStart(shape, g.first) /\ DocStart(shape, g.first) <= g.last
            /\ g.last <= CodeLines
      BY CodeChunksAre
    <3> DEFINE x == DocStart(shape, g.first)
               y == g.last
    <3>2. x \in Nat /\ y \in Nat /\ 1 <= x /\ x <= y /\ y <= CodeLines /\ e.content = SubSeq(was, x, y)
      BY <3>1 DEF Chunk
    <3> HIDE DEF x, y
    <3>3. /\ Len(SubSeq(was, x, y)) = y - x + 1
          /\ \A k \in 1..(y - x + 1) : SubSeq(was, x, y)[k] <= CodeLines
      BY <1>7, <3>2
    <3>4. \A k \in a..b : k \in 1..CodeLines /\ lines[k] \in Nat
      BY <1>3, <1>4
    <3>5. /\ Len(SubSeq(lines, a, b)) = b - a + 1
          /\ \A k \in 1..(b - a + 1) : SubSeq(lines, a, b)[k] = lines[a + k - 1]
      <4>1. /\ Len(SubSeq(lines, a, b)) = IF a <= b THEN b - a + 1 ELSE 0
            /\ \A k \in 1..(b - a + 1) : SubSeq(lines, a, b)[k] = lines[a + k - 1]
        BY <1>4, <3>4, SubSeqProperties
      <4> QED
        BY <1>4, <4>1
    <3>6. SubSeq(was, x, y) = SubSeq(lines, a, b)
      BY <1>2, <2>1, <3>2
    <3>7. PICK k \in 1..(b - a + 1) : a + k - 1 = edited
      <4>1. edited - a + 1 \in 1..(b - a + 1) /\ a + (edited - a + 1) - 1 = edited
        BY <1>3, <1>4, <1>9
      <4> QED
        BY <4>1
    <3>8. SubSeq(lines, a, b)[k] = Plain
      BY <1>3, <3>5, <3>7
    <3>9. k \in 1..(y - x + 1)
      BY <1>4, <3>2, <3>3, <3>5, <3>6
    <3>10. SubSeq(lines, a, b)[k] <= CodeLines
      BY <3>3, <3>6, <3>9
    <3> QED
      BY <1>3, <3>8, <3>10
  <2> QED
    BY <1>2, <1>9, <2>1 DEF Contents, was
<1> QED
  BY <1>8, <1>9

(* A line is put in before another, or one goes: the lines under it move by one.               *)
Inserted(source, i, new) == SubSeq(source, 1, i - 1) \o <<new>> \o SubSeq(source, i, Len(source))
Removed(source, i) == SubSeq(source, 1, i - 1) \o SubSeq(source, i + 1, Len(source))

LEMMA LineInserted ==
  ASSUME NEW n \in Nat, NEW i \in 1..(n + 1), NEW new \in 1..Boundary, n <= TextLines,
         NEW source, source = Inserted(Original(n), i, new)
  PROVE  source \in Seq(1..Boundary) /\ Len(source) = n + 1 /\ \A k \in (i + 1)..(n + 1) : source[k] = k - 1
<1> DEFINE was == Original(n)
           upper == SubSeq(was, 1, i - 1)
           lower == SubSeq(was, i, n)
<1>1. \A k \in 1..n : was[k] = k /\ was[k] \in 1..Boundary
  <2>1. \A k \in 1..n : was[k] = k
    BY OriginalIs
  <2> HIDE DEF was
  <2>2. \A k \in 1..n : k \in 1..Boundary
    BY NewLines
  <2> QED
    BY <2>1, <2>2
<1> HIDE DEF was
<1>2. upper \in Seq(1..Boundary) /\ Len(upper) = i - 1
  <2>1. \A k \in 1..(i - 1) : was[k] \in 1..Boundary
    BY <1>1
  <2>2. upper \in Seq(1..Boundary) /\ Len(upper) = IF 1 <= i - 1 THEN (i - 1) - 1 + 1 ELSE 0
    BY <2>1, SubSeqProperties
  <2> QED
    BY <2>2
<1>3. /\ lower \in Seq(1..Boundary) /\ Len(lower) = n - i + 1
      /\ \A k \in 1..(n - i + 1) : lower[k] = i + k - 1
  <2>1. \A k \in i..n : was[k] \in 1..Boundary
    BY <1>1
  <2>2. /\ lower \in Seq(1..Boundary) /\ Len(lower) = IF i <= n THEN n - i + 1 ELSE 0
        /\ \A k \in 1..(n - i + 1) : lower[k] = was[i + k - 1]
    BY <2>1, SubSeqProperties
  <2>3. \A k \in 1..(n - i + 1) : i + k - 1 \in 1..n
    OBVIOUS
  <2> QED
    BY <1>1, <2>2, <2>3
<1> HIDE DEF upper, lower
<1>4. <<new>> \in Seq(1..Boundary) /\ Len(<<new>>) = 1
  OBVIOUS
<1> DEFINE down == upper \o <<new>>
<1>5. down \in Seq(1..Boundary) /\ Len(down) = i
  <2>1. down \in Seq(1..Boundary) /\ Len(down) = Len(upper) + Len(<<new>>)
    BY <1>2, <1>4, ConcatProperties
  <2>2. (i - 1) + 1 = i
    OBVIOUS
  <2> QED
    BY <1>2, <1>4, <2>1, <2>2
<1>6. source = down \o lower
  BY OriginalIs DEF Inserted, upper, lower, was
<1> HIDE DEF down
<1>7. /\ source \in Seq(1..Boundary) /\ Len(source) = n + 1
      /\ \A k \in 1..(n + 1) : source[k] = IF k <= i THEN down[k] ELSE lower[k - i]
  <2>1. /\ source \in Seq(1..Boundary) /\ Len(source) = Len(down) + Len(lower)
        /\ \A k \in 1..(Len(down) + Len(lower)) :
             source[k] = IF k <= Len(down) THEN down[k] ELSE lower[k - Len(down)]
    <3>1. /\ down \o lower \in Seq(1..Boundary) /\ Len(down \o lower) = Len(down) + Len(lower)
          /\ \A k \in 1..(Len(down) + Len(lower)) :
               (down \o lower)[k] = IF k <= Len(down) THEN down[k] ELSE lower[k - Len(down)]
      BY <1>3, <1>5, ConcatProperties, Zenon
    <3> QED
      BY <1>6, <3>1, Zenon
  <2>2. i + (n - i + 1) = n + 1
    OBVIOUS
  <2> QED
    BY <1>3, <1>5, <2>1, <2>2
<1>8. ASSUME NEW k \in (i + 1)..(n + 1) PROVE source[k] = k - 1
  <2>1. k \in 1..(n + 1) /\ ~(k <= i) /\ k - i \in 1..(n - i + 1) /\ i + (k - i) - 1 = k - 1
    OBVIOUS
  <2>2. source[k] = lower[k - i]
    BY <1>7, <2>1
  <2> QED
    BY <1>3, <2>1, <2>2
<1> QED
  BY <1>7, <1>8

LEMMA LineRemoved ==
  ASSUME NEW n \in Nat, NEW i \in 1..n, n <= TextLines,
         NEW source, source = Removed(Original(n), i)
  PROVE  source \in Seq(1..Boundary) /\ Len(source) = n - 1 /\ \A k \in i..(n - 1) : source[k] = k + 1
<1> DEFINE was == Original(n)
           upper == SubSeq(was, 1, i - 1)
           lower == SubSeq(was, i + 1, n)
<1>1. \A k \in 1..n : was[k] = k /\ was[k] \in 1..Boundary
  <2>1. \A k \in 1..n : was[k] = k
    BY OriginalIs
  <2> HIDE DEF was
  <2>2. \A k \in 1..n : k \in 1..Boundary
    BY NewLines
  <2> QED
    BY <2>1, <2>2
<1> HIDE DEF was
<1>2. upper \in Seq(1..Boundary) /\ Len(upper) = i - 1
  <2>1. \A k \in 1..(i - 1) : was[k] \in 1..Boundary
    BY <1>1
  <2>2. upper \in Seq(1..Boundary) /\ Len(upper) = IF 1 <= i - 1 THEN (i - 1) - 1 + 1 ELSE 0
    BY <2>1, SubSeqProperties
  <2> QED
    BY <2>2
<1>3. /\ lower \in Seq(1..Boundary) /\ Len(lower) = n - i
      /\ \A k \in 1..(n - i) : lower[k] = i + k
  <2>1. \A k \in (i + 1)..n : was[k] \in 1..Boundary
    BY <1>1
  <2>2. /\ lower \in Seq(1..Boundary)
        /\ Len(lower) = IF i + 1 <= n THEN n - (i + 1) + 1 ELSE 0
        /\ \A k \in 1..(n - (i + 1) + 1) : lower[k] = was[(i + 1) + k - 1]
    BY <2>1, SubSeqProperties
  <2>3. n - (i + 1) + 1 = n - i /\ \A k \in 1..(n - i) : (i + 1) + k - 1 = i + k /\ i + k \in 1..n
    OBVIOUS
  <2> QED
    BY <1>1, <2>2, <2>3
<1> HIDE DEF upper, lower
<1>4. source = upper \o lower
  BY OriginalIs DEF Removed, upper, lower, was
<1>5. /\ source \in Seq(1..Boundary) /\ Len(source) = n - 1
      /\ \A k \in 1..(n - 1) : source[k] = IF k <= i - 1 THEN upper[k] ELSE lower[k - (i - 1)]
  <2>1. /\ source \in Seq(1..Boundary) /\ Len(source) = Len(upper) + Len(lower)
        /\ \A k \in 1..(Len(upper) + Len(lower)) :
             source[k] = IF k <= Len(upper) THEN upper[k] ELSE lower[k - Len(upper)]
    <3>1. /\ upper \o lower \in Seq(1..Boundary) /\ Len(upper \o lower) = Len(upper) + Len(lower)
          /\ \A k \in 1..(Len(upper) + Len(lower)) :
               (upper \o lower)[k] = IF k <= Len(upper) THEN upper[k] ELSE lower[k - Len(upper)]
      BY <1>2, <1>3, ConcatProperties, Zenon
    <3> QED
      BY <1>4, <3>1, Zenon
  <2>2. (i - 1) + (n - i) = n - 1
    OBVIOUS
  <2> QED
    BY <1>2, <1>3, <2>1, <2>2
<1>6. ASSUME NEW k \in i..(n - 1) PROVE source[k] = k + 1
  <2>1. /\ k \in 1..(n - 1) /\ ~(k <= i - 1) /\ k - (i - 1) \in 1..(n - i)
        /\ i + (k - (i - 1)) = k + 1
    OBVIOUS
  <2>2. source[k] = lower[k - (i - 1)]
    BY <1>5, <2>1
  <2> QED
    BY <1>3, <2>1, <2>2
<1> QED
  BY <1>5, <1>6

(* The chunks of a file are of lines of it.                                          *)
LEMMA ChunksAreOfTheFile ==
  ASSUME Len(lines) \in Nat, IsText \/ (IsCode /\ Len(lines) = CodeLines),
         NEW c \in ChunksOf(shape, lines)
  PROVE  c.first <= c.last /\ c.last <= Len(lines)
<1>1. CASE IsText
  <2> DEFINE at == SegmentStart(shape, lines)
  <2>1. c \in TextChunks(shape, lines)
    BY <1>1 DEF ChunksOf, IsText
  <2>2. PICK m : IsEnd(at, lines, m) /\ c = ChunkTo(at, lines, m)
    BY <2>1, ChunksAre
  <2>3. IsSegmented(at, shape, lines)
    BY Segments
  <2> HIDE DEF at
  <2>4. m \in 1..Len(lines) /\ at[m] \in Nat /\ at[m] <= m /\ Overlap \in Nat
    BY <2>2, <2>3, ChunkingAssumption DEF IsEnd, IsSegmented
  <2>5. c.first = MaxOf2(at[m] - Overlap, 1) /\ c.last = m
    BY <2>2 DEF ChunkTo, Chunk
  <2> QED
    BY <2>4, <2>5 DEF MaxOf2
<1>2. CASE IsCode /\ Len(lines) = CodeLines
  <2>1. c \in CodeChunks(shape, lines)
    BY <1>2 DEF ChunksOf, IsCode
  <2> QED
    BY <1>2, <2>1, CodeChunksAre DEF Chunk
<1> QED
  BY <1>1, <1>2

ChunkingOnTrack ==
  /\ stage \in {"none", "indexed", "edited", "asked"}
  /\ lines \in Seq(1..Boundary) /\ Len(lines) <= Plain
  /\ stage = "none" => asked = {}
  /\ stage = "indexed" =>
       /\ asked = {}
       /\ stored = Contents(ChunksOf(shape, lines))
       /\ (IsText /\ lines = Original(TextLines)) \/ (IsCode /\ lines = Original(CodeLines))
  /\ stage = "edited" =>
       /\ asked = {}
       /\ \/ /\ IsText /\ \E by : EditedText(by)
             /\ stored = Contents(TextChunks(shape, Original(TextLines)))
          \/ /\ IsCode /\ EditedCode
             /\ stored = Contents(CodeChunks(shape, Original(CodeLines)))
  /\ stage = "asked" =>
       EditsStayLocal /\ \A c \in asked : c.first <= c.last /\ c.last <= Len(lines)

(* A file is indexed for the first time.                                             *)
LEMMA IndexKeepsTrack ==
  ASSUME ChunkingOnTrack, IndexText \/ IndexCode PROVE ChunkingOnTrack'
<1>1. /\ TextLines \in Nat /\ CodeLines \in Nat /\ Plain \in Nat /\ TextLines <= Plain
      /\ CodeLines <= Plain /\ Boundary = Plain + 1
  BY NewLines
<1>2. ASSUME NEW n \in Nat, n <= Plain
      PROVE  Original(n) \in Seq(1..Boundary) /\ Len(Original(n)) <= Plain
  <2>1. \A i \in 1..n : i \in 1..Boundary
    BY <1>1, <1>2
  <2>2. Original(n) \in Seq(1..Boundary)
    BY <2>1 DEF Original
  <2> QED
    BY <1>2, <2>2, OriginalIs
<1>3. stage = "none" /\ stage' = "indexed" /\ asked' = asked /\ asked = {}
      /\ stored' = Contents(ChunksOf(shape', lines'))
  BY DEF IndexText, IndexCode, ChunkingOnTrack
<1>4. CASE IndexText
  <2>1. lines' = Original(TextLines) /\ IsText'
    BY <1>4 DEF IndexText, Original, IsText
  <2> QED
    BY <1>1, <1>2, <1>3, <2>1 DEF ChunkingOnTrack, Original
<1>5. CASE IndexCode
  <2>1. lines' = Original(CodeLines)
    BY <1>5 DEF IndexCode, Original
  <2>2. IsCode'
    <3>1. PICK pick \in [1..MaxItems -> Item], docs \in SUBSET (1..CodeLines) :
            shape' = [by |-> "code", cuts |-> {}, items |-> Range(pick), docs |-> docs]
      BY <1>5 DEF IndexCode
    <3>2. Range(pick) \subseteq Item
      BY DEF Range
    <3> QED
      BY <3>1, <3>2 DEF IsCode, Item
  <2> QED
    BY <1>1, <1>2, <1>3, <2>1, <2>2 DEF ChunkingOnTrack, Original
<1> QED
  BY <1>4, <1>5

(* A line of it is edited.                                                           *)
LEMMA EditKeepsTrack ==
  ASSUME ChunkingOnTrack, NEW i, ChangeLine(i) \/ InsertLine(i) \/ RemoveLine(i)
  PROVE  ChunkingOnTrack'
<1>1. /\ TextLines \in Nat /\ CodeLines \in Nat /\ Plain \in Nat /\ TextLines < Plain
      /\ CodeLines < Plain /\ Boundary = Plain + 1
  BY NewLines
<1>2. /\ stage = "indexed" /\ stage' = "edited" /\ asked' = {}
      /\ shape' = shape /\ stored' = stored /\ edited' = i
      /\ stored = Contents(ChunksOf(shape, lines))
  BY DEF ChunkingOnTrack, ChangeLine, InsertLine, RemoveLine
<1>3. CASE IsText /\ lines = Original(TextLines)
  <2>1. /\ Len(lines) = TextLines /\ \A k \in 1..TextLines : lines[k] = k
        /\ lines \in Seq(1..Boundary) /\ shape.by = "text"
    BY <1>1, <1>3, OriginalIs DEF ChunkingOnTrack, IsText
  <2>2. /\ lines' \in Seq(1..Boundary) /\ Len(lines') <= Plain /\ \E by : EditedText(by)'
    <3>1. CASE ChangeLine(i)
      <4>1. PICK new \in {Plain, Boundary} : lines' = [lines EXCEPT ![i] = new]
        BY <2>1, <3>1 DEF ChangeLine
      <4>2. i \in 1..TextLines /\ below' = i + 1
        BY <2>1, <3>1 DEF ChangeLine
      <4>3. new \in 1..Boundary
        BY <1>1
      <4>4. lines' \in Seq(1..Boundary) /\ Len(lines') = TextLines
        BY <2>1, <4>1, <4>2, <4>3
      <4>5. \A k \in (i + 1)..TextLines : lines'[k] = k
        BY <2>1, <4>1, <4>2
      <4>6. EditedText(0)'
        BY <1>1, <4>2, <4>4, <4>5 DEF EditedText
      <4> QED
        BY <1>1, <4>4, <4>6
    <3>2. CASE InsertLine(i)
      <4>1. PICK new \in {Plain, Boundary} :
              lines' = SubSeq(lines, 1, i - 1) \o <<new>> \o SubSeq(lines, i, Len(lines))
        BY <3>2 DEF InsertLine
      <4>2. i \in 1..(TextLines + 1) /\ below' = i + 1
        BY <2>1, <3>2 DEF InsertLine
      <4>3. new \in 1..Boundary
        BY <1>1
      <4>4. lines' = Inserted(Original(TextLines), i, new)
        BY <1>3, <4>1, Zenon DEF Inserted
      <4>5. /\ lines' \in Seq(1..Boundary) /\ Len(lines') = TextLines + 1
            /\ \A k \in (i + 1)..(TextLines + 1) : lines'[k] = k - 1
        <5>1. TextLines \in Nat /\ TextLines <= TextLines
          BY <1>1
        <5> QED
          BY <4>2, <4>3, <4>4, <5>1, LineInserted, Zenon
      <4>6. EditedText(1)'
        BY <1>1, <4>2, <4>5 DEF EditedText
      <4>7. TextLines + 1 <= Plain
        BY <1>1
      <4>8. Len(lines') <= Plain
        BY <4>5, <4>7, Zenon
      <4> QED
        BY <4>5, <4>6, <4>8, Zenon
    <3>3. CASE RemoveLine(i)
      <4>1. lines' = Removed(Original(TextLines), i)
        BY <1>3, <3>3 DEF RemoveLine, Removed
      <4>2. i \in 1..TextLines /\ below' = i
        BY <2>1, <3>3 DEF RemoveLine
      <4>3. /\ lines' \in Seq(1..Boundary) /\ Len(lines') = TextLines - 1
            /\ \A k \in i..(TextLines - 1) : lines'[k] = k + 1
        <5>1. TextLines \in Nat /\ TextLines <= TextLines
          BY <1>1
        <5> QED
          BY <4>1, <4>2, <5>1, LineRemoved, Zenon
      <4>4. EditedText(-1)'
        BY <1>1, <4>2, <4>3 DEF EditedText
      <4> QED
        BY <1>1, <4>3, <4>4
    <3> QED
      BY <3>1, <3>2, <3>3
  <2>3. IsText' /\ stored' = Contents(TextChunks(shape', Original(TextLines)))
    BY <1>2, <1>3 DEF IsText, ChunksOf
  <2> QED
    BY <1>2, <2>2, <2>3 DEF ChunkingOnTrack, Original
<1>4. CASE IsCode /\ lines = Original(CodeLines)
  <2>1. /\ Len(lines) = CodeLines /\ \A k \in 1..CodeLines : lines[k] = k
        /\ lines \in Seq(1..Boundary) /\ shape.by = "code"
    BY <1>1, <1>4, OriginalIs DEF ChunkingOnTrack, IsCode
  <2>2. ChangeLine(i)
    BY <2>1 DEF InsertLine, RemoveLine
  <2>3. lines' = [lines EXCEPT ![i] = Plain] /\ i \in 1..CodeLines
    BY <2>1, <2>2 DEF ChangeLine
  <2>4. lines' \in Seq(1..Boundary) /\ Len(lines') = CodeLines
    BY <1>1, <2>1, <2>3
  <2>5. \A k \in 1..CodeLines : lines'[k] = IF k = i THEN Plain ELSE k
    BY <2>1, <2>3
  <2>6. EditedCode'
    BY <1>2, <2>3, <2>4, <2>5 DEF EditedCode, Plain
  <2>7. IsCode' /\ stored' = Contents(CodeChunks(shape', Original(CodeLines)))
    BY <1>2, <1>4 DEF IsCode, ChunksOf, Item
  <2> QED
    BY <1>1, <1>2, <2>4, <2>6, <2>7 DEF ChunkingOnTrack, Original
<1> QED
  BY <1>2, <1>3, <1>4 DEF ChunkingOnTrack

(* What the edit made new is asked for.                                                *)
LEMMA QueriesStayLocal ==
  ASSUME ChunkingOnTrack, ReindexEdited PROVE EditsStayLocal'
<1>1. /\ stage = "edited" /\ stage' = "asked" /\ asked' = Queries(ChunksOf(shape, lines))
      /\ shape' = shape /\ lines' = lines /\ edited' = edited /\ below' = below
  BY DEF ReindexEdited
<1> DEFINE found == Queries(ChunksOf(shape, lines))
<1>2. CASE /\ IsText /\ \E by : EditedText(by)
           /\ stored = Contents(TextChunks(shape, Original(TextLines)))
  <2>1. PICK by : EditedText(by)
    BY <1>2
  <2>2. shape.by = "text" /\ ChunksOf(shape, lines) = TextChunks(shape, lines)
    BY <1>2 DEF IsText, ChunksOf
  <2>3. \A c \in found : c \in NewChunks /\ ~\E inner \in NewChunks : StrictlyContains(c, inner)
    BY <1>2, <2>2 DEF Queries, NewChunks
  <2>4. \A c \in found : /\ below \in Nat /\ c.first \in Nat
    <3>1. ASSUME NEW c \in found PROVE c.first \in Nat
      <4> DEFINE at == SegmentStart(shape, lines)
      <4>1. Len(lines) \in Nat
        BY <2>1 DEF EditedText
      <4>2. PICK m : IsEnd(at, lines, m) /\ c = ChunkTo(at, lines, m)
        BY <2>3, <4>1, ChunksAre DEF NewChunks
      <4>3. IsSegmented(at, shape, lines)
        BY <4>1, Segments
      <4> HIDE DEF at
      <4>4. at[m] \in Nat /\ Overlap \in Nat
        BY <4>2, <4>3, ChunkingAssumption DEF IsEnd, IsSegmented
      <4>5. c.first = MaxOf2(at[m] - Overlap, 1)
        BY <4>2 DEF ChunkTo, Chunk
      <4> QED
        BY <4>4, <4>5 DEF MaxOf2
    <3> QED
      BY <2>1, <3>1 DEF EditedText
  <2>5. ASSUME NEW c \in found PROVE c.first < below \/ ~\E i \in below..(c.last - 1) : Settled(i)
    BY <2>1, <2>3, <2>4, QueriesReachTheEdit
  <2> HIDE DEF found
  <2>6. \A c \in asked' : c.first < below' \/ ~\E i \in below'..(c.last - 1) : Settled(i)'
    BY <1>1, <2>5 DEF found, Settled, LineIsBoundary
  <2> QED
    BY <1>1, <2>2, <2>6 DEF EditsStayLocal
<1>3. CASE /\ IsCode /\ EditedCode
           /\ stored = Contents(CodeChunks(shape, Original(CodeLines)))
  <2> DEFINE holding == {c \in CodeChunks(shape, lines) : edited \in c.first..c.last}
  <2>1. shape.by = "code" /\ ChunksOf(shape, lines) = CodeChunks(shape, lines)
    BY <1>3 DEF IsCode, ChunksOf
  <2>2. {c \in CodeChunks(shape, lines) : c.content \notin stored} = holding
    BY <1>3, NewCodeHoldsTheEdit
  <2> HIDE DEF holding
  <2>3. found = {c \in holding : ~\E d \in holding : StrictlyContains(c, d)}
    BY <2>1, <2>2 DEF Queries
  <2> HIDE DEF found
  <2>4. asked' = {c \in holding : ~\E d \in holding : StrictlyContains(c, d)}
    BY <1>1, <2>3 DEF found
  <2>5. {c \in CodeChunks(shape', lines') : edited' \in c.first..c.last} = holding
    BY <1>1 DEF holding
  <2>6. shape'.by # "text"
    BY <1>1, <2>1
  <2> QED
    BY <2>4, <2>5, <2>6 DEF EditsStayLocal
<1> QED
  BY <1>1, <1>2, <1>3 DEF ChunkingOnTrack

LEMMA ChunkingStays == ChunkingSpec => []ChunkingOnTrack
<1>1. ChunkingInit => ChunkingOnTrack
  BY NewLines DEF ChunkingInit, ChunkingOnTrack
<1>2. ChunkingOnTrack /\ [ChunkingNext]_chunkVars => ChunkingOnTrack'
  <2> SUFFICES ASSUME ChunkingOnTrack, [ChunkingNext]_chunkVars PROVE ChunkingOnTrack'
    OBVIOUS
  <2>1. CASE IndexText \/ IndexCode
    BY <2>1, IndexKeepsTrack
  <2>2. ASSUME NEW i \in 1..(TextLines + 1), ChangeLine(i) \/ InsertLine(i) \/ RemoveLine(i)
        PROVE  ChunkingOnTrack'
    BY <2>2, EditKeepsTrack
  <2>3. CASE ReindexEdited
    <3>1. EditsStayLocal'
      BY <2>3, QueriesStayLocal
    <3>2. \A c \in asked' : c.first <= c.last /\ c.last <= Len(lines)
      <4>1. \A c \in asked' : c \in ChunksOf(shape, lines)
        BY <2>3 DEF ReindexEdited, Queries
      <4>2. IsText \/ (IsCode /\ Len(lines) = CodeLines)
        BY <2>3 DEF ReindexEdited, ChunkingOnTrack, EditedCode
      <4>3. Len(lines) \in Nat
        BY DEF ChunkingOnTrack
      <4> QED
        BY <4>1, <4>2, <4>3, ChunksAreOfTheFile
    <3> QED
      BY <2>3, <3>1, <3>2 DEF ReindexEdited, ChunkingOnTrack
  <2>4. CASE UNCHANGED chunkVars
    <3>1. /\ stage' = stage /\ lines' = lines /\ shape' = shape /\ stored' = stored
          /\ edited' = edited /\ below' = below /\ asked' = asked
      BY <2>4 DEF chunkVars
    <3>2. EditsStayLocal => EditsStayLocal'
      <4>1. \A i : Settled(i)' <=> Settled(i)
        BY <3>1 DEF Settled
      <4>2. CodeChunks(shape, lines)' = CodeChunks(shape, lines)
        BY <3>1
      <4> QED
        BY <3>1, <4>1, <4>2 DEF EditsStayLocal
    <3>3. (IsText => IsText') /\ (IsCode => IsCode') /\ (EditedCode => EditedCode')
      BY <3>1 DEF IsText, IsCode, EditedCode, Item, Plain
    <3>4. \A by : EditedText(by) => EditedText(by)'
      BY <3>1 DEF EditedText
    <3> QED
      BY <3>1, <3>2, <3>3, <3>4 DEF ChunkingOnTrack
  <2> QED
    BY <2>1, <2>2, <2>3, <2>4 DEF ChunkingNext
<1> QED
  BY <1>1, <1>2, PTL DEF ChunkingSpec

(* The lines of a file and the chunks that are asked for are of their types.                 *)
THEOREM ChunkingTyping == ChunkingSpec => []ChunkingTypeOK
<1>1. ChunkingOnTrack => ChunkingTypeOK
  <2> SUFFICES ASSUME ChunkingOnTrack PROVE ChunkingTypeOK
    OBVIOUS
  <2>1. \A c \in asked : c.first <= c.last /\ c.last <= Len(lines)
    BY DEF ChunkingOnTrack
  <2> QED
    BY <2>1 DEF ChunkingOnTrack, ChunkingTypeOK
<1> QED
  BY <1>1, ChunkingStays, PTL

(* Wherever a text is edited, what is asked for under the edit ends before the first two      *)
(* boundary lines that stand well apart; in code it is the innermost declarations that hold   *)
(* the line.                                                                      *)
THEOREM EditsAreLocal == ChunkingSpec => []EditsStayLocal
<1>1. ChunkingOnTrack => EditsStayLocal
  BY DEF ChunkingOnTrack, EditsStayLocal
<1> QED
  BY <1>1, ChunkingStays, PTL

-----------------------------------------------------------------------------
(* Of the components side by side the same one goes on running.                            *)
LEMMA PartStays == [DataNext]_dataVars => part' = part
BY DEF DataNext, dataVars, Rest, ChunkingPart, RankingPart, SelectionPart, FloorPart,
       DeclarationsPart, EmbeddingPart, SettingsPart, GrepPart, CalendarPart, RowsPart

(* The components side by side: what runs is of its types, whichever it is.             *)
THEOREM DataTyping == DataSpec => []DataTypeOK
<1>1. DataSpec => [](part = "chunking" => ChunkingTypeOK)
  <2>1. DataInit => (part = "chunking" => ChunkingInit)
    BY DEF DataInit
  <2>2. [DataNext]_dataVars => (part = "chunking" <=> (part = "chunking")')
    BY PartStays
  <2>3. part = "chunking" /\ [DataNext]_dataVars => [ChunkingNext]_chunkVars
    BY DEF DataNext, dataVars, ChunkingPart, RankingPart, SelectionPart, FloorPart,
           DeclarationsPart, EmbeddingPart, SettingsPart, GrepPart, CalendarPart, RowsPart
  <2> QED
    BY <2>1, <2>2, <2>3, ChunkingTyping, PTL DEF DataSpec, ChunkingSpec
<1>2. DataSpec => [](part = "ranking" => RankTypeOK)
  <2>1. DataInit => (part = "ranking" => RankInit)
    BY DEF DataInit
  <2>2. [DataNext]_dataVars => (part = "ranking" <=> (part = "ranking")')
    BY PartStays
  <2>3. part = "ranking" /\ [DataNext]_dataVars => [RankNext]_rankVars
    BY DEF DataNext, dataVars, ChunkingPart, RankingPart, SelectionPart, FloorPart,
           DeclarationsPart, EmbeddingPart, SettingsPart, GrepPart, CalendarPart, RowsPart
  <2> QED
    BY <2>1, <2>2, <2>3, RankTyping, PTL DEF DataSpec, RankSpec
<1>3. DataSpec => [](part = "selection" => SelTypeOK)
  <2>1. DataInit => (part = "selection" => SelInit)
    BY DEF DataInit
  <2>2. [DataNext]_dataVars => (part = "selection" <=> (part = "selection")')
    BY PartStays
  <2>3. part = "selection" /\ [DataNext]_dataVars => [SelNext]_selVars
    BY DEF DataNext, dataVars, ChunkingPart, RankingPart, SelectionPart, FloorPart,
           DeclarationsPart, EmbeddingPart, SettingsPart, GrepPart, CalendarPart, RowsPart
  <2> QED
    BY <2>1, <2>2, <2>3, SelTyping, PTL DEF DataSpec, SelSpec
<1>4. DataSpec => [](part = "floor" => FloorTypeOK)
  <2>1. DataInit => (part = "floor" => FloorInit)
    BY DEF DataInit
  <2>2. [DataNext]_dataVars => (part = "floor" <=> (part = "floor")')
    BY PartStays
  <2>3. part = "floor" /\ [DataNext]_dataVars => [FloorNext]_floorVars
    BY DEF DataNext, dataVars, ChunkingPart, RankingPart, SelectionPart, FloorPart,
           DeclarationsPart, EmbeddingPart, SettingsPart, GrepPart, CalendarPart, RowsPart
  <2> QED
    BY <2>1, <2>2, <2>3, FloorTyping, PTL DEF DataSpec, FloorSpec
<1>5. DataSpec => [](part = "declarations" => DeclTypeOK)
  <2>1. DataInit => (part = "declarations" => DeclInit)
    BY DEF DataInit
  <2>2. [DataNext]_dataVars => (part = "declarations" <=> (part = "declarations")')
    BY PartStays
  <2>3. part = "declarations" /\ [DataNext]_dataVars => [DeclNext]_declVars
    BY DEF DataNext, dataVars, ChunkingPart, RankingPart, SelectionPart, FloorPart,
           DeclarationsPart, EmbeddingPart, SettingsPart, GrepPart, CalendarPart, RowsPart
  <2> QED
    BY <2>1, <2>2, <2>3, DeclTyping, PTL DEF DataSpec, DeclSpec
<1>6. DataSpec => [](part = "embedding" => EmbedTypeOK)
  <2>1. DataInit => (part = "embedding" => EmbedInit)
    BY DEF DataInit
  <2>2. [DataNext]_dataVars => (part = "embedding" <=> (part = "embedding")')
    BY PartStays
  <2>3. part = "embedding" /\ [DataNext]_dataVars => [EmbedNext]_embedVars
    BY DEF DataNext, dataVars, ChunkingPart, RankingPart, SelectionPart, FloorPart,
           DeclarationsPart, EmbeddingPart, SettingsPart, GrepPart, CalendarPart, RowsPart
  <2> QED
    BY <2>1, <2>2, <2>3, EmbeddingTyping, PTL DEF DataSpec, EmbedSpec
<1>7. DataSpec => [](part = "settings" => SettingsTypeOK)
  <2>1. DataInit => (part = "settings" => SettingsInit)
    BY DEF DataInit
  <2>2. [DataNext]_dataVars => (part = "settings" <=> (part = "settings")')
    BY PartStays
  <2>3. part = "settings" /\ [DataNext]_dataVars => [SettingsNext]_settingVars
    BY DEF DataNext, dataVars, ChunkingPart, RankingPart, SelectionPart, FloorPart,
           DeclarationsPart, EmbeddingPart, SettingsPart, GrepPart, CalendarPart, RowsPart
  <2> QED
    BY <2>1, <2>2, <2>3, SettingsTyping, PTL DEF DataSpec, SettingsSpec
<1>8. DataSpec => [](part = "grep" => GrepTypeOK)
  <2>1. DataInit => (part = "grep" => GrepInit)
    BY DEF DataInit
  <2>2. [DataNext]_dataVars => (part = "grep" <=> (part = "grep")')
    BY PartStays
  <2>3. part = "grep" /\ [DataNext]_dataVars => [GrepNext]_grepVars
    BY DEF DataNext, dataVars, ChunkingPart, RankingPart, SelectionPart, FloorPart,
           DeclarationsPart, EmbeddingPart, SettingsPart, GrepPart, CalendarPart, RowsPart
  <2> QED
    BY <2>1, <2>2, <2>3, GrepTyping, PTL DEF DataSpec, GrepSpec
<1>9. DataSpec => [](part = "calendar" => CalendarTypeOK)
  <2>1. DataInit => (part = "calendar" => CalendarInit)
    BY DEF DataInit
  <2>2. [DataNext]_dataVars => (part = "calendar" <=> (part = "calendar")')
    BY PartStays
  <2>3. part = "calendar" /\ [DataNext]_dataVars => [CalendarNext]_calVars
    BY DEF DataNext, dataVars, ChunkingPart, RankingPart, SelectionPart, FloorPart,
           DeclarationsPart, EmbeddingPart, SettingsPart, GrepPart, CalendarPart, RowsPart
  <2> QED
    BY <2>1, <2>2, <2>3, CalendarTyping, PTL DEF DataSpec, CalendarSpec
<1> QED
  BY <1>1, <1>2, <1>3, <1>4, <1>5, <1>6, <1>7, <1>8, <1>9, PTL DEF DataTypeOK

=============================================================================
