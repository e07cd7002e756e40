--------------------------------- MODULE FileProofs ---------------------------------
(***************************************************************************)
(* Theorems about the components that only share files with others: the    *)
(* model cache, the sweep of nested stores, the installers, and status.    *)
(***************************************************************************)
EXTENDS ModelFiles, NestedStores, Install, Bootstrap, Status, FiniteSetTheorems, TLAPS

(* The cache of the models, for any processes, assets, lengths, failures and deaths. *)

Place ==
  [at : {"idle", "check", "fetch", "hash", "rename", "purge", "loaded", "failed", "dead"},
   asset : Asset, offset : 0..Blocks, open : Inode \cup {NoInode}]

(* The inode under the temporary path a process is at.                             *)
Own(p) == temp[TempPath(p, fetcher[p].asset)]

(* No inode has two names.                                                       *)
NamesAreApart ==
  /\ \A t, u \in Path : temp[t] # NoInode /\ temp[t] = temp[u] => t = u
  /\ \A a, b \in Asset : dest[a] # NoInode /\ dest[a] = dest[b] => a = b
  /\ \A t \in Path, a \in Asset : temp[t] # NoInode => temp[t] # dest[a]

(* A process writes to what its own temporary path names, and publishes what it has    *)
(* hashed; a published inode is whole until it is cut to nothing.                     *)
FilesAreWhole ==
  /\ \A p \in Fetcher : fetcher[p].open # NoInode => Own(p) = fetcher[p].open
  /\ \A p \in Fetcher : At(p, "rename") /\ Own(p) # NoInode => inode[Own(p)] = Whole
  /\ \A a \in Asset : dest[a] # NoInode => inode[dest[a]] = Whole \/ inode[dest[a]].length = 0

CacheIsSound == FilesTypeOK /\ NamesAreApart /\ FilesAreWhole

(* More inodes than names.                                                      *)
LEMMA NamesAreFew ==
  ASSUME NEW F \in Nat, NEW A \in Nat, NEW x \in Nat, NEW y \in Nat,
         A > 0, x < F * A, y <= A
  PROVE  x + y < (F + 1) * A
<1>1. (F + 1) * A = F * A + A
  OBVIOUS
<1>2. F * A \in Nat
  OBVIOUS
<1> QED
  BY <1>1, <1>2

LEMMA AssetCount ==
  /\ Cardinality(Fetcher) \in Nat /\ Cardinality(Asset) \in Nat \ {0}
  /\ IsFiniteSet(Path) /\ Cardinality(Path) = Cardinality(Fetcher) * Cardinality(Asset)
  /\ 0 \in Asset
<1>1. Cardinality(Fetcher) \in Nat /\ Cardinality(Asset) \in Nat
  BY FilesAssumption, FS_CardinalityType
<1>2. Cardinality(Asset) # 0
  BY FilesAssumption, FS_EmptySet
<1>3. 0 \in Asset
  <2> DEFINE n == Cardinality(Asset)
  <2>1. n \in Nat /\ n # 0 /\ Asset = 0..n - 1
    BY <1>1, <1>2, FilesAssumption
  <2> HIDE DEF n
  <2> QED
    BY <2>1
<1> QED
  BY <1>1, <1>2, <1>3, FilesAssumption, FS_Product DEF Path

(* A temporary path without a file leaves an inode without a name.                   *)
LEMMA AnInodeIsFree ==
  ASSUME CacheIsSound, NEW t \in Path, temp[t] = NoInode
  PROVE  /\ FreeInode \in Inode
         /\ \A u \in Path : temp[u] # FreeInode
         /\ \A a \in Asset : dest[a] # FreeInode
         /\ \A p \in Fetcher : fetcher[p].open # FreeInode
<1> DEFINE F == Cardinality(Fetcher)
           A == Cardinality(Asset)
           Others == Path \ {t}
           Temps == {temp[u] : u \in Others}
           Dests == {dest[a] : a \in Asset}
<1>1. F \in Nat /\ A \in Nat \ {0} /\ IsFiniteSet(Path) /\ Cardinality(Path) = F * A
  BY AssetCount
<1>2. IsFiniteSet(Temps) /\ Cardinality(Temps) \in Nat /\ Cardinality(Temps) < F * A
  <2>1. IsFiniteSet(Others) /\ Cardinality(Others) = F * A - 1
    BY <1>1, FS_RemoveElement
  <2>2. [u \in Others |-> temp[u]] \in Surjection(Others, Temps)
    BY DEF Surjection
  <2>3. IsFiniteSet(Temps) /\ Cardinality(Temps) <= Cardinality(Others)
    BY <2>1, <2>2, FS_Surjection
  <2>4. Cardinality(Temps) \in Nat /\ F * A \in Nat
    BY <1>1, <2>3, FS_CardinalityType
  <2> QED
    BY <2>1, <2>3, <2>4
<1>3. IsFiniteSet(Dests) /\ Cardinality(Dests) \in Nat /\ Cardinality(Dests) <= A
  <2>1. [a \in Asset |-> dest[a]] \in Surjection(Asset, Dests)
    BY DEF Surjection
  <2> QED
    BY <2>1, FilesAssumption, FS_Surjection, FS_CardinalityType
<1>4. IsFiniteSet(Temps \cup Dests) /\ Cardinality(Temps \cup Dests) < (F + 1) * A
  <2>1. /\ IsFiniteSet(Temps \cup Dests)
        /\ Cardinality(Temps \cup Dests) =
             Cardinality(Temps) + Cardinality(Dests) - Cardinality(Temps \cap Dests)
    BY <1>2, <1>3, FS_Union
  <2>2. Cardinality(Temps \cap Dests) \in Nat
    BY <1>2, FS_Intersection, FS_CardinalityType
  <2>3. Cardinality(Temps) + Cardinality(Dests) < (F + 1) * A
    <3> HIDE DEF F, A, Temps, Dests
    <3> QED
      BY <1>1, <1>2, <1>3, NamesAreFew
  <2>4. (F + 1) * A \in Nat
    BY <1>1
  <2> HIDE DEF F, A, Temps, Dests
  <2> QED
    BY <1>2, <1>3, <2>1, <2>2, <2>3, <2>4
<1>5. Cardinality(Inode) = (F + 1) * A
  <2> DEFINE n == (F + 1) * A
  <2>1. n \in Nat /\ Inode = 1..n
    BY <1>1 DEF Inode
  <2> HIDE DEF n
  <2>2. Cardinality(1..n) = n
    BY <2>1, FS_Interval
  <2> QED
    BY <2>1, <2>2 DEF n
<1>6. ~(Inode \subseteq Temps \cup Dests)
  <2>1. Cardinality(Temps \cup Dests) \in Nat /\ (F + 1) * A \in Nat
    BY <1>1, <1>4, FS_CardinalityType
  <2> HIDE DEF F, A, Temps, Dests
  <2> QED
    BY <1>4, <1>5, <2>1, FS_Subset
<1>7. PICK i \in Inode : i \notin Temps \cup Dests
  BY <1>6
<1>8. i # NoInode
  <2>1. (F + 1) * A \in Nat
    BY <1>1
  <2> QED
    BY <1>7, <2>1 DEF Inode, NoInode
<1>9. /\ \A u \in Path : temp[u] # i
      /\ \A a \in Asset : dest[a] # i
  BY <1>7, <1>8
<1>10. \A p \in Fetcher : fetcher[p].open # i
  BY <1>8, <1>9, ZenonT(40) DEF CacheIsSound, FilesAreWhole, FilesTypeOK, Own, TempPath, Path
<1> QED
  BY <1>7, <1>9, <1>10 DEF FreeInode
(* A process's place is one of the places.                                         *)
LEMMA PlaceFields ==
  ASSUME FilesTypeOK, NEW p \in Fetcher
  PROVE  /\ fetcher[p] \in Place
         /\ fetcher[p].asset \in Asset /\ fetcher[p].offset \in 0..Blocks
         /\ fetcher[p].open \in Inode \cup {NoInode}
         /\ TempPath(p, fetcher[p].asset) \in Path
         /\ Own(p) \in Inode \cup {NoInode}
         /\ NoInode \notin Inode
<1>1. fetcher[p] \in Place
  BY DEF FilesTypeOK, Place
<1>2. fetcher[p].asset \in Asset /\ fetcher[p].offset \in 0..Blocks
      /\ fetcher[p].open \in Inode \cup {NoInode}
  BY <1>1 DEF Place
<1>3. TempPath(p, fetcher[p].asset) \in Path
  BY <1>2 DEF TempPath, Path
<1>4. NoInode \notin Inode
  BY AssetCount DEF Inode, NoInode
<1> QED
  BY <1>1, <1>2, <1>3, <1>4 DEF FilesTypeOK, Own

(* A step that moves a process between places where nothing is open, or leaves it      *)
(* where it is.                                                                *)
LEMMA Moving ==
  ASSUME FilesTypeOK, NEW p \in Fetcher, NEW place \in Place,
         place.at = "fetch" <=> place.open # NoInode,
         fetcher' = [fetcher EXCEPT ![p] = place]
  PROVE  /\ fetcher' \in [Fetcher -> Place]
         /\ \A q \in Fetcher : fetcher'[q].at = "fetch" <=> fetcher'[q].open # NoInode
         /\ fetcher'[p] = place
         /\ \A q \in Fetcher \ {p} : fetcher'[q] = fetcher[q]
BY DEF FilesTypeOK, Place

(* Where a process goes when it has an asset.                                      *)
LEMMA Advancing ==
  ASSUME FilesTypeOK, NEW p \in Fetcher, fetcher[p].at # "fetch", fetcher' = NextAsset(p)
  PROVE  \E place \in Place :
           /\ place.at \in {"check", "purge"} /\ place.open = NoInode
           /\ fetcher' = [fetcher EXCEPT ![p] = place]
<1>1. fetcher[p] \in Place /\ fetcher[p].open = NoInode
  BY PlaceFields DEF FilesTypeOK
<1>2. CASE fetcher[p].asset + 1 \in Asset
  <2> DEFINE place == [fetcher[p] EXCEPT !.at = "check", !.asset = @ + 1]
  <2>1. place \in Place /\ place.at = "check" /\ place.open = NoInode
    BY <1>1, <1>2 DEF Place
  <2>2. fetcher' = [fetcher EXCEPT ![p] = place]
    BY <1>2 DEF NextAsset, FilesTypeOK
  <2> QED
    BY <2>1, <2>2
<1>3. CASE fetcher[p].asset + 1 \notin Asset
  <2> DEFINE place == [fetcher[p] EXCEPT !.at = "purge"]
  <2>1. place \in Place /\ place.at = "purge" /\ place.open = NoInode
    BY <1>1 DEF Place
  <2>2. fetcher' = [fetcher EXCEPT ![p] = place]
    BY <1>3 DEF NextAsset, FilesTypeOK
  <2> QED
    BY <2>1, <2>2
<1> QED
  BY <1>2, <1>3

(* A process that goes where it has nothing open and nothing to publish, unlinking at  *)
(* most its own temporary file.                                                  *)
LEMMA Leaving ==
  ASSUME CacheIsSound, NEW p \in Fetcher, NEW place \in Place,
         place.at \notin {"fetch", "rename"}, place.open = NoInode,
         fetcher' = [fetcher EXCEPT ![p] = place],
         temp' \in {temp, [temp EXCEPT ![TempPath(p, fetcher[p].asset)] = NoInode]},
         UNCHANGED <<inode, dest>>, breaks' \in 0..MaxBreaks
  PROVE  CacheIsSound'
<1> DEFINE t == TempPath(p, fetcher[p].asset)
<1>1. /\ fetcher' \in [Fetcher -> Place]
      /\ \A q \in Fetcher : fetcher'[q].at = "fetch" <=> fetcher'[q].open # NoInode
      /\ fetcher'[p] = place
      /\ \A q \in Fetcher \ {p} : fetcher'[q] = fetcher[q]
  BY Moving DEF CacheIsSound
<1>2. t \in Path /\ temp \in [Path -> Inode \cup {NoInode}]
  BY PlaceFields DEF CacheIsSound, FilesTypeOK
<1>3. /\ temp' \in [Path -> Inode \cup {NoInode}]
      /\ \A u \in Path : temp'[u] # NoInode => temp'[u] = temp[u]
      /\ \A u \in Path \ {t} : temp'[u] = temp[u]
  BY <1>2
<1>4. FilesTypeOK'
  BY <1>1, <1>3 DEF CacheIsSound, FilesTypeOK, Place
<1>5. NamesAreApart'
  BY <1>3 DEF CacheIsSound, NamesAreApart
<1>6. ASSUME NEW q \in Fetcher \ {p} PROVE TempPath(q, fetcher[q].asset) \in Path \ {t}
  BY <1>6, PlaceFields DEF TempPath, CacheIsSound
<1>7. \A q \in Fetcher \ {p} : Own(q)' = Own(q)
  BY <1>1, <1>3, <1>6 DEF Own, TempPath
<1>8. FilesAreWhole'
  <2>1. ASSUME NEW q \in Fetcher, fetcher'[q].open # NoInode PROVE Own(q)' = fetcher'[q].open
    BY <1>1, <1>7, <2>1 DEF CacheIsSound, FilesAreWhole
  <2>2. ASSUME NEW q \in Fetcher, fetcher'[q].at = "rename", Own(q)' # NoInode
        PROVE  inode'[Own(q)'] = Whole
    BY <1>1, <1>7, <2>2 DEF CacheIsSound, FilesAreWhole, At
  <2>3. \A a \in Asset : dest'[a] # NoInode =>
                           inode'[dest'[a]] = Whole \/ inode'[dest'[a]].length = 0
    BY DEF CacheIsSound, FilesAreWhole
  <2> QED
    BY <2>1, <2>2, <2>3 DEF FilesAreWhole, At
<1> QED
  BY <1>4, <1>5, <1>8 DEF CacheIsSound

(* A process writes to an inode that is no other's and not published.                 *)
LEMMA Writing ==
  ASSUME CacheIsSound, NEW p \in Fetcher, NEW place \in Place, NEW i \in Inode,
         NEW content \in [length : 0..Blocks, bad : BOOLEAN],
         place.at = "fetch", place.open = i, place.asset = fetcher[p].asset,
         \/ temp' = temp /\ Own(p) = i
         \/ /\ temp' = [temp EXCEPT ![TempPath(p, fetcher[p].asset)] = i]
            /\ Own(p) = NoInode
            /\ \A u \in Path : temp[u] # i
            /\ \A a \in Asset : dest[a] # i,
         fetcher' = [fetcher EXCEPT ![p] = place],
         inode' = [inode EXCEPT ![i] = content],
         UNCHANGED dest, breaks' \in 0..MaxBreaks
  PROVE  CacheIsSound'
<1> DEFINE t == TempPath(p, fetcher[p].asset)
<1>1. i # NoInode /\ t \in Path /\ temp \in [Path -> Inode \cup {NoInode}]
  BY PlaceFields DEF CacheIsSound, FilesTypeOK
<1>2. /\ fetcher' \in [Fetcher -> Place]
      /\ \A q \in Fetcher : fetcher'[q].at = "fetch" <=> fetcher'[q].open # NoInode
      /\ fetcher'[p] = place
      /\ \A q \in Fetcher \ {p} : fetcher'[q] = fetcher[q]
  BY <1>1, Moving DEF CacheIsSound
<1>3. /\ temp' \in [Path -> Inode \cup {NoInode}]
      /\ temp'[t] = i
      /\ \A u \in Path \ {t} : temp'[u] = temp[u] /\ temp[u] # i
      /\ \A a \in Asset : dest[a] # i
  <2>1. CASE temp' = temp /\ Own(p) = i
    BY <1>1, <2>1 DEF Own, CacheIsSound, NamesAreApart
  <2>2. CASE ~(temp' = temp /\ Own(p) = i)
    BY <1>1, <2>2
  <2> QED
    BY <2>1, <2>2
<1>4. inode' \in [Inode -> [length : 0..Blocks, bad : BOOLEAN]]
      /\ \A j \in Inode \ {i} : inode'[j] = inode[j]
  BY DEF CacheIsSound, FilesTypeOK
<1>5. FilesTypeOK'
  BY <1>2, <1>3, <1>4 DEF CacheIsSound, FilesTypeOK, Place
<1>6. NamesAreApart'
  BY <1>1, <1>3 DEF CacheIsSound, NamesAreApart
<1>7. ASSUME NEW q \in Fetcher \ {p}
      PROVE  Own(q)' = Own(q) /\ Own(q) # i /\ Own(q) \in Inode \cup {NoInode}
  <2>1. TempPath(q, fetcher[q].asset) \in Path \ {t}
    BY PlaceFields DEF TempPath, CacheIsSound
  <2> QED
    BY <1>2, <1>3, <2>1, PlaceFields DEF Own, TempPath, CacheIsSound
<1>8. FilesAreWhole'
  <2>1. ASSUME NEW q \in Fetcher, fetcher'[q].open # NoInode PROVE Own(q)' = fetcher'[q].open
    <3>1. CASE q = p
      BY <1>2, <1>3, <3>1 DEF Own, TempPath
    <3>2. CASE q # p
      BY <1>2, <1>7, <2>1, <3>2 DEF CacheIsSound, FilesAreWhole
    <3> QED
      BY <3>1, <3>2
  <2>2. ASSUME NEW q \in Fetcher, fetcher'[q].at = "rename", Own(q)' # NoInode
        PROVE  inode'[Own(q)'] = Whole
    BY <1>2, <1>4, <1>7, <2>2 DEF CacheIsSound, FilesAreWhole, At
  <2>3. ASSUME NEW a \in Asset, dest'[a] # NoInode
        PROVE  inode'[dest'[a]] = Whole \/ inode'[dest'[a]].length = 0
    BY <1>3, <1>4, <2>3 DEF CacheIsSound, FilesAreWhole, FilesTypeOK
  <2> QED
    BY <2>1, <2>2, <2>3 DEF FilesAreWhole, At
<1> QED
  BY <1>5, <1>6, <1>8 DEF CacheIsSound

(* Each step of a process keeps the cache sound.                                    *)
LEMMA Fetching ==
  ASSUME CacheIsSound, NEW p \in Fetcher, FetchStep(p) PROVE CacheIsSound'
<1> DEFINE t == TempPath(p, fetcher[p].asset)
           here == fetcher[p]
<1>0. /\ here \in Place /\ here.asset \in Asset /\ here.offset \in 0..Blocks
      /\ here.open \in Inode \cup {NoInode} /\ t \in Path /\ Own(p) \in Inode \cup {NoInode}
      /\ NoInode \notin Inode /\ fetcher \in [Fetcher -> Place]
      /\ here.at = "fetch" <=> here.open # NoInode
      /\ Blocks \in Nat \ {0} /\ MaxBreaks \in Nat /\ breaks \in 0..MaxBreaks
      /\ 0 \in Asset /\ 0 \in 0..Blocks
  BY PlaceFields, FilesAssumption, AssetCount DEF CacheIsSound, FilesTypeOK, Place
<1>1. ASSUME NEW l \in {"check", "failed", "loaded"}, here.at # "fetch", FetcherGoto(p, l),
             temp' \in {temp, [temp EXCEPT ![t] = NoInode]}, UNCHANGED <<inode, dest, breaks>>
      PROVE  CacheIsSound'
  <2> DEFINE place == [here EXCEPT !.at = l]
  <2>1. place \in Place /\ place.at \notin {"fetch", "rename"} /\ place.open = NoInode
    BY <1>0, <1>1 DEF Place
  <2>2. fetcher' = [fetcher EXCEPT ![p] = place]
    BY <1>1 DEF FetcherGoto
  <2> QED
    BY <1>0, <1>1, <2>1, <2>2, Leaving
<1>2. CASE Begin(p)
  BY <1>1, <1>2 DEF Begin, At
<1>3. CASE Cached(p)
  <2>1. PICK place \in Place :
          /\ place.at \in {"check", "purge"} /\ place.open = NoInode
          /\ fetcher' = [fetcher EXCEPT ![p] = place]
    BY <1>3, Advancing DEF Cached, At, CacheIsSound
  <2> QED
    BY <1>0, <1>3, <2>1, Leaving DEF Cached
<1>4. CASE CreateTemp(p)
  <2> DEFINE i == IF temp[t] # NoInode THEN temp[t] ELSE FreeInode
             place == [here EXCEPT !.at = "fetch", !.open = i, !.offset = 0]
             empty == [length |-> 0, bad |-> FALSE]
  <2>1. i \in Inode /\ i # NoInode
    BY <1>0, AnInodeIsFree DEF Own
  <2>2. \/ temp[t] # NoInode /\ i = temp[t]
        \/ /\ temp[t] = NoInode
           /\ \A u \in Path : temp[u] # i
           /\ \A a \in Asset : dest[a] # i
    BY <1>0, AnInodeIsFree
  <2>3. /\ temp' = [temp EXCEPT ![t] = i]
        /\ inode' = [inode EXCEPT ![i] = empty]
        /\ fetcher' = [fetcher EXCEPT ![p] = place]
        /\ UNCHANGED <<dest, breaks>>
    BY <1>4 DEF CreateTemp
  <2>4. temp[t] = i => temp' = temp
    BY <1>0, <2>3 DEF CacheIsSound, FilesTypeOK
  <2>5. empty \in [length : 0..Blocks, bad : BOOLEAN]
    BY <1>0
  <2> HIDE DEF i
  <2>6. place \in Place /\ place.at = "fetch" /\ place.open = i /\ place.asset = here.asset
    BY <1>0, <2>1 DEF Place
  <2> QED
    BY <1>0, <2>1, <2>2, <2>3, <2>4, <2>5, <2>6, Writing DEF Own
<1>5. CASE WriteBlock(p)
  <2> DEFINE i == here.open
             content == [length |-> IF inode[i].length > here.offset THEN inode[i].length
                                    ELSE here.offset + 1,
                         bad |-> inode[i].bad \/ here.offset > inode[i].length]
             place == [here EXCEPT !.offset = @ + 1]
  <2>1. i \in Inode /\ Own(p) = i
    BY <1>0, <1>5 DEF WriteBlock, At, CacheIsSound, FilesAreWhole
  <2>2. place \in Place /\ place.at = "fetch" /\ place.open = i /\ place.asset = here.asset
    BY <1>0, <1>5 DEF Place, WriteBlock, At
  <2>3. inode[i] \in [length : 0..Blocks, bad : BOOLEAN]
    BY <2>1 DEF CacheIsSound, FilesTypeOK
  <2>4. content \in [length : 0..Blocks, bad : BOOLEAN]
    BY <1>0, <1>5, <2>3 DEF WriteBlock
  <2>5. /\ inode' = [inode EXCEPT ![i] = content]
        /\ fetcher' = [fetcher EXCEPT ![p] = place]
        /\ UNCHANGED <<temp, dest, breaks>>
    BY <1>5, <2>1 DEF WriteBlock, CacheIsSound, FilesTypeOK
  <2> QED
    BY <1>0, <2>1, <2>2, <2>4, <2>5, Writing
<1>6. CASE CloseTemp(p)
  <2> DEFINE place == [here EXCEPT !.at = "hash", !.open = NoInode, !.offset = 0]
  <2>1. place \in Place /\ place.at = "hash" /\ place.open = NoInode
    BY <1>0 DEF Place
  <2>2. fetcher' = [fetcher EXCEPT ![p] = place] /\ UNCHANGED <<inode, temp, dest, breaks>>
    BY <1>6 DEF CloseTemp
  <2> QED
    BY <1>0, <2>1, <2>2, Leaving
<1>7. CASE Break(p)
  <2>1. breaks' \in 0..MaxBreaks
    BY <1>0, <1>7 DEF Break
  <2>2. CASE temp' = temp
    <3> DEFINE i == here.open
               content == [inode[i] EXCEPT !.bad = TRUE]
    <3>1. i \in Inode /\ Own(p) = i /\ here.at = "fetch"
      BY <1>0, <1>7 DEF Break, At, CacheIsSound, FilesAreWhole
    <3>2. i = temp[t] /\ temp[t] # NoInode
      BY <1>0, <3>1 DEF Own
    <3>3. temp # [temp EXCEPT ![t] = NoInode]
      BY <1>0, <3>2 DEF CacheIsSound, FilesTypeOK
    <3>4. inode' = [inode EXCEPT ![i].bad = TRUE] /\ fetcher' = fetcher /\ dest' = dest
      BY <1>7, <2>2, <3>3 DEF Break
    <3>5. inode' = [inode EXCEPT ![i] = content]
      BY <3>1, <3>4 DEF CacheIsSound, FilesTypeOK
    <3>6. content \in [length : 0..Blocks, bad : BOOLEAN]
      <4>1. inode[i] \in [length : 0..Blocks, bad : BOOLEAN]
        BY <3>1 DEF CacheIsSound, FilesTypeOK
      <4> QED
        BY <4>1
    <3>7. fetcher' = [fetcher EXCEPT ![p] = here]
      BY <1>0, <3>4
    <3>8. here \in Place /\ here.open = i /\ UNCHANGED dest
      BY <1>0, <3>4
    <3> HIDE DEF content, i, here
    <3> QED
      BY <2>1, <2>2, <3>1, <3>5, <3>6, <3>7, <3>8, Writing DEF here
  <2>3. CASE temp' # temp
    <3> DEFINE place == [here EXCEPT !.at = "failed", !.open = NoInode, !.offset = 0]
    <3>1. place \in Place /\ place.at = "failed" /\ place.open = NoInode
      BY <1>0 DEF Place
    <3>2. /\ fetcher' = [fetcher EXCEPT ![p] = place]
          /\ temp' = [temp EXCEPT ![t] = NoInode]
          /\ UNCHANGED <<inode, dest>>
      BY <1>7, <2>3 DEF Break
    <3> QED
      BY <1>0, <2>1, <3>1, <3>2, Leaving
  <2> QED
    BY <2>2, <2>3
<1>8. CASE Hash(p)
  <2>1. CASE temp[t] # NoInode /\ inode[temp[t]] = Whole
    <3> DEFINE place == [here EXCEPT !.at = "rename"]
    <3>1. place \in Place /\ place.at = "rename" /\ place.open = NoInode /\ place.asset = here.asset
      BY <1>0, <1>8 DEF Place, Hash, At
    <3>2. fetcher' = [fetcher EXCEPT ![p] = place] /\ UNCHANGED <<inode, temp, dest, breaks>>
      BY <1>8, <2>1 DEF Hash, FetcherGoto
    <3>3. /\ fetcher' \in [Fetcher -> Place]
          /\ \A q \in Fetcher : fetcher'[q].at = "fetch" <=> fetcher'[q].open # NoInode
          /\ fetcher'[p] = place
          /\ \A q \in Fetcher \ {p} : fetcher'[q] = fetcher[q]
      BY <3>1, <3>2, Moving DEF CacheIsSound
    <3>4. FilesTypeOK' /\ NamesAreApart'
      BY <3>2, <3>3 DEF CacheIsSound, FilesTypeOK, NamesAreApart, Place
    <3>5. \A q \in Fetcher : Own(q)' = Own(q)
      BY <3>1, <3>2, <3>3 DEF Own, TempPath
    <3>6. FilesAreWhole'
      BY <2>1, <3>1, <3>2, <3>3, <3>5 DEF CacheIsSound, FilesAreWhole, At, Own
    <3> QED
      BY <3>4, <3>6 DEF CacheIsSound
  <2>2. CASE ~(temp[t] # NoInode /\ inode[temp[t]] = Whole)
    BY <1>1, <1>8, <2>2 DEF Hash, At
  <2> QED
    BY <2>1, <2>2
<1>9. CASE Publish(p)
  <2>1. CASE temp[t] = NoInode
    BY <1>1, <1>9, <2>1 DEF Publish, At
  <2>2. CASE temp[t] # NoInode
    <3>1. /\ here.at = "rename"
          /\ dest' = [dest EXCEPT ![here.asset] = temp[t]]
          /\ temp' = [temp EXCEPT ![t] = NoInode]
          /\ fetcher' = NextAsset(p)
          /\ UNCHANGED <<inode, breaks>>
      BY <1>9, <2>2 DEF Publish, At
    <3>2. PICK place \in Place :
            /\ place.at \in {"check", "purge"} /\ place.open = NoInode
            /\ fetcher' = [fetcher EXCEPT ![p] = place]
      BY <3>1, Advancing DEF CacheIsSound
    <3>3. /\ fetcher' \in [Fetcher -> Place]
          /\ \A q \in Fetcher : fetcher'[q].at = "fetch" <=> fetcher'[q].open # NoInode
          /\ fetcher'[p] = place
          /\ \A q \in Fetcher \ {p} : fetcher'[q] = fetcher[q]
      BY <3>2, Moving DEF CacheIsSound
    <3>4. inode[temp[t]] = Whole
      BY <2>2, <3>1 DEF CacheIsSound, FilesAreWhole, Own, At
    <3>5. /\ dest' \in [Asset -> Inode \cup {NoInode}] /\ temp' \in [Path -> Inode \cup {NoInode}]
          /\ dest'[here.asset] = temp[t] /\ \A a \in Asset \ {here.asset} : dest'[a] = dest[a]
          /\ temp'[t] = NoInode /\ \A u \in Path \ {t} : temp'[u] = temp[u]
      BY <1>0, <3>1 DEF CacheIsSound, FilesTypeOK
    <3>6. FilesTypeOK'
      BY <3>1, <3>3, <3>5 DEF CacheIsSound, FilesTypeOK, Place
    <3>7. NamesAreApart'
      BY <1>0, <2>2, <3>5 DEF CacheIsSound, NamesAreApart
    <3>8. ASSUME NEW q \in Fetcher \ {p} PROVE Own(q)' = Own(q)
      <4>1. TempPath(q, fetcher[q].asset) \in Path \ {t}
        BY PlaceFields DEF TempPath, CacheIsSound
      <4> QED
        BY <3>3, <3>5, <4>1 DEF Own, TempPath
    <3>9. FilesAreWhole'
      BY <3>1, <3>2, <3>3, <3>4, <3>5, <3>8 DEF CacheIsSound, FilesAreWhole, At
    <3> QED
      BY <3>6, <3>7, <3>9 DEF CacheIsSound
  <2> QED
    BY <2>1, <2>2
<1>10. CASE Load(p)
  <2>1. PICK l \in {"failed", "loaded"} : FetcherGoto(p, l)
    BY <1>10 DEF Load
  <2> QED
    BY <1>1, <1>10, <2>1 DEF Load, At
<1>11. CASE Retry(p)
  <2> DEFINE place == [here EXCEPT !.at = "check", !.asset = 0]
  <2>1. place \in Place /\ place.at = "check" /\ place.open = NoInode
    BY <1>0, <1>11 DEF Place, Retry
  <2>2. fetcher' = [fetcher EXCEPT ![p] = place] /\ UNCHANGED <<inode, temp, dest, breaks>>
    BY <1>11 DEF Retry
  <2> QED
    BY <1>0, <2>1, <2>2, Leaving
<1>12. CASE Killed(p)
  <2> DEFINE place == [here EXCEPT !.at = "dead", !.open = NoInode, !.offset = 0]
  <2>1. place \in Place /\ place.at = "dead" /\ place.open = NoInode
    BY <1>0 DEF Place
  <2>2. /\ fetcher' = [fetcher EXCEPT ![p] = place] /\ UNCHANGED <<inode, temp, dest>>
        /\ breaks' \in 0..MaxBreaks
    BY <1>0, <1>12 DEF Killed
  <2> QED
    BY <2>1, <2>2, Leaving
<1> QED
  BY <1>2, <1>3, <1>4, <1>5, <1>6, <1>7, <1>8, <1>9, <1>10, <1>11, <1>12 DEF FetchStep

(* The cache is sound, whoever downloads, dies or tries again.                        *)
THEOREM Caching == FilesSpec => []CacheIsSound
<1>1. FilesInit => CacheIsSound
  <2> SUFFICES ASSUME FilesInit PROVE CacheIsSound
    OBVIOUS
  <2>1. 0 \in 0..Blocks /\ 0 \in Asset /\ 0 \in 0..MaxBreaks
    BY FilesAssumption, AssetCount
  <2>2. FilesTypeOK
    BY <2>1 DEF FilesInit, FilesTypeOK
  <2>3. NamesAreApart /\ FilesAreWhole
    BY DEF FilesInit, NamesAreApart, FilesAreWhole, At
  <2> QED
    BY <2>2, <2>3 DEF CacheIsSound
<1>2. CacheIsSound /\ [FilesNext]_fileVars => CacheIsSound'
  <2> SUFFICES ASSUME CacheIsSound, [FilesNext]_fileVars PROVE CacheIsSound'
    OBVIOUS
  <2>1. ASSUME NEW a \in Asset, Truncated(a) PROVE CacheIsSound'
    <3>1. /\ dest[a] \in Inode /\ breaks' \in 0..MaxBreaks /\ 0 \in 0..Blocks
          /\ inode' = [inode EXCEPT ![dest[a]].length = 0] /\ UNCHANGED <<temp, dest, fetcher>>
      BY <2>1, FilesAssumption DEF Truncated, CacheIsSound, FilesTypeOK
    <3>2. FilesTypeOK'
      BY <3>1 DEF CacheIsSound, FilesTypeOK
    <3>3. \A j \in Inode \ {dest[a]} : inode'[j] = inode[j]
      BY <3>1 DEF CacheIsSound, FilesTypeOK
    <3>4. inode'[dest[a]].length = 0
      BY <3>1 DEF CacheIsSound, FilesTypeOK
    <3>5. \A p \in Fetcher : Own(p)' = Own(p) /\ Own(p) \in Inode \cup {NoInode} /\ Own(p) # dest[a]
      BY <3>1, PlaceFields DEF Own, CacheIsSound, NamesAreApart
    <3>6. FilesAreWhole'
      BY <3>1, <3>3, <3>4, <3>5 DEF CacheIsSound, FilesAreWhole, At, FilesTypeOK
    <3> QED
      BY <3>1, <3>2, <3>6 DEF CacheIsSound, NamesAreApart
  <2>2. CASE UNCHANGED fileVars
    BY <2>2 DEF fileVars, CacheIsSound, FilesTypeOK, NamesAreApart, FilesAreWhole, Own, At
  <2> QED
    BY <2>1, <2>2, Fetching DEF FilesNext
<1> QED
  BY <1>1, <1>2, PTL DEF FilesSpec

(* An asset that counts as cached is the one whose digest was pinned.                  *)
THEOREM CachedIsVerified == FilesSpec => []PublishedIsVerified
<1>1. CacheIsSound => PublishedIsVerified
  BY FilesAssumption DEF CacheIsSound, FilesAreWhole, PublishedIsVerified, IsCached
<1> QED
  BY <1>1, Caching, PTL
-----------------------------------------------------------------------------
(* The sweep of nested stores, for chains of directories of any length.             *)

SetsOut == {cwd} \union ({env} \ {NoDir})
Phases == {"born", "sweep", "refused", "swept", "laid"}

(* Between the root and a directory below it.                                      *)
Below(d) == d # walk.root /\ walk.root \in Upward(d)

(* What a sweep that has come by leaves of what there was.                          *)
IsLeft(d) ==
  claudix[d] \in IF ~(walk.before[d] = "store" /\ git[d] # "repo") THEN {walk.before[d]}
                 ELSE IF d \in walk.failed THEN {"none", "store"} ELSE {"none"}

SweepTyped ==
  /\ git \in [Dir -> {"none", "orphan", "repo"}]
  /\ claudix \in [Dir -> {"none", "store", "users"}]
  /\ cwd \in Dir /\ env \in Dir \union {NoDir}
  /\ walk \in [phase : Phases, root : Dir \union {NoDir}, at : Dir \union {NoDir},
               starts : SUBSET Dir, failed : SUBSET Dir, before : [Dir -> {"none", "store", "users"}]]
  /\ walk.starts \subseteq SetsOut
  /\ walk.phase \in {"sweep", "swept", "laid"} => walk.root \in Dir
  /\ walk.phase = "born" => walk.at = NoDir /\ walk.starts = SetsOut
  /\ walk.phase = "swept" => walk.at = NoDir /\ walk.starts = {}

(* A sweep has dealt with what is below the root on the way to its starts, the one it   *)
(* is at but for what is still above; and it has touched nothing else.              *)
SweepOnTrack ==
  /\ walk.phase \in {"born", "refused"} => claudix = walk.before
  /\ walk.phase \in {"sweep", "swept"} =>
       /\ walk.at # NoDir => \E s \in SetsOut : walk.at \in Upward(s)
       /\ \A d \in Dir : claudix[d] = walk.before[d] \/ (claudix[d] = "none" /\ Litter(d))
       /\ \A s \in SetsOut \ walk.starts : \A d \in Upward(s) :
            Below(d) => IsLeft(d) \/ (walk.at # NoDir /\ d \in Upward(walk.at))
  /\ walk.phase = "laid" =>
       \A d \in Dir \ {walk.root} :
         claudix[d] \in IF ~Litter(d) THEN {walk.before[d]}
                       ELSE IF d \in walk.failed THEN {"none", "store"} ELSE {"none"}

(* The directories above one, itself included, are ordered.                          *)
LEMMA UpwardIsAnOrder ==
  /\ Dir = 0..(Chain + 1) /\ NoDir \notin Dir
  /\ \A d \in Dir : Upward(d) \subseteq Dir /\ d \in Upward(d)
  /\ \A d, e \in Dir : d \in Upward(e) => Upward(d) \subseteq Upward(e)
  /\ \A d, e \in Dir : d \in Upward(e) /\ e \in Upward(d) => d = e
BY NestedAssumption DEF Dir, Upward, Aside

(* Upward from a directory are itself and what is upward from its parent.            *)
LEMMA ParentIsNext ==
  ASSUME NEW d \in Dir, NEW root \in Dir, root \in Upward(d), d # root
  PROVE  /\ Parent(d) \in Dir /\ Parent(d) # NoDir
         /\ Upward(d) = Upward(Parent(d)) \cup {d}
         /\ Parent(d) \in Upward(d)
<1>1. CASE d = Aside
  <2>1. Parent(d) = 0
    BY <1>1, NestedAssumption DEF Parent, Aside
  <2> QED
    BY <1>1, <2>1, NestedAssumption DEF Dir, Upward, Aside
<1>2. CASE d # Aside
  <2>1. d \in 1..Chain
    BY <1>2, NestedAssumption DEF Dir, Upward, Aside
  <2>2. Parent(d) = d - 1
    BY <1>2, <2>1, NestedAssumption DEF Parent, Aside
  <2> QED
    BY <1>2, <2>1, <2>2, NestedAssumption DEF Dir, Upward, Aside
<1> QED
  BY <1>1, <1>2

(* Some numbers have a least one, and some numbers up to a bound a last.              *)
LEMMA Least ==
  ASSUME NEW S \in SUBSET Nat, S # {} PROVE \E k \in S : \A j \in S : k <= j
<1>1. IsWellFoundedOn(OpToRel(<, Nat), Nat)
  BY NatLessThanWellFounded
<1>2. PICK k \in S : \A j \in S : <<j, k>> \notin OpToRel(<, Nat)
  BY <1>1, WFMin
<1>3. \A j \in S : ~(j < k)
  BY <1>2 DEF OpToRel
<1> QED
  BY <1>3

LEMMA LastOf ==
  ASSUME NEW n \in Nat, NEW S \in SUBSET (0..n), S # {} PROVE \E k \in S : \A j \in S : j <= k
<1> DEFINE Left == {i \in 0..n : n - i \in S}
<1>1. Left \in SUBSET Nat /\ Left # {}
  <2>1. PICK j \in S : TRUE
    OBVIOUS
  <2>2. n - j \in 0..n /\ n - (n - j) = j
    BY <2>1
  <2>3. n - j \in Left
    BY <2>1, <2>2
  <2>4. 0..n \subseteq Nat
    OBVIOUS
  <2> QED
    BY <2>3, <2>4
<1>2. PICK i \in Left : \A j \in Left : i <= j
  BY <1>1, Least
<1>3. ASSUME NEW j \in S PROVE j <= n - i
  <2>1. j \in 0..n /\ n - j \in 0..n /\ n - (n - j) = j
    OBVIOUS
  <2>2. i <= n - j
    BY <1>2, <2>1
  <2> QED
    BY <1>2, <2>1, <2>2
<1> QED
  BY <1>2, <1>3

(* The root a directory resolves to is a directory.                                  *)
LEMMA RootIsDir ==
  ASSUME NEW d \in Dir PROVE GitRepoRoot(d) \in Dir \cup {NoDir} /\ ResolveProjectRoot(d) \in Dir
<1> DEFINE marked == {k \in Upward(d) : git[k] # "none"}
<1>1. Upward(d) \subseteq 0..(Chain + 1) /\ NoDir \notin Dir
  BY UpwardIsAnOrder DEF Dir
<1>2. GitRepoRoot(d) \in Dir \cup {NoDir}
  <2>1. CASE marked = {}
    BY <2>1 DEF GitRepoRoot
  <2>2. CASE marked # {}
    <3>1. \E k \in marked : marked \subseteq Upward(k)
      <4>1. CASE d = Aside
        <5>1. marked \subseteq {0, d} /\ Upward(d) = {0, d} /\ Upward(0) = 0..0
          BY <4>1, NestedAssumption DEF Upward, Aside
        <5>2. CASE d \in marked
          BY <5>1, <5>2
        <5>3. CASE d \notin marked
          BY <2>2, <5>1, <5>3
        <5> QED
          BY <5>2, <5>3
      <4>2. CASE d # Aside
        <5>1. d \in 0..Chain /\ Upward(d) = 0..d
          BY <4>2, NestedAssumption DEF Upward, Aside, Dir
        <5>2. marked \in SUBSET (0..d) /\ d \in Nat
          BY <5>1
        <5>4. PICK k \in marked : \A j \in marked : j <= k
          BY <2>2, <5>2, LastOf
        <5>5. k \in 0..Chain /\ Upward(k) = 0..k
          BY <5>1, <5>4, NestedAssumption DEF Upward, Aside
        <5> QED
          BY <5>2, <5>4, <5>5
      <4> QED
        BY <4>1, <4>2
    <3>2. (CHOOSE k \in marked : marked \subseteq Upward(k)) \in marked
      BY <3>1
    <3>3. GitRepoRoot(d) \in marked \cup {NoDir}
      BY <3>2 DEF GitRepoRoot
    <3> QED
      BY <1>1, <3>3 DEF Dir
  <2> QED
    BY <2>1, <2>2
<1> QED
  BY <1>2 DEF ResolveProjectRoot

(* Once the stores are swept, below the root there is no litter, and nothing is touched  *)
(* that is not litter.                                                           *)
SweepInvariant == SweepTyped /\ SweepOnTrack

LEMMA Sweeping ==
  ASSUME SweepInvariant, [NestNext]_nestVars PROVE SweepInvariant'
<1> USE DEF SweepInvariant, Phases
<1>1. /\ NoDir \notin Dir
      /\ \A d \in Dir : Upward(d) \subseteq Dir /\ d \in Upward(d)
      /\ \A d, e \in Dir : d \in Upward(e) => Upward(d) \subseteq Upward(e)
      /\ \A d, e \in Dir : d \in Upward(e) /\ e \in Upward(d) => d = e
  BY UpwardIsAnOrder
<1>2. CASE FindRoot
  <2>1. walk.phase = "born" /\ UNCHANGED <<git, claudix, cwd, env>>
    BY <1>2 DEF FindRoot
  <2>2. PICK root \in Dir, goes \in {"refused", "sweep"} :
          walk' = [walk EXCEPT !.root = root, !.phase = goes]
    <3> DEFINE root == ResolveProjectRoot(IF env # NoDir THEN env ELSE cwd)
               goes == IF GitRepoRoot(root) = NoDir THEN "refused" ELSE "sweep"
    <3>1. root \in Dir
      BY RootIsDir DEF SweepTyped
    <3>2. walk' = [walk EXCEPT !.root = root, !.phase = goes] /\ goes \in {"refused", "sweep"}
      BY <1>2 DEF FindRoot
    <3> QED
      BY <3>1, <3>2
  <2>3. SweepTyped'
    BY <2>1, <2>2 DEF SweepTyped, SetsOut
  <2>4. claudix = walk.before
    BY <2>1 DEF SweepOnTrack
  <2> QED
    BY <2>1, <2>2, <2>3, <2>4
       DEF SweepTyped, SweepOnTrack, Below, IsLeft, Litter, SetsOut
<1>3. ASSUME NEW d \in Dir, BeginSweep(d) PROVE SweepInvariant'
  <2>1. /\ walk.phase = "sweep" /\ walk.at = NoDir /\ d \in walk.starts
        /\ UNCHANGED <<git, claudix, cwd, env>>
        /\ walk' = [walk EXCEPT !.at = d, !.starts = @ \ {d}]
    BY <1>3 DEF BeginSweep
  <2>2. /\ walk'.phase = "sweep" /\ walk'.at = d /\ walk'.starts = walk.starts \ {d}
        /\ walk'.root = walk.root /\ walk'.failed = walk.failed /\ walk'.before = walk.before
    BY <2>1 DEF SweepTyped
  <2>3. SweepTyped'
    BY <2>1 DEF SweepTyped, SetsOut
  <2>4. d \in SetsOut /\ SetsOut' = SetsOut /\ d # NoDir
    BY <1>1, <2>1 DEF SweepTyped, SetsOut
  <2>5. ASSUME NEW e \in Dir PROVE Below(e)' = Below(e) /\ IsLeft(e)' = IsLeft(e) /\ Litter(e)' = Litter(e)
    BY <2>1, <2>2 DEF Below, IsLeft, Litter
  <2>6. \A e \in Dir : claudix'[e] = walk'.before[e] \/ (claudix'[e] = "none" /\ Litter(e)')
    BY <2>1, <2>2, <2>5 DEF SweepOnTrack
  <2>7. ASSUME NEW s \in SetsOut \ walk'.starts, NEW e \in Upward(s), Below(e)'
        PROVE  IsLeft(e)' \/ e \in Upward(d)
    <3>1. s \in Dir /\ e \in Dir
      BY <1>1, <2>7 DEF SweepTyped, SetsOut
    <3>2. CASE s = d
      BY <2>7, <3>2
    <3>3. CASE s # d
      BY <2>1, <2>2, <2>5, <2>7, <3>1, <3>3 DEF SweepOnTrack
    <3> QED
      BY <3>2, <3>3
  <2>8. d \in Upward(d)
    BY <1>1
  <2> QED
    BY <2>2, <2>3, <2>4, <2>6, <2>7, <2>8 DEF SweepOnTrack
<1>4. ASSUME Outside, walk.phase = "sweep", walk.at # NoDir, NEW d \in Upward(walk.at)
      PROVE  ~Below(d)
  <2>1. walk.at \in Dir /\ walk.root \in Dir /\ d \in Dir
    BY <1>1, <1>4 DEF SweepTyped
  <2> QED
    BY <1>1, <1>4, <2>1 DEF Outside, Below
<1>5. CASE EndSweep
  <2>1. /\ walk.phase = "sweep" /\ walk.at # NoDir /\ Outside
        /\ UNCHANGED <<git, claudix, cwd, env>>
        /\ walk' = [walk EXCEPT !.at = NoDir]
    BY <1>5 DEF EndSweep
  <2>2. /\ walk'.phase = "sweep" /\ walk'.at = NoDir /\ walk'.starts = walk.starts
        /\ walk'.root = walk.root /\ walk'.failed = walk.failed /\ walk'.before = walk.before
    BY <2>1 DEF SweepTyped
  <2>3. SweepTyped' /\ SetsOut' = SetsOut
    BY <2>1 DEF SweepTyped, SetsOut
  <2>4. ASSUME NEW e \in Dir PROVE Below(e)' = Below(e) /\ IsLeft(e)' = IsLeft(e) /\ Litter(e)' = Litter(e)
    BY <2>1, <2>2 DEF Below, IsLeft, Litter
  <2>5. ASSUME NEW s \in SetsOut \ walk'.starts, NEW e \in Upward(s), Below(e)' PROVE IsLeft(e)'
    <3>1. e \in Dir
      BY <1>1, <2>5 DEF SweepTyped, SetsOut
    <3> QED
      BY <1>4, <2>1, <2>2, <2>4, <2>5, <3>1 DEF SweepOnTrack
  <2>6. \A e \in Dir : claudix'[e] = walk'.before[e] \/ (claudix'[e] = "none" /\ Litter(e)')
    BY <2>1, <2>2, <2>4 DEF SweepOnTrack
  <2> QED
    BY <2>2, <2>3, <2>5, <2>6 DEF SweepOnTrack
(* One directory is passed, its store deleted, kept or not to be deleted.              *)
<1>6. ASSUME NEW here \in Dir, NEW failed \in SUBSET Dir, NEW kept \in {"none", "store", "users"},
             walk.phase = "sweep", walk.at = here, ~Outside,
             UNCHANGED <<git, cwd, env>>,
             claudix' = [claudix EXCEPT ![here] = kept],
             walk' = [walk EXCEPT !.at = Parent(here), !.failed = failed],
             walk.failed \subseteq failed,
             kept = claudix[here] \/ (kept = "none" /\ HasOwnStore),
             kept = "store" /\ git[here] # "repo" => here \in failed
      PROVE  SweepInvariant'
  <2>1. here # walk.root /\ walk.root \in Upward(here) /\ walk.root \in Dir /\ here # NoDir
    BY <1>1, <1>6 DEF Outside, SweepTyped
  <2>2. /\ Parent(here) \in Dir /\ Parent(here) # NoDir
        /\ Upward(here) = Upward(Parent(here)) \cup {here}
        /\ Parent(here) \in Upward(here)
    BY <2>1, ParentIsNext
  <2>3. /\ walk'.phase = "sweep" /\ walk'.at = Parent(here) /\ walk'.starts = walk.starts
        /\ walk'.root = walk.root /\ walk'.failed = failed /\ walk'.before = walk.before
    BY <1>6 DEF SweepTyped
  <2>4. SweepTyped' /\ SetsOut' = SetsOut
    BY <1>6, <2>2, <2>3 DEF SweepTyped, SetsOut
  <2>5. /\ claudix'[here] = kept
        /\ \A e \in Dir \ {here} : claudix'[e] = claudix[e]
    BY <1>6 DEF SweepTyped
  <2>6. Below(here)
    BY <2>1 DEF Below
  <2>7. ASSUME NEW e \in Dir PROVE Below(e)' = Below(e) /\ Litter(e)' = Litter(e)
    BY <1>6, <2>3 DEF Below, Litter
  <2>8. PICK start \in SetsOut : here \in Upward(start)
    BY <1>6, <2>1 DEF SweepOnTrack
  <2>9. HasOwnStore => claudix[here] = "store" /\ walk.before[here] = "store" /\ Litter(here)
    <3>1. HasOwnStore => claudix[here] = "store" /\ git[here] # "repo"
      BY <1>6 DEF HasOwnStore
    <3>2. claudix[here] = walk.before[here] \/ claudix[here] = "none"
      BY <1>6 DEF SweepOnTrack
    <3> QED
      BY <2>1, <2>8, <3>1, <3>2 DEF Litter, SetsOut
  <2>10. \A e \in Dir : claudix'[e] = walk'.before[e] \/ (claudix'[e] = "none" /\ Litter(e)')
    BY <1>6, <2>3, <2>5, <2>7, <2>9 DEF SweepOnTrack
  <2>11. IsLeft(here)'
    <3>1. claudix[here] = walk.before[here] \/ (claudix[here] = "none" /\ Litter(here))
      BY <1>6 DEF SweepOnTrack
    <3> QED
      BY <1>6, <2>3, <2>5, <2>9, <3>1 DEF IsLeft, Litter, SweepTyped
  <2>12. ASSUME NEW e \in Dir \ {here}, IsLeft(e) PROVE IsLeft(e)'
    BY <1>6, <2>3, <2>5, <2>12 DEF IsLeft
  <2>13. ASSUME NEW s \in SetsOut \ walk'.starts, NEW e \in Upward(s), Below(e)'
         PROVE  IsLeft(e)' \/ e \in Upward(Parent(here))
    <3>1. e \in Dir
      BY <1>1, <2>13 DEF SweepTyped, SetsOut
    <3>2. IsLeft(e) \/ e \in Upward(here)
      BY <1>6, <2>3, <2>7, <2>13, <3>1 DEF SweepOnTrack
    <3> QED
      BY <2>2, <2>11, <2>12, <3>1, <3>2
  <2>14. Parent(here) \in Upward(start)
    BY <1>1, <2>2, <2>8 DEF SweepTyped, SetsOut
  <2> QED
    BY <2>2, <2>3, <2>4, <2>8, <2>10, <2>13, <2>14 DEF SweepOnTrack
<1>7. CASE StepOver
  <2> DEFINE here == walk.at
  <2>1. /\ walk.phase = "sweep" /\ here # NoDir /\ ~Outside /\ ~HasOwnStore
        /\ UNCHANGED <<git, claudix, cwd, env>>
        /\ walk' = [walk EXCEPT !.at = Parent(here)]
    BY <1>7 DEF StepOver
  <2>2. here \in Dir /\ walk.failed \in SUBSET Dir /\ claudix[here] \in {"none", "store", "users"}
    BY <2>1 DEF SweepTyped
  <2>3. claudix' = [claudix EXCEPT ![here] = claudix[here]]
    BY <2>1, <2>2 DEF SweepTyped
  <2>4. walk' = [walk EXCEPT !.at = Parent(here), !.failed = walk.failed]
    BY <2>1 DEF SweepTyped
  <2>5. claudix[here] = "store" /\ git[here] # "repo" => here \in walk.failed
    BY <2>1 DEF HasOwnStore
  <2> HIDE DEF here
  <2> QED
    BY <1>6, <2>1, <2>2, <2>3, <2>4, <2>5 DEF here
<1>8. CASE DeleteNested
  <2> DEFINE here == walk.at
  <2>1. /\ walk.phase = "sweep" /\ here # NoDir /\ ~Outside /\ HasOwnStore
        /\ UNCHANGED <<git, cwd, env>>
    BY <1>8 DEF DeleteNested
  <2>2. here \in Dir /\ walk.failed \in SUBSET Dir /\ claudix[here] = "store"
    BY <2>1 DEF SweepTyped, HasOwnStore
  <2>3. CASE claudix' = [claudix EXCEPT ![here] = "none"] /\ walk' = [walk EXCEPT !.at = Parent(here)]
    <3>1. walk' = [walk EXCEPT !.at = Parent(here), !.failed = walk.failed]
      BY <2>3 DEF SweepTyped
    <3> QED
      BY <1>6, <2>1, <2>2, <2>3, <3>1
  <2>4. CASE /\ walk' = [walk EXCEPT !.at = Parent(here), !.failed = @ \union {here}]
             /\ UNCHANGED claudix
    <3>1. claudix' = [claudix EXCEPT ![here] = claudix[here]]
      BY <2>2, <2>4 DEF SweepTyped
    <3>2. walk' = [walk EXCEPT !.at = Parent(here), !.failed = walk.failed \cup {here}]
      BY <2>4
    <3>3. walk.failed \cup {here} \in SUBSET Dir /\ here \in walk.failed \cup {here}
      BY <2>2
    <3>4. claudix[here] \in {"none", "store", "users"}
      BY <2>2
    <3> HIDE DEF here
    <3> QED
      BY <1>6, <2>1, <2>2, <3>1, <3>2, <3>3, <3>4 DEF here
  <2> QED
    BY <1>8, <2>3, <2>4 DEF DeleteNested
<1>9. CASE AllSwept
  <2>1. /\ walk.phase = "sweep" /\ walk.at = NoDir /\ walk.starts = {}
        /\ UNCHANGED <<git, claudix, cwd, env>>
        /\ walk' = [walk EXCEPT !.phase = "swept"]
    BY <1>9 DEF AllSwept
  <2>2. SweepTyped'
    BY <2>1 DEF SweepTyped, SetsOut
  <2>3. /\ walk'.phase = "swept" /\ walk'.at = walk.at /\ walk'.starts = walk.starts
        /\ walk'.root = walk.root /\ walk'.failed = walk.failed /\ walk'.before = walk.before
    BY <2>1 DEF SweepTyped
  <2>4. ASSUME NEW e PROVE Below(e)' = Below(e) /\ IsLeft(e)' = IsLeft(e) /\ Litter(e)' = Litter(e)
    BY <2>1, <2>3 DEF Below, IsLeft, Litter
  <2>5. \A e \in Dir : claudix'[e] = walk'.before[e] \/ (claudix'[e] = "none" /\ Litter(e)')
    BY <2>1, <2>3, <2>4 DEF SweepOnTrack
  <2>6. \A s \in SetsOut \ walk.starts : \A d \in Upward(s) : Below(d)' => IsLeft(d)'
    BY <2>1, <2>4 DEF SweepOnTrack
  <2>7. SetsOut' = SetsOut
    BY <2>1 DEF SetsOut
  <2> QED
    BY <2>1, <2>2, <2>3, <2>5, <2>6, <2>7 DEF SweepOnTrack
<1>10. CASE LayDown
  <2>1. /\ walk.phase = "swept" /\ walk.at = NoDir /\ walk.starts = {} /\ walk.root \in Dir
        /\ UNCHANGED <<git, cwd, env>>
        /\ claudix' = [claudix EXCEPT ![walk.root] = "store"]
        /\ walk' = [walk EXCEPT !.phase = "laid"]
    BY <1>10 DEF LayDown, SweepTyped
  <2>2. /\ walk'.phase = "laid" /\ walk'.root = walk.root /\ walk'.failed = walk.failed
        /\ walk'.before = walk.before
    BY <2>1 DEF SweepTyped
  <2>3. SweepTyped'
    BY <2>1 DEF SweepTyped, SetsOut
  <2>4. ASSUME NEW d \in Dir \ {walk.root}
        PROVE  claudix'[d] \in IF ~Litter(d)' THEN {walk'.before[d]}
                               ELSE IF d \in walk'.failed THEN {"none", "store"} ELSE {"none"}
    <3>1. claudix'[d] = claudix[d] /\ Litter(d)' = Litter(d)
      BY <2>1, <2>2 DEF Litter, SweepTyped
    <3>2. claudix[d] = walk.before[d] \/ (claudix[d] = "none" /\ Litter(d))
      BY <2>1 DEF SweepOnTrack
    <3>3. Litter(d) => IsLeft(d)
      BY <2>1 DEF SweepOnTrack, Litter, Below, SetsOut
    <3>4. Litter(d) => walk.before[d] = "store" /\ git[d] # "repo"
      BY DEF Litter
    <3> QED
      BY <2>2, <3>1, <3>2, <3>3, <3>4 DEF IsLeft
  <2> QED
    BY <2>2, <2>3, <2>4 DEF SweepOnTrack
<1>11. CASE UNCHANGED nestVars
  BY <1>11 DEF nestVars, SweepTyped, SweepOnTrack, Below, IsLeft, Litter, SetsOut
<1> QED
  BY <1>2, <1>3, <1>5, <1>7, <1>8, <1>9, <1>10, <1>11 DEF NestNext

LEMMA SweepGoesOn == NestSpec => []SweepInvariant
<1>1. NestInit => SweepInvariant
  <2> SUFFICES ASSUME NestInit PROVE SweepInvariant
    OBVIOUS
  <2>1. SweepTyped
    BY UpwardIsAnOrder DEF NestInit, SweepTyped, SetsOut, Phases
  <2>2. walk.phase = "born" /\ walk.before = claudix
    BY DEF NestInit
  <2> QED
    BY <2>1, <2>2 DEF SweepInvariant, SweepOnTrack
<1>2. SweepInvariant /\ [NestNext]_nestVars => SweepInvariant'
  BY Sweeping
<1> QED
  BY <1>1, <1>2, PTL DEF NestSpec

(* When the store is laid down all the litter is gone and nothing else is, from any      *)
(* directory of any tree of this shape, with any deletions failing.                   *)
THEOREM SweptExactly == NestSpec => []SweepIsExact
<1>1. SweepInvariant => SweepIsExact
  BY DEF SweepInvariant, SweepOnTrack, SweepIsExact
<1> QED
  BY <1>1, SweepGoesOn, PTL

(* A walk is at a directory or nowhere, and the root it has found is one.               *)
THEOREM NestTyping == NestSpec => []NestTypeOK
<1>1. SweepInvariant => NestTypeOK
  BY DEF SweepInvariant, SweepTyped, NestTypeOK, Phases
<1> QED
  BY <1>1, SweepGoesOn, PTL
-----------------------------------------------------------------------------
(* The installer, for any files, releases and deaths.                              *)

Version == 0..(MaxUpdates + 1)
Present == Version \cup {CutShort}
AfterManifest == {"hooks", "launcher", "commands", "copying", "config", "writing config", "ok"}
AfterHooks == AfterManifest \ {"hooks"}
AfterLauncher == AfterHooks \ {"launcher"}
AfterCommands == {"config", "writing config", "ok"}

(* What the run has passed is what the checkout holds.                               *)
InstallOnTrack ==
  /\ checkout \in [Copied -> Version]
  /\ \A f \in Single : checkout[f] # 0
  /\ plugin \in [PluginRoot -> [Copied -> Present]]
  /\ chosen \in PluginRoot
  /\ updates \in 0..MaxUpdates
  /\ stepAt \in AfterManifest => plugin[chosen]["manifest"] = checkout["manifest"]
  /\ stepAt \in AfterHooks => plugin[chosen]["hooks"] = checkout["hooks"]
  /\ stepAt \in AfterLauncher => plugin[chosen]["launcher"] = checkout["launcher"]
  /\ stepAt \in AfterCommands => \A f \in Entry : plugin[chosen][f] = checkout[f]
  /\ stepAt = "ok" => globalConfig # "none"

(* A single file that is as the checkout's lets the run go on.                        *)
LEMMA PassingFile ==
  ASSUME InstallOnTrack, stepAt \in Single, stepAt' = After(stepAt),
         plugin'[chosen][stepAt] = checkout[stepAt],
         \A f \in Copied \ {stepAt} : plugin'[chosen][f] = plugin[chosen][f],
         plugin' \in [PluginRoot -> [Copied -> Present]],
         UNCHANGED <<checkout, chosen, updates>>
  PROVE  InstallOnTrack'
<1> USE DEF AfterManifest, AfterHooks, AfterLauncher, AfterCommands
<1>1. Single \subseteq Copied /\ "manifest" \in Copied /\ "hooks" \in Copied
  BY DEF Copied, Single
<1>2. CASE stepAt = "manifest"
  <2>1. stepAt' = "hooks"
    BY <1>2 DEF After
  <2> QED
    BY <1>2, <2>1 DEF InstallOnTrack
<1>3. CASE stepAt = "hooks"
  <2>1. stepAt' = "launcher"
    BY <1>3 DEF After
  <2> QED
    BY <1>1, <1>3, <2>1 DEF InstallOnTrack
<1>4. CASE stepAt = "launcher"
  <2>1. stepAt' = "commands"
    BY <1>4 DEF After
  <2> QED
    BY <1>1, <1>4, <2>1 DEF InstallOnTrack
<1> QED
  BY <1>2, <1>3, <1>4 DEF Single

(* A run leaves behind it what it has copied, and starts over where it must.           *)
LEMMA Installing == ASSUME InstallOnTrack, [InstallNext]_installVars PROVE InstallOnTrack'
<1> USE DEF AfterManifest, AfterHooks, AfterLauncher, AfterCommands
<1>1. /\ Single \subseteq Copied /\ Entry \subseteq Copied /\ Entry \cap Single = {}
      /\ Single = {"manifest", "hooks", "launcher"}
      /\ MaxUpdates \in Nat
  BY InstallAssumption DEF Copied, Single
<1>2. CASE BeginInstall
  BY <1>2 DEF BeginInstall, InstallOnTrack, PluginRootFromEnv, PluginRoot
<1>3. CASE SkipFile
  BY <1>3, PassingFile DEF SkipFile, FilesMatch, InstallOnTrack
<1>4. CASE EmptyFile
  <2>1. /\ stepAt \in Single /\ stepAt' = stepAt
        /\ plugin' = [plugin EXCEPT ![chosen][stepAt] = CutShort]
        /\ UNCHANGED <<checkout, globalConfig, chosen, updates>>
    BY <1>4 DEF EmptyFile
  <2>2. /\ plugin' \in [PluginRoot -> [Copied -> Present]]
        /\ \A f \in Copied \ {stepAt} : plugin'[chosen][f] = plugin[chosen][f]
    BY <1>1, <2>1 DEF InstallOnTrack, Present
  <2> QED
    BY <1>1, <2>1, <2>2 DEF InstallOnTrack
<1>5. CASE FillFile
  <2>1. /\ stepAt \in Single /\ stepAt' = After(stepAt)
        /\ plugin' = [plugin EXCEPT ![chosen][stepAt] = checkout[stepAt]]
        /\ UNCHANGED <<checkout, globalConfig, chosen, updates>>
    BY <1>5 DEF FillFile
  <2>2. checkout[stepAt] \in Present /\ stepAt \in Copied
    BY <1>1, <2>1 DEF InstallOnTrack, Present
  <2>3. /\ plugin' \in [PluginRoot -> [Copied -> Present]]
        /\ plugin'[chosen][stepAt] = checkout[stepAt]
        /\ \A f \in Copied \ {stepAt} : plugin'[chosen][f] = plugin[chosen][f]
    BY <2>1, <2>2 DEF InstallOnTrack
  <2> QED
    BY <2>1, <2>3, PassingFile
<1>6. CASE SkipDirectory
  <2>1. \A f \in Entry : plugin[chosen][f] = checkout[f]
    BY <1>6 DEF SkipDirectory, DirectoriesMatch, FilesMatch
  <2> QED
    BY <1>6, <2>1 DEF SkipDirectory, InstallOnTrack
<1>7. CASE StartRemoval \/ EndRemoval
  BY <1>7 DEF StartRemoval, EndRemoval, InstallOnTrack
(* A file of the directory changes.                                                *)
<1>8. ASSUME NEW f \in Entry, NEW content \in Present, stepAt = "copying", stepAt' = stepAt,
             plugin' = [plugin EXCEPT ![chosen][f] = content],
             UNCHANGED <<checkout, globalConfig, chosen, updates>>
      PROVE  InstallOnTrack'
  <2>1. /\ plugin' \in [PluginRoot -> [Copied -> Present]]
        /\ \A g \in Single : plugin'[chosen][g] = plugin[chosen][g]
    BY <1>1, <1>8 DEF InstallOnTrack
  <2> QED
    BY <1>1, <1>8, <2>1 DEF InstallOnTrack
<1>9. CASE RemoveEntry
  <2>1. 0 \in Present
    BY <1>1 DEF Present, Version
  <2> QED
    BY <1>8, <1>9, <2>1 DEF RemoveEntry
<1>10. CASE CopyEntry
  <2>1. PICK f \in Entry :
          plugin' = [plugin EXCEPT ![chosen][f] = IF @ = 0 THEN CutShort ELSE checkout[f]]
    BY <1>10 DEF CopyEntry
  <2> DEFINE content == IF plugin[chosen][f] = 0 THEN CutShort ELSE checkout[f]
  <2>2. content \in Present
    BY <1>1 DEF InstallOnTrack, Present
  <2>3. plugin' = [plugin EXCEPT ![chosen][f] = content]
    BY <2>1
  <2> HIDE DEF content
  <2> QED
    BY <1>8, <1>10, <2>2, <2>3 DEF CopyEntry
<1>11. CASE EndDirectory
  BY <1>11 DEF EndDirectory, InstallOnTrack
<1>12. CASE EnsureGlobalConfig \/ WriteGlobalConfig
  BY <1>12 DEF EnsureGlobalConfig, WriteGlobalConfig, InstallOnTrack
<1>13. CASE KillInstall
  BY <1>13 DEF KillInstall, InstallOnTrack
<1>14. CASE UpdateCheckout
  <2>1. PICK moved \in SUBSET Copied :
          checkout' = [f \in Copied |->
            IF f \notin moved THEN checkout[f]
            ELSE IF f \in Entry /\ checkout[f] # 0 THEN 0 ELSE updates + 2]
    BY <1>14 DEF UpdateCheckout
  <2>2. updates < MaxUpdates /\ updates' = updates + 1 /\ stepAt' = "idle" /\ UNCHANGED <<plugin, chosen>>
    BY <1>14 DEF UpdateCheckout
  <2>3. updates + 2 \in Version /\ 0 \in Version /\ updates + 1 \in 0..MaxUpdates /\ updates + 2 # 0
    <3>1. updates \in 0..MaxUpdates
      BY DEF InstallOnTrack
    <3> QED
      BY <1>1, <2>2, <3>1 DEF Version
  <2>4. checkout' \in [Copied -> Version]
    BY <2>1, <2>3 DEF InstallOnTrack
  <2>5. \A f \in Single : checkout'[f] # 0
    BY <1>1, <2>1, <2>3 DEF InstallOnTrack
  <2> QED
    BY <2>2, <2>3, <2>4, <2>5 DEF InstallOnTrack
<1>15. CASE UNCHANGED installVars
  BY <1>15 DEF installVars, InstallOnTrack
<1> QED
  BY <1>2, <1>3, <1>4, <1>5, <1>6, <1>7, <1>9, <1>10, <1>11, <1>12, <1>13, <1>14, <1>15
     DEF InstallNext

LEMMA InstallGoesOn == InstallSpec => []InstallOnTrack
<1>1. InstallInit => InstallOnTrack
  <2> SUFFICES ASSUME InstallInit PROVE InstallOnTrack
    OBVIOUS
  <2>1. 0 \in Version /\ 1 \in Version /\ 0 \in 0..MaxUpdates
    BY InstallAssumption DEF Version
  <2>2. checkout \in [Copied -> Version] /\ \A f \in Single : checkout[f] # 0
    BY <2>1 DEF InstallInit
  <2>3. plugin \in [PluginRoot -> [Copied -> Present]]
    BY <2>1 DEF InstallInit, Present
  <2> QED
    BY <2>1, <2>2, <2>3
       DEF InstallInit, InstallOnTrack, PluginRoot, AfterManifest, AfterHooks, AfterLauncher,
           AfterCommands
<1>2. InstallOnTrack /\ [InstallNext]_installVars => InstallOnTrack'
  BY Installing
<1> QED
  BY <1>1, <1>2, PTL DEF InstallSpec

(* A run that reports success has left what the checkout holds and nothing else in the   *)
(* root it chose, whatever runs died there before.                                   *)
THEOREM Installed == InstallSpec => []InstalledIsSource
<1>1. InstallOnTrack => InstalledIsSource
  <2> SUFFICES ASSUME InstallOnTrack, stepAt = "ok"
               PROVE  plugin[chosen] = checkout /\ IsPluginRoot(chosen) /\ globalConfig # "none"
    BY DEF InstalledIsSource
  <2>1. \A f \in Copied : plugin[chosen][f] = checkout[f]
    BY DEF InstallOnTrack, AfterManifest, AfterHooks, AfterLauncher, AfterCommands, Copied, Single
  <2>2. plugin[chosen] \in [Copied -> Present] /\ checkout \in [Copied -> Version]
    BY DEF InstallOnTrack
  <2>3. plugin[chosen] = checkout
    BY <2>1, <2>2
  <2>4. "manifest" \in Single /\ "manifest" \in Copied
    BY DEF Single, Copied
  <2>5. checkout["manifest"] \notin {0, CutShort}
    BY <2>2, <2>4, InstallAssumption DEF InstallOnTrack, Version, CutShort
  <2> QED
    BY <2>3, <2>5 DEF IsPluginRoot, InstallOnTrack
<1> QED
  BY <1>1, InstallGoesOn, PTL

(* An install is at one of its steps, and every file is of a release that has been or is     *)
(* cut short.                                                                   *)
THEOREM InstallTyping == InstallSpec => []InstallTypeOK
<1> DEFINE Steps == Single \union {"commands", "copying", "config", "writing config", "ok", "failed", "idle"}
           Going == /\ globalConfig \in {"none", "part", "default", "user"}
                    /\ removing \in BOOLEAN /\ stepAt \in Steps
<1>1. InstallInit => Going
  BY DEF InstallInit
<1>2. Going /\ [InstallNext]_installVars => Going'
  <2> SUFFICES ASSUME Going, [InstallNext]_installVars PROVE Going'
    OBVIOUS
  <2>1. CASE BeginInstall \/ SkipFile \/ EmptyFile \/ FillFile
    <3>1. stepAt \in Single => After(stepAt) \in Steps
      BY DEF Single, After
    <3>2. stepAt' \in Steps /\ UNCHANGED <<globalConfig, removing>>
      BY <2>1, <3>1 DEF BeginInstall, SkipFile, EmptyFile, FillFile, Single
    <3> QED
      BY <3>2
  <2>2. CASE SkipDirectory \/ StartRemoval \/ EndRemoval \/ EndDirectory
    BY <2>2 DEF SkipDirectory, StartRemoval, EndRemoval, EndDirectory
  <2>3. CASE RemoveEntry \/ CopyEntry
    BY <2>3 DEF RemoveEntry, CopyEntry
  <2>4. CASE EnsureGlobalConfig \/ WriteGlobalConfig
    BY <2>4 DEF EnsureGlobalConfig, WriteGlobalConfig
  <2>5. CASE KillInstall \/ UpdateCheckout
    BY <2>5 DEF KillInstall, UpdateCheckout
  <2>6. CASE UNCHANGED installVars
    BY <2>6 DEF installVars
  <2> QED
    BY <2>1, <2>2, <2>3, <2>4, <2>5, <2>6 DEF InstallNext
<1>3. Going /\ InstallOnTrack => InstallTypeOK
  BY DEF InstallOnTrack, InstallTypeOK, Present, Version
<1> QED
  BY <1>1, <1>2, <1>3, InstallGoesOn, PTL DEF InstallSpec

(***************************************************************************)
(* The launcher and the shell installers, for any number of invocations.   *)
(***************************************************************************)
(* From mkdir of the lock directory to its removal.                           *)
Owning == Holding \cup {"release", "pidGone"}

(* A pid that is written or was read is of an invocation that has begun, and who     *)
(* removes a lock for it was right to think it dead.                            *)
PidsAreOfTheBegun ==
  /\ pidFile # NoPid => at[pidFile].pc # "off"
  /\ \A p \in Invocation :
       /\ heard[p] # NoPid => at[heard[p]].pc # "off"
       /\ at[p].pc \in {"sweepDir", "takeDir"} =>
            heard[p] # NoPid /\ at[heard[p]].pc \in {"ended", "killed"}

(* Unless a lock was removed that had changed hands, who is between the mkdir of the  *)
(* lock directory and its own removal of it has made the one that is there.          *)
LockIsOwned ==
  ~handed => \A p \in Invocation : at[p].pc \in Owning => lockDir /\ maker = p

(* What is about to be published has passed the digest, or has been swept away.   *)
Digested ==
  \A p \in Invocation : at[p].pc = "publish" => download[p] \in {"none", "released"}

(* A count below its bound may go up by one.                                    *)
LEMMA NextPoll ==
  ASSUME NEW n \in Nat, NEW i \in 0..n, i # n
  PROVE  i + 1 \in 0..n
OBVIOUS

(* A step of an invocation keeps it in its role.                              *)
LEMMA Proceeding ==
  ASSUME at \in [Invocation -> Launch], NEW p \in Invocation, NEW from, NEW to,
         Proceed(p, from, to),
         [role |-> at[p].role, pc |-> to] \in Launch
  PROVE  at' \in [Invocation -> Launch]
<1> DEFINE next == [role |-> at[p].role, pc |-> to]
<1>1. at[p] \in Launch
  OBVIOUS
<1>2. [at[p] EXCEPT !.pc = to] = next
  BY <1>1 DEF Launch
<1>3. at' = [at EXCEPT ![p] = next]
  BY <1>2 DEF Proceed
<1>4. next \in Launch
  OBVIOUS
<1> QED
  BY <1>3, <1>4

(* The cache directory, the places and the counters keep their types, and an asset of *)
(* another digest is not published, whoever sweeps, takes the lock or dies.         *)
THEOREM Typing == BootSpec => [](BootTypeOK /\ Digested)
<1>1. BootInit => BootTypeOK /\ Digested
  <2> SUFFICES ASSUME BootInit PROVE BootTypeOK /\ Digested
    OBVIOUS
  <2>1. at \in [Invocation -> Launch]
    BY DEF BootInit, Launch, Over
  <2>2. polls \in [Invocation -> 0..LockPolls] /\ deaths \in 0..MaxDeaths
    BY BootstrapAssumption DEF BootInit
  <2> QED
    BY <2>1, <2>2 DEF BootInit, BootTypeOK, Digested
<1>2. BootTypeOK /\ Digested /\ [BootNext]_bootVars => BootTypeOK'
  <2> SUFFICES ASSUME BootTypeOK, Digested, [BootNext]_bootVars
               PROVE  BootTypeOK'
    OBVIOUS
  <2> USE BootstrapAssumption DEF BootTypeOK, Launch, Over, Holding, Proceed
  <2>1. ASSUME NEW p \in Invocation, Invoke(p) PROVE BootTypeOK'
    BY <2>1 DEF Invoke
  <2>2. ASSUME NEW p \in Invocation, ListDownloads(p) PROVE BootTypeOK'
    BY <2>2 DEF ListDownloads
  <2>3. ASSUME NEW p \in Invocation, SeeLock(p) PROVE BootTypeOK'
    BY <2>3 DEF SeeLock
  <2>4. ASSUME NEW p \in Invocation, PeekHolder(p) PROVE BootTypeOK'
    BY <2>4 DEF PeekHolder, Hear
  <2>21. ASSUME NEW p \in Invocation, ReadHolder(p) PROVE BootTypeOK'
    BY <2>21 DEF ReadHolder, Hear
  <2>22. ASSUME NEW p \in Invocation, JudgePeeked(p) PROVE BootTypeOK'
    <3>1. at' \in [Invocation -> Launch]
      BY <2>22, Proceeding DEF JudgePeeked
    <3>2. heard' \in [Invocation -> Invocation \cup {NoPid}]
      BY <2>22 DEF JudgePeeked, Hear
    <3> QED
      BY <2>22, <3>1, <3>2 DEF JudgePeeked
  <2>5. ASSUME NEW p \in Invocation, NEW q \in Invocation, Sweep(p, q) PROVE BootTypeOK'
    BY <2>5 DEF Sweep
  <2>6. ASSUME NEW p \in Invocation, RemoveLockDir(p) PROVE BootTypeOK'
    <3>1. at' \in [Invocation -> Launch]
      BY <2>6, Proceeding DEF RemoveLockDir
    <3> QED
      BY <2>6, <3>1 DEF RemoveLockDir, Hear
  <2>7. ASSUME NEW p \in Invocation, RemovePidFile(p) PROVE BootTypeOK'
    BY <2>7 DEF RemovePidFile
  <2>8. ASSUME NEW p \in Invocation, Resolve(p) PROVE BootTypeOK'
    <3>1. CASE \E to \in {"ended", "acquire"} : Proceed(p, "look", to)
      <4>1. at' \in [Invocation -> Launch]
        BY <3>1, Proceeding
      <4> QED
        BY <2>8, <4>1 DEF Resolve
    <3>2. CASE \E q \in Invocation : at' = [at EXCEPT ![p].pc = "ended",
                                                  ![q] = [role |-> "install", pc |-> "list"]]
      <4>1. at' \in [Invocation -> Launch]
        BY <3>2
      <4> QED
        BY <2>8, <4>1 DEF Resolve
    <3> QED
      BY <2>8, <3>1, <3>2 DEF Resolve
  <2>9. ASSUME NEW p \in Invocation, MakeLockDir(p) PROVE BootTypeOK'
    BY <2>9 DEF MakeLockDir
  <2>10. ASSUME NEW p \in Invocation, JudgeHolder(p) PROVE BootTypeOK'
    <3>1. at' \in [Invocation -> Launch]
      <4>1. \/ Proceed(p, "judge", "takeDir") \/ Proceed(p, "judge", "ended")
            \/ Proceed(p, "judge", "acquire")
        BY <2>10 DEF JudgeHolder
      <4> QED
        BY <4>1
    <3>2. polls[p] \in 0..LockPolls
      OBVIOUS
    <3>3. \/ polls' = polls
          \/ polls[p] # LockPolls /\ polls' = [polls EXCEPT ![p] = @ + 1]
      BY <2>10 DEF JudgeHolder
    <3>4. polls' \in [Invocation -> 0..LockPolls]
      <4>1. LockPolls \in Nat
        OBVIOUS
      <4>2. polls[p] # LockPolls => polls[p] + 1 \in 0..LockPolls
        BY <3>2, <4>1, NextPoll
      <4>3. CASE polls' = polls
        BY <4>3
      <4>4. CASE polls[p] # LockPolls /\ polls' = [polls EXCEPT ![p] = polls[p] + 1]
        <5> DEFINE next == polls[p] + 1
        <5>1. next \in 0..LockPolls
          BY <4>2, <4>4
        <5>2. polls \in [Invocation -> 0..LockPolls] /\ polls' = [polls EXCEPT ![p] = next]
          BY <4>4
        <5> HIDE DEF next
        <5> QED
          BY <5>1, <5>2
      <4> QED
        BY <3>3, <4>3, <4>4
    <3> QED
      BY <2>10, <3>1, <3>4 DEF JudgeHolder, Hear
  <2>11. ASSUME NEW p \in Invocation, WritePidFile(p) PROVE BootTypeOK'
    BY <2>11 DEF WritePidFile
  <2>12. ASSUME NEW p \in Invocation, Recheck(p) PROVE BootTypeOK'
    BY <2>12 DEF Recheck
  <2>13. ASSUME NEW p \in Invocation, MakeDownloadDir(p) PROVE BootTypeOK'
    BY <2>13 DEF MakeDownloadDir
  <2>14. ASSUME NEW p \in Invocation, Fetch(p) PROVE BootTypeOK'
    <3>1. at' \in [Invocation -> Launch]
      BY <2>14, Proceeding DEF Fetch
    <3>2. download' \in [Invocation -> {"none", "empty", "released", "other"}]
      BY <2>14 DEF Fetch
    <3> QED
      BY <2>14, <3>1, <3>2 DEF Fetch
  <2>15. ASSUME NEW p \in Invocation, CompareDigest(p) PROVE BootTypeOK'
    BY <2>15 DEF CompareDigest
  <2>16. ASSUME NEW p \in Invocation, PublishBinary(p) PROVE BootTypeOK'
    <3>1. at' \in [Invocation -> Launch]
      BY <2>16 DEF PublishBinary
    <3>2. /\ binary' \in {"none", "released", "other"}
          /\ download' \in [Invocation -> {"none", "empty", "released", "other"}]
      <4>1. CASE download[p] = "none"
        BY <2>16, <4>1 DEF PublishBinary
      <4>2. CASE download[p] # "none"
        <5>1. download[p] = "released"
          BY <2>16, <4>2 DEF PublishBinary, Digested
        <5>2. binary' = download[p] /\ download' = [download EXCEPT ![p] = "empty"]
          BY <2>16, <4>2 DEF PublishBinary
        <5> QED
          BY <5>1, <5>2
      <4> QED
        BY <4>1, <4>2
    <3> QED
      BY <2>16, <3>1, <3>2 DEF PublishBinary
  <2>17. ASSUME NEW p \in Invocation, RemoveDownloadDir(p) PROVE BootTypeOK'
    BY <2>17 DEF RemoveDownloadDir
  <2>18. ASSUME NEW p \in Invocation, ReleasePid(p) \/ ReleaseDir(p) PROVE BootTypeOK'
    <3>1. at' \in [Invocation -> Launch]
      BY <2>18, Proceeding DEF ReleasePid, ReleaseDir
    <3> QED
      BY <2>18, <3>1 DEF ReleasePid, ReleaseDir
  <2>19. ASSUME NEW p \in Invocation, Kill(p) PROVE BootTypeOK'
    BY <2>19 DEF Kill
  <2>20. CASE UNCHANGED bootVars
    BY <2>20 DEF bootVars
  <2> QED
    BY <2>1, <2>2, <2>3, <2>4, <2>5, <2>6, <2>7, <2>8, <2>9, <2>10, <2>11, <2>12, <2>13,
       <2>14, <2>15, <2>16, <2>17, <2>18, <2>19, <2>20, <2>21,
       <2>22 DEF BootNext
<1>3. BootTypeOK /\ Digested /\ [BootNext]_bootVars => Digested'
  <2> SUFFICES ASSUME BootTypeOK, Digested, [BootNext]_bootVars
               PROVE  Digested'
    OBVIOUS
  <2> USE DEF BootTypeOK, Digested, Proceed, Launch
  <2>1. ASSUME NEW p \in Invocation,
               Invoke(p) \/ ListDownloads(p) \/ SeeLock(p) \/ PeekHolder(p) \/ JudgePeeked(p)
                 \/ RemoveLockDir(p) \/ RemovePidFile(p) \/ Resolve(p) \/ MakeLockDir(p)
        PROVE  Digested'
    BY <2>1 DEF Invoke, ListDownloads, SeeLock, PeekHolder, JudgePeeked, RemoveLockDir,
                RemovePidFile, Resolve, MakeLockDir
  <2>2. ASSUME NEW p \in Invocation, NEW q \in Invocation, Sweep(p, q) PROVE Digested'
    BY <2>2 DEF Sweep
  <2>3. ASSUME NEW p \in Invocation,
               ReadHolder(p) \/ JudgeHolder(p) \/ WritePidFile(p) \/ Recheck(p)
        PROVE  Digested'
    BY <2>3 DEF ReadHolder, JudgeHolder, WritePidFile, Recheck
  <2>4. ASSUME NEW p \in Invocation, MakeDownloadDir(p) \/ Fetch(p) PROVE Digested'
    <3>1. at'[p].pc # "publish" /\ \A q \in Invocation \ {p} : at'[q] = at[q] /\ download'[q] = download[q]
      BY <2>4 DEF MakeDownloadDir, Fetch
    <3> QED
      BY <3>1
  <2>5. ASSUME NEW p \in Invocation, CompareDigest(p) PROVE Digested'
    BY <2>5 DEF CompareDigest
  <2>6. ASSUME NEW p \in Invocation, PublishBinary(p) \/ RemoveDownloadDir(p) PROVE Digested'
    BY <2>6 DEF PublishBinary, RemoveDownloadDir
  <2>7. ASSUME NEW p \in Invocation, ReleasePid(p) \/ ReleaseDir(p) \/ Kill(p) PROVE Digested'
    BY <2>7 DEF ReleasePid, ReleaseDir, Kill
  <2>8. CASE UNCHANGED bootVars
    BY <2>8 DEF bootVars
  <2> QED
    BY <2>1, <2>2, <2>3, <2>4, <2>5, <2>6, <2>7, <2>8 DEF BootNext
<1> QED
  BY <1>1, <1>2, <1>3, PTL DEF BootSpec

(* Nobody is off again who has begun, nor comes back who has ended or was killed; and   *)
(* only a holder that was judged has its lock removed.                            *)
LEMMA Onward ==
  ASSUME BootTypeOK, [BootNext]_bootVars, NEW q \in Invocation
  PROVE  /\ at[q].pc # "off" => at'[q].pc # "off"
         /\ at[q].pc \in {"ended", "killed"} => at'[q].pc \in {"ended", "killed"}
         /\ at'[q].pc \in {"sweepDir", "takeDir"} =>
              \/ at[q].pc = at'[q].pc /\ heard'[q] = heard[q]
              \/ HeardOfDead(q) /\ heard'[q] = heard[q]
<1> DEFINE Goal == /\ at[q].pc # "off" => at'[q].pc # "off"
                   /\ at[q].pc \in {"ended", "killed"} => at'[q].pc \in {"ended", "killed"}
                   /\ at'[q].pc \in {"sweepDir", "takeDir"} =>
                        \/ at[q].pc = at'[q].pc /\ heard'[q] = heard[q]
                        \/ HeardOfDead(q) /\ heard'[q] = heard[q]
<1>0. at \in [Invocation -> Launch] /\ heard \in [Invocation -> Invocation \cup {NoPid}]
  BY DEF BootTypeOK
<1> USE <1>0 DEF Launch, Proceed, Hear
<1>1. ASSUME NEW p \in Invocation, NEW r \in Invocation, Invoke(p) \/ Sweep(p, r) PROVE Goal
  BY <1>1 DEF Invoke, Sweep
<1>2. ASSUME NEW p \in Invocation, ListDownloads(p) \/ SeeLock(p) PROVE Goal
  BY <1>2 DEF ListDownloads, SeeLock
<1>3. ASSUME NEW p \in Invocation, RemovePidFile(p) \/ MakeLockDir(p) \/ WritePidFile(p)
      PROVE  Goal
  BY <1>3 DEF RemovePidFile, MakeLockDir, WritePidFile
<1>4. ASSUME NEW p \in Invocation, PeekHolder(p) \/ ReadHolder(p) \/ RemoveLockDir(p) PROVE Goal
  BY <1>4 DEF PeekHolder, ReadHolder, RemoveLockDir
<1>5. ASSUME NEW p \in Invocation, JudgePeeked(p) PROVE Goal
  BY <1>5 DEF JudgePeeked
<1>6. ASSUME NEW p \in Invocation, JudgeHolder(p) PROVE Goal
  BY <1>6 DEF JudgeHolder
<1>7. ASSUME NEW p \in Invocation, Resolve(p) PROVE Goal
  BY <1>7 DEF Resolve
<1>8. ASSUME NEW p \in Invocation,
             Recheck(p) \/ MakeDownloadDir(p) \/ Fetch(p) \/ CompareDigest(p)
      PROVE  Goal
  BY <1>8 DEF Recheck, MakeDownloadDir, Fetch, CompareDigest
<1>9. ASSUME NEW p \in Invocation,
             PublishBinary(p) \/ RemoveDownloadDir(p) \/ ReleasePid(p) \/ ReleaseDir(p)
      PROVE  Goal
  BY <1>9 DEF PublishBinary, RemoveDownloadDir, ReleasePid, ReleaseDir
<1>10. ASSUME NEW p \in Invocation, Kill(p) PROVE Goal
  BY <1>10 DEF Kill, PidAlive, Over
<1>11. CASE UNCHANGED bootVars
  BY <1>11 DEF bootVars
<1> QED
  BY <1>1, <1>2, <1>3, <1>4, <1>5, <1>6, <1>7, <1>8, <1>9, <1>10, <1>11 DEF BootNext

(* Every pid that is written or heard of is the file's as it was, an invocation's own,  *)
(* or none.                                                                *)
LEMMA Hearsay ==
  ASSUME BootTypeOK, [BootNext]_bootVars
  PROVE  /\ pidFile' \in {pidFile, NoPid} \cup {p \in Invocation : at[p].pc = "pid"}
         /\ \A q \in Invocation : heard'[q] \in {heard[q], pidFile, NoPid}
<1> USE DEF BootTypeOK
<1>1. ASSUME NEW p \in Invocation, PeekHolder(p) \/ ReadHolder(p) \/ RemoveLockDir(p)
                                   \/ JudgePeeked(p) \/ JudgeHolder(p)
      PROVE  pidFile' = pidFile /\ \A q \in Invocation : heard'[q] \in {heard[q], pidFile, NoPid}
  BY <1>1 DEF PeekHolder, ReadHolder, RemoveLockDir, JudgePeeked, JudgeHolder, Hear
<1>2. ASSUME NEW p \in Invocation, WritePidFile(p)
      PROVE  heard' = heard /\ pidFile' \in {q \in Invocation : at[q].pc = "pid"}
  BY <1>2 DEF WritePidFile, Proceed
<1>3. ASSUME NEW p \in Invocation,
             Invoke(p) \/ ListDownloads(p) \/ SeeLock(p) \/ RemovePidFile(p) \/ MakeLockDir(p)
               \/ Resolve(p) \/ Recheck(p) \/ MakeDownloadDir(p) \/ Fetch(p) \/ CompareDigest(p)
               \/ PublishBinary(p) \/ RemoveDownloadDir(p) \/ ReleasePid(p) \/ ReleaseDir(p) \/ Kill(p)
      PROVE  heard' = heard /\ pidFile' \in {pidFile, NoPid}
  BY <1>3 DEF Invoke, ListDownloads, SeeLock, RemovePidFile, MakeLockDir, Resolve, Recheck,
              MakeDownloadDir, Fetch, CompareDigest, PublishBinary, RemoveDownloadDir, ReleasePid,
              ReleaseDir, Kill
<1>4. ASSUME NEW p \in Invocation, NEW q \in Invocation, Sweep(p, q)
      PROVE  heard' = heard /\ pidFile' = pidFile
  BY <1>4 DEF Sweep
<1>5. CASE UNCHANGED bootVars
  BY <1>5 DEF bootVars
<1> QED
  BY <1>1, <1>2, <1>3, <1>4, <1>5 DEF BootNext

(* Every pid that an invocation reads is that of one that has begun, and a lock is    *)
(* removed only for the pid of a dead one; an invocation that is dead stays so.       *)
THEOREM Begun == BootSpec => []PidsAreOfTheBegun
<1>1. BootInit => PidsAreOfTheBegun
  BY BootstrapAssumption DEF BootInit, PidsAreOfTheBegun
<1>2. BootTypeOK /\ PidsAreOfTheBegun /\ [BootNext]_bootVars => PidsAreOfTheBegun'
  <2> SUFFICES ASSUME BootTypeOK, PidsAreOfTheBegun, [BootNext]_bootVars
               PROVE  PidsAreOfTheBegun'
    OBVIOUS
  <2>0. /\ pidFile \in Invocation \cup {NoPid}
        /\ \A q \in Invocation : heard[q] \in Invocation \cup {NoPid}
    BY DEF BootTypeOK
  <2>1. pidFile' # NoPid => at'[pidFile'].pc # "off"
    BY <2>0, Onward, Hearsay DEF PidsAreOfTheBegun
  <2>2. ASSUME NEW p \in Invocation, heard'[p] # NoPid PROVE at'[heard'[p]].pc # "off"
    BY <2>0, <2>2, Onward, Hearsay DEF PidsAreOfTheBegun
  <2>3. ASSUME NEW p \in Invocation, at'[p].pc \in {"sweepDir", "takeDir"}
        PROVE  heard'[p] # NoPid /\ at'[heard'[p]].pc \in {"ended", "killed"}
    <3>1. heard'[p] = heard[p] /\ (at[p].pc \in {"sweepDir", "takeDir"} \/ HeardOfDead(p))
      BY <2>3, Onward
    <3>2. heard[p] # NoPid /\ at[heard[p]].pc \in {"ended", "killed"}
      BY <2>0, <3>1 DEF PidsAreOfTheBegun, HeardOfDead, PidAlive, Over
    <3> QED
      BY <2>0, <3>1, <3>2, Onward
  <2> QED
    BY <2>1, <2>2, <2>3 DEF PidsAreOfTheBegun
<1> QED
  BY <1>1, <1>2, Typing, PTL DEF BootSpec

(* The lock directory that is there is that of the one who owns the lock, with its name *)
(* in the pid file or without, until one is removed that had changed hands.            *)
THEOREM Owned == BootSpec => []LockIsOwned
<1>1. BootInit => LockIsOwned
  BY DEF BootInit, LockIsOwned, Owning, Holding
<1>2. BootTypeOK /\ PidsAreOfTheBegun /\ LockIsOwned /\ [BootNext]_bootVars => LockIsOwned'
  <2> SUFFICES ASSUME BootTypeOK, PidsAreOfTheBegun, LockIsOwned, [BootNext]_bootVars
               PROVE  LockIsOwned'
    OBVIOUS
  <2>0. at \in [Invocation -> Launch] /\ lockDir \in BOOLEAN /\ handed \in BOOLEAN
    BY DEF BootTypeOK
  <2> USE <2>0 DEF LockIsOwned, Owning, Holding, Launch, Over, Proceed
  <2>1. ASSUME NEW p \in Invocation, Invoke(p) PROVE LockIsOwned'
    BY <2>1 DEF Invoke
  <2>2. ASSUME NEW p \in Invocation,
               ListDownloads(p) \/ SeeLock(p) \/ PeekHolder(p) \/ JudgePeeked(p)
        PROVE  LockIsOwned'
    BY <2>2 DEF ListDownloads, SeeLock, PeekHolder, JudgePeeked
  <2>3. ASSUME NEW p \in Invocation, NEW q \in Invocation, Sweep(p, q) PROVE LockIsOwned'
    BY <2>3 DEF Sweep
  <2>4. ASSUME NEW p \in Invocation, RemoveLockDir(p) PROVE LockIsOwned'
    <3> SUFFICES ASSUME ~handed', NEW q \in Invocation, at'[q].pc \in Owning
                 PROVE  FALSE
      BY DEF LockIsOwned
    <3>1. at[q].pc \in Owning /\ ~handed
      BY <2>4 DEF RemoveLockDir
    <3>2. lockDir /\ maker = q
      BY <3>1
    <3>3. heard[p] # NoPid /\ at[heard[p]].pc \in {"ended", "killed"}
      BY <2>4 DEF RemoveLockDir, PidsAreOfTheBegun
    <3>4. heard[p] = q
      BY <2>4, <3>2, <3>3 DEF RemoveLockDir
    <3> QED
      BY <3>1, <3>3, <3>4
  <2>5. ASSUME NEW p \in Invocation, Resolve(p) PROVE LockIsOwned'
    BY <2>5 DEF Resolve
  <2>6. ASSUME NEW p \in Invocation, MakeLockDir(p) PROVE LockIsOwned'
    BY <2>6 DEF MakeLockDir
  <2>7. ASSUME NEW p \in Invocation, ReadHolder(p) \/ JudgeHolder(p) \/ RemovePidFile(p)
        PROVE  LockIsOwned'
    BY <2>7 DEF ReadHolder, JudgeHolder, RemovePidFile
  <2>8. ASSUME NEW p \in Invocation, WritePidFile(p) PROVE LockIsOwned'
    BY <2>8 DEF WritePidFile
  <2>9. ASSUME NEW p \in Invocation, Recheck(p) \/ MakeDownloadDir(p) \/ Fetch(p)
        PROVE  LockIsOwned'
    BY <2>9 DEF Recheck, MakeDownloadDir, Fetch
  <2>10. ASSUME NEW p \in Invocation, CompareDigest(p) \/ PublishBinary(p) \/ RemoveDownloadDir(p)
         PROVE  LockIsOwned'
    BY <2>10 DEF CompareDigest, PublishBinary, RemoveDownloadDir
  <2>11. ASSUME NEW p \in Invocation, ReleasePid(p) PROVE LockIsOwned'
    BY <2>11 DEF ReleasePid
  <2>12. ASSUME NEW p \in Invocation, ReleaseDir(p) PROVE LockIsOwned'
    BY <2>12 DEF ReleaseDir
  <2>13. ASSUME NEW p \in Invocation, Kill(p) PROVE LockIsOwned'
    BY <2>13 DEF Kill
  <2>14. CASE UNCHANGED bootVars
    BY <2>14 DEF bootVars
  <2> QED
    BY <2>1, <2>2, <2>3, <2>4, <2>5, <2>6, <2>7, <2>8, <2>9, <2>10, <2>11, <2>12, <2>13, <2>14
       DEF BootNext
<1> QED
  BY <1>1, <1>2, Typing, Begun, PTL DEF BootSpec

(* One installer at a time is past acquireLock, whoever is killed, until a lock is     *)
(* removed that had changed hands between the read of its pid and the removal.        *)
THEOREM Exclusion == BootSpec => []OneInstaller
<1>1. LockIsOwned => OneInstaller
  BY DEF LockIsOwned, OneInstaller, Owning
<1> QED
  BY <1>1, Owned, PTL

(***************************************************************************)
(* Status.                                                                 *)
(***************************************************************************)
LogLine == {Total(j) : j \in {i \in Job : JobKind[i] = "logged"}}
             \union {Result(j) : j \in Job} \union {ErrorLine(j) : j \in Job}

Stages == {"locked", "opened", "walked", "embedding", "failed"}

(* What the log says of a job that is that far.                                   *)
Told(j, sofar) ==
  IF JobKind[j] = "logged" /\ sofar.counted THEN [done |-> sofar.done, total |-> FilesDone]
  ELSE Unknown

JobsTyped ==
  /\ now \in Nat
  /\ ran \subseteq Job
  /\ work \in [at : Stages \union {"none"}, counted : BOOLEAN, done : 0..FilesDone]
  /\ indexLog.lines \in Seq(LogLine)
  /\ indexLog.at \in Int /\ indexLog.at <= now
  /\ \/ holder = Free
     \/ /\ holder.job \in ran /\ holder.since \in Nat \ {0} /\ holder.since <= now
        /\ work.at \in Stages
  /\ work.at \in {"locked", "opened", "walked"} => ~work.counted
  /\ work.at = "embedding" => work.counted
  /\ ~work.counted => work.done = 0

(* The log of a job that has opened one is of this job, to the last line; that of one that   *)
(* has not is older than its lock.                                               *)
LogIsOfTheHolder ==
  holder # Free =>
    /\ work.at = "locked" => indexLog.at < holder.since
    /\ JobKind[holder.job] = "file" => work.at = "locked"
    /\ (JobKind[holder.job] = "logged" /\ work.at # "locked") =>
         /\ indexLog.at >= holder.since
         /\ Progress(indexLog.lines, PidOf[holder.job]) = Told(holder.job, work)

(* What status has read of a job that holds the lock still.                         *)
AskerIsAtIt ==
  /\ asker.phase \in {"idle", "lock", "pending", "log", "told"}
  /\ asker.phase \in {"lock", "pending", "log"} =>
       /\ asker.of \in ran /\ asker.pid = PidOf[asker.of]
       /\ holder.job = asker.of => asker.since = holder.since
  /\ (asker.phase = "log" /\ holder.job = asker.of) =>
       IF asker.upto.at = "locked" THEN ~asker.upto.counted
       ELSE work.at # "locked" /\ Progress(asker.lines, asker.pid) = Told(asker.of, asker.upto)

StatusOnTrack == JobsTyped /\ LogIsOfTheHolder /\ AskerIsAtIt /\ ProgressIsOfTheRun

LEMMA LogFields ==
  ASSUME NEW line \in LogLine
  PROVE  /\ line.kind \in {"total", "result", "error"}
         /\ line.kind = "total" =>
              /\ line.files \in Nat
              /\ \E j \in Job : JobKind[j] = "logged" /\ line.pid = PidOf[j]
  BY StatusAssumption DEF LogLine, Total, Result, ErrorLine

(* LastTotal finds a total if there is one, and no total comes after it.               *)
LEMMA LastTotalIs ==
  ASSUME NEW lines \in Seq(LogLine)
  PROVE  LET t == LastTotal(lines) IN
           \/ t = 0 /\ \A i \in DOMAIN lines : lines[i].kind # "total"
           \/ t \in DOMAIN lines /\ lines[t].kind = "total"
<1> DEFINE totals == {i \in DOMAIN lines : lines[i].kind = "total"}
<1>1. CASE totals = {}
  BY <1>1 DEF LastTotal
<1>2. CASE totals # {}
  <2>1. Len(lines) \in Nat /\ totals \in SUBSET (0..Len(lines))
    OBVIOUS
  <2>2. \E k \in totals : \A j \in totals : j <= k
    <3> HIDE DEF totals
    <3> QED
      BY <1>2, <2>1, LastOf
  <2>3. LastTotal(lines) = CHOOSE i \in totals : \A k \in totals : k <= i
    BY <1>2 DEF LastTotal
  <2>4. LastTotal(lines) \in totals
    <3> HIDE DEF totals
    <3> QED
      BY <2>2, <2>3
  <2> QED
    BY <2>4
<1> QED
  BY <1>1, <1>2

(* A line that is no total leaves the last total where it was.                       *)
LEMMA SameTotal ==
  ASSUME NEW lines \in Seq(LogLine), NEW line \in LogLine, line.kind # "total"
  PROVE  LastTotal(Append(lines, line)) = LastTotal(lines)
<1> DEFINE totals(l) == {i \in DOMAIN l : l[i].kind = "total"}
<1>1. totals(Append(lines, line)) = totals(lines)
  BY Len(lines) \in Nat
<1>2. \A l \in Seq(LogLine) :
        LastTotal(l) = IF totals(l) = {} THEN 0
                       ELSE CHOOSE i \in totals(l) : \A k \in totals(l) : k <= i
  BY DEF LastTotal
<1>3. Append(lines, line) \in Seq(LogLine)
  OBVIOUS
<1> HIDE DEF totals
<1> QED
  BY <1>1, <1>2, <1>3

LEMMA NewTotal ==
  ASSUME NEW lines \in Seq(LogLine), NEW line \in LogLine, line.kind = "total"
  PROVE  LastTotal(Append(lines, line)) = Len(lines) + 1
<1> DEFINE longer == Append(lines, line)
           totals == {i \in DOMAIN longer : longer[i].kind = "total"}
           last == CHOOSE i \in totals : \A k \in totals : k <= i
<1>1. /\ Len(lines) \in Nat /\ totals \subseteq 1..(Len(lines) + 1)
      /\ Len(lines) + 1 \in totals
  OBVIOUS
<1>2. LastTotal(longer) = last
  BY <1>1 DEF LastTotal
<1> HIDE DEF totals
<1>3. \A k \in totals : k <= Len(lines) + 1
  BY <1>1
<1>4. last \in totals /\ \A k \in totals : k <= last
  BY <1>1, <1>3
<1> HIDE DEF last
<1>5. last \in Nat /\ last <= Len(lines) + 1 /\ Len(lines) + 1 <= last
  BY <1>1, <1>3, <1>4
<1> QED
  BY <1>1, <1>2, <1>5

(* What a log says once a line is added: the total begins the count, a result adds to    *)
(* it, an error does not.                                                       *)
Results(lines, t) == {i \in DOMAIN lines : i > t /\ lines[i].kind = "result"}

LEMMA ResultsAreFew ==
  ASSUME NEW lines \in Seq(LogLine), NEW t \in Nat
  PROVE  IsFiniteSet(Results(lines, t)) /\ Cardinality(Results(lines, t)) \in Nat
<1>1. Len(lines) \in Nat /\ Results(lines, t) \subseteq 1..Len(lines)
  BY DEF Results
<1>2. IsFiniteSet(1..Len(lines))
  BY <1>1, FS_Interval
<1> QED
  BY <1>1, <1>2, FS_Subset, FS_CardinalityType

LEMMA ProgressIs ==
  ASSUME NEW lines \in Seq(LogLine), NEW pid
  PROVE  Progress(lines, pid) =
           LET t == LastTotal(lines) IN
             IF t = 0 \/ lines[t].pid # pid THEN Unknown
             ELSE [done |-> Cardinality(Results(lines, t)), total |-> lines[t].files]
  BY DEF Progress, Results

LEMMA TotalBegins ==
  ASSUME NEW lines \in Seq(LogLine), NEW j \in Job, JobKind[j] = "logged"
  PROVE  Progress(Append(lines, Total(j)), PidOf[j]) = [done |-> 0, total |-> FilesDone]
<1> DEFINE longer == Append(lines, Total(j))
<1>1. Total(j) \in LogLine /\ Total(j).kind = "total"
      /\ Total(j).pid = PidOf[j] /\ Total(j).files = FilesDone
  BY DEF LogLine, Total
<1>2. longer \in Seq(LogLine) /\ Len(lines) \in Nat /\ longer[Len(lines) + 1] = Total(j)
      /\ DOMAIN longer = 1..(Len(lines) + 1)
  BY <1>1
<1>3. LastTotal(longer) = Len(lines) + 1
  BY <1>1, NewTotal
<1> HIDE DEF longer
<1>4. Results(longer, Len(lines) + 1) = {}
  BY <1>2 DEF Results
<1>5. Cardinality(Results(longer, Len(lines) + 1)) = 0
  BY <1>4, FS_EmptySet
<1>6. Len(lines) + 1 # 0
  BY <1>2
<1>7. Progress(longer, PidOf[j]) =
        [done |-> Cardinality(Results(longer, Len(lines) + 1)), total |-> longer[Len(lines) + 1].files]
  BY <1>1, <1>2, <1>3, <1>6, ProgressIs
<1> QED
  BY <1>1, <1>2, <1>5, <1>7 DEF longer

LEMMA LineAdds ==
  ASSUME NEW lines \in Seq(LogLine), NEW line \in LogLine, line.kind # "total", NEW pid
  PROVE  LET before == Progress(lines, pid)
             after == Progress(Append(lines, line), pid)
         IN  \/ before = Unknown /\ after = Unknown
             \/ /\ before.done \in Nat /\ before.total \in Nat
                /\ after = [done |-> IF line.kind = "result" THEN before.done + 1 ELSE before.done,
                            total |-> before.total]
<1> DEFINE longer == Append(lines, line)
           t == LastTotal(lines)
<1>1. longer \in Seq(LogLine) /\ Len(lines) \in Nat /\ DOMAIN longer = 1..(Len(lines) + 1)
      /\ DOMAIN lines = 1..Len(lines)
      /\ longer[Len(lines) + 1] = line /\ \A i \in DOMAIN lines : longer[i] = lines[i]
  OBVIOUS
<1>2. LastTotal(longer) = t
  BY SameTotal
<1>3. t = 0 \/ t \in DOMAIN lines
  BY LastTotalIs
<1> HIDE DEF longer, t
<1>4. CASE t = 0 \/ lines[t].pid # pid
  <2>1. t = 0 \/ longer[t].pid # pid
    BY <1>1, <1>3, <1>4
  <2>2. Progress(lines, pid) = Unknown
    BY <1>4, ProgressIs DEF t
  <2>3. Progress(longer, pid) = Unknown
    BY <1>1, <1>2, <2>1, ProgressIs
  <2> QED
    BY <2>2, <2>3 DEF longer
<1>5. CASE t # 0 /\ lines[t].pid = pid
  <2>1. t \in DOMAIN lines /\ t \in Nat /\ longer[t] = lines[t]
    BY <1>1, <1>3, <1>5
  <2>2. Progress(lines, pid) = [done |-> Cardinality(Results(lines, t)), total |-> lines[t].files]
    BY <1>5, ProgressIs DEF t
  <2>3. Progress(longer, pid) = [done |-> Cardinality(Results(longer, t)), total |-> lines[t].files]
    BY <1>1, <1>2, <1>5, <2>1, ProgressIs
  <2>4. /\ IsFiniteSet(Results(lines, t)) /\ Cardinality(Results(lines, t)) \in Nat
        /\ Len(lines) + 1 \notin Results(lines, t)
    <3>1. Len(lines) + 1 \notin DOMAIN lines
      BY <1>1
    <3> QED
      BY <2>1, <3>1, ResultsAreFew DEF Results
  <2>5. Results(longer, t) =
          IF line.kind = "result" THEN Results(lines, t) \union {Len(lines) + 1} ELSE Results(lines, t)
    BY <1>1, <2>1 DEF Results
  <2>6. Cardinality(Results(longer, t)) =
          IF line.kind = "result" THEN Cardinality(Results(lines, t)) + 1 ELSE Cardinality(Results(lines, t))
    BY <2>4, <2>5, FS_AddElement
  <2>7. lines[t].files \in Nat
    BY <1>3, <1>5, <2>1, LastTotalIs, LogFields DEF t
  <2> QED
    BY <2>2, <2>3, <2>4, <2>6, <2>7 DEF longer
<1> QED
  BY <1>4, <1>5

(* A process that reports on a terminal has no total in the log.                     *)
LEMMA TerminalHasNoTotal ==
  ASSUME NEW lines \in Seq(LogLine), NEW j \in Job, JobKind[j] = "terminal"
  PROVE  Progress(lines, PidOf[j]) = Unknown
<1> DEFINE t == LastTotal(lines)
<1>1. t = 0 \/ (t \in DOMAIN lines /\ lines[t].kind = "total")
  BY LastTotalIs
<1>2. CASE t = 0
  BY <1>2, ProgressIs
<1>3. CASE t \in DOMAIN lines /\ lines[t].kind = "total"
  <2>1. lines[t] \in LogLine
    BY <1>3
  <2>2. PICK i \in Job : JobKind[i] = "logged" /\ lines[t].pid = PidOf[i]
    BY <1>3, <2>1, LogFields
  <2>3. lines[t].pid # PidOf[j]
    BY <2>2, StatusAssumption
  <2> QED
    BY <2>3, ProgressIs
<1> QED
  BY <1>1, <1>2, <1>3

(* A full index that writes to its log, or to the terminal, goes on.                  *)
LEMMA GoesOn ==
  ASSUME StatusOnTrack, NEW j \in Job, HoldsLock(j), FullIndex(j),
         work' \in [at : Stages \ {"locked"}, counted : BOOLEAN, done : 0..FilesDone],
         work'.at \in {"opened", "walked"} => ~work'.counted,
         work'.at = "embedding" => work'.counted,
         ~work'.counted => work'.done = 0,
         indexLog'.lines \in Seq(LogLine), indexLog'.at \in {indexLog.at, now},
         JobKind[j] = "logged" =>
           indexLog'.at = now /\ Progress(indexLog'.lines, PidOf[j]) = Told(j, work'),
         UNCHANGED <<now, ran, holder, pendingChild, asker>>
  PROVE  StatusOnTrack'
<1>1. holder.job = j /\ holder # Free /\ holder.since <= now /\ holder.since \in Nat \ {0}
  BY StatusAssumption DEF HoldsLock, StatusOnTrack, JobsTyped, Free
<1>2. JobsTyped'
  BY <1>1 DEF StatusOnTrack, JobsTyped, Stages, Free
<1>3. LogIsOfTheHolder'
  BY <1>1, <1>2 DEF LogIsOfTheHolder, FullIndex
<1>4. AskerIsAtIt'
  BY <1>1 DEF StatusOnTrack, AskerIsAtIt
<1>5. ProgressIsOfTheRun'
  BY DEF StatusOnTrack, ProgressIsOfTheRun
<1> QED
  BY <1>2, <1>3, <1>4, <1>5 DEF StatusOnTrack

LEMMA StatusFirst == StatusInit => StatusOnTrack
<1> SUFFICES ASSUME StatusInit PROVE StatusOnTrack
  OBVIOUS
<1>1. JobsTyped
  BY StatusAssumption DEF StatusInit, JobsTyped, NoWork, Stages
<1> QED
  BY <1>1 DEF StatusInit, StatusOnTrack, LogIsOfTheHolder, AskerIsAtIt, ProgressIsOfTheRun, Silent

LEMMA JobsGoOn ==
  ASSUME StatusOnTrack, NEW j \in Job,
         \/ OpenLog(j) \/ SkipInWalk(j) \/ EmbedTotal(j) \/ FileResult(j) \/ Fail(j)
  PROVE  StatusOnTrack'
<1>1. /\ HoldsLock(j) /\ FullIndex(j)
      /\ UNCHANGED <<now, ran, holder, pendingChild, asker>>
      /\ work.at # "none"
  <2>1. HoldsLock(j) /\ UNCHANGED <<now, ran, holder, pendingChild, asker>>
    BY DEF OpenLog, SkipInWalk, EmbedTotal, FileResult, Fail
  <2>2. holder.job = j /\ holder # Free
    BY <2>1, StatusAssumption DEF HoldsLock, Free
  <2>3. FullIndex(j)
    BY <2>2 DEF FullIndex, OpenLog, SkipInWalk, EmbedTotal, FileResult, Fail, StatusOnTrack,
                LogIsOfTheHolder
  <2> QED
    BY <2>1, <2>2, <2>3 DEF OpenLog, SkipInWalk, EmbedTotal, FileResult, Fail
<1>2. /\ work \in [at : Stages \union {"none"}, counted : BOOLEAN, done : 0..FilesDone]
      /\ work.at \in {"locked", "opened", "walked"} => ~work.counted
      /\ work.at = "embedding" => work.counted
      /\ ~work.counted => work.done = 0
      /\ indexLog.lines \in Seq(LogLine) /\ FilesDone \in Nat
  BY StatusAssumption DEF StatusOnTrack, JobsTyped
<1>3. JobKind[j] = "logged" /\ work.at # "locked" =>
        Progress(indexLog.lines, PidOf[j]) = Told(j, work)
  BY <1>1, StatusAssumption DEF StatusOnTrack, LogIsOfTheHolder, HoldsLock, Free
<1>4. /\ Result(j) \in LogLine /\ Result(j).kind = "result"
      /\ ErrorLine(j) \in LogLine /\ ErrorLine(j).kind = "error"
      /\ JobKind[j] = "logged" => Total(j) \in LogLine
  BY DEF LogLine, Result, ErrorLine, Total
<1>5. CASE OpenLog(j)
  <2>1. /\ work.at = "locked" /\ work' = [work EXCEPT !.at = "opened"]
        /\ indexLog' = IF JobKind[j] = "logged" THEN [at |-> now, lines |-> <<>>] ELSE indexLog
    BY <1>5 DEF OpenLog
  <2>2. Progress(<<>>, PidOf[j]) = Unknown
    BY DEF Progress, LastTotal
  <2>3. /\ work' \in [at : Stages \ {"locked"}, counted : BOOLEAN, done : 0..FilesDone]
        /\ ~work'.counted /\ work'.done = 0 /\ work'.at = "opened"
    BY <1>2, <2>1 DEF Stages
  <2>4. indexLog'.lines \in Seq(LogLine) /\ indexLog'.at \in {indexLog.at, now}
    BY <1>2, <2>1
  <2>5. JobKind[j] = "logged" =>
          indexLog'.at = now /\ Progress(indexLog'.lines, PidOf[j]) = Told(j, work')
    BY <2>1, <2>2, <2>3 DEF Told
  <2> QED
    BY <1>1, <2>3, <2>4, <2>5, GoesOn
<1>6. CASE SkipInWalk(j)
  <2>1. work.at = "opened" /\ work' = [work EXCEPT !.at = "walked"] /\ Log(j, Result(j))
    BY <1>6 DEF SkipInWalk
  <2>2. /\ work' \in [at : Stages \ {"locked"}, counted : BOOLEAN, done : 0..FilesDone]
        /\ ~work'.counted /\ work'.done = 0 /\ work'.at = "walked"
    BY <1>2, <2>1 DEF Stages
  <2>3. indexLog'.lines \in Seq(LogLine) /\ indexLog'.at \in {indexLog.at, now}
    BY <1>2, <1>4, <2>1 DEF Log
  <2>4. JobKind[j] = "logged" =>
          indexLog'.at = now /\ Progress(indexLog'.lines, PidOf[j]) = Told(j, work')
    <3> SUFFICES ASSUME JobKind[j] = "logged"
                 PROVE  indexLog'.at = now /\ Progress(indexLog'.lines, PidOf[j]) = Told(j, work')
      OBVIOUS
    <3>1. Progress(indexLog.lines, PidOf[j]) = Unknown
      BY <1>2, <1>3, <2>1 DEF Told
    <3>2. Unknown.total \notin Nat
      BY DEF Unknown
    <3>3. Progress(Append(indexLog.lines, Result(j)), PidOf[j]) = Unknown
      BY <1>2, <1>4, <3>1, <3>2, LineAdds
    <3> QED
      BY <2>1, <2>2, <3>3 DEF Log, Told
  <2> QED
    BY <1>1, <2>2, <2>3, <2>4, GoesOn
<1>7. CASE EmbedTotal(j)
  <2>1. /\ work.at \in {"opened", "walked"}
        /\ work' = [work EXCEPT !.at = "embedding", !.counted = TRUE] /\ Log(j, Total(j))
    BY <1>7 DEF EmbedTotal
  <2>2. /\ work' \in [at : Stages \ {"locked"}, counted : BOOLEAN, done : 0..FilesDone]
        /\ work'.counted /\ work'.done = 0 /\ work'.at = "embedding"
    BY <1>2, <2>1 DEF Stages
  <2>3. indexLog'.lines \in Seq(LogLine) /\ indexLog'.at \in {indexLog.at, now}
    BY <1>2, <1>4, <2>1 DEF Log
  <2>4. JobKind[j] = "logged" =>
          indexLog'.at = now /\ Progress(indexLog'.lines, PidOf[j]) = Told(j, work')
    BY <1>2, <2>1, <2>2, TotalBegins DEF Log, Told
  <2> QED
    BY <1>1, <2>2, <2>3, <2>4, GoesOn
<1>8. CASE FileResult(j)
  <2>1. /\ work.at = "embedding" /\ work.done < FilesDone
        /\ work' = [work EXCEPT !.done = @ + 1] /\ Log(j, Result(j))
    BY <1>8 DEF FileResult
  <2>2. /\ work' \in [at : Stages \ {"locked"}, counted : BOOLEAN, done : 0..FilesDone]
        /\ work.counted /\ work'.counted /\ work'.done = work.done + 1 /\ work'.at = "embedding"
    BY <1>2, <2>1 DEF Stages
  <2>3. indexLog'.lines \in Seq(LogLine) /\ indexLog'.at \in {indexLog.at, now}
    BY <1>2, <1>4, <2>1 DEF Log
  <2>4. JobKind[j] = "logged" =>
          indexLog'.at = now /\ Progress(indexLog'.lines, PidOf[j]) = Told(j, work')
    <3> SUFFICES ASSUME JobKind[j] = "logged"
                 PROVE  indexLog'.at = now /\ Progress(indexLog'.lines, PidOf[j]) = Told(j, work')
      OBVIOUS
    <3>1. Progress(indexLog.lines, PidOf[j]) = [done |-> work.done, total |-> FilesDone]
      BY <1>3, <2>1, <2>2 DEF Told
    <3>2. Progress(Append(indexLog.lines, Result(j)), PidOf[j])
            = [done |-> work.done + 1, total |-> FilesDone]
      BY <1>2, <1>4, <3>1, LineAdds DEF Unknown
    <3> QED
      BY <2>1, <2>2, <3>2 DEF Log, Told
  <2> QED
    BY <1>1, <2>2, <2>3, <2>4, GoesOn
<1>9. CASE Fail(j)
  <2>1. /\ work.at # "locked" /\ work' = [work EXCEPT !.at = "failed"]
        /\ indexLog' = [at |-> now, lines |-> Append(indexLog.lines, ErrorLine(j))]
    BY <1>9 DEF Fail
  <2>2. /\ work' \in [at : Stages \ {"locked"}, counted : BOOLEAN, done : 0..FilesDone]
        /\ work'.counted = work.counted /\ work'.done = work.done /\ work'.at = "failed"
    BY <1>2, <2>1 DEF Stages
  <2>3. indexLog'.lines \in Seq(LogLine) /\ indexLog'.at \in {indexLog.at, now}
    BY <1>2, <1>4, <2>1
  <2>4. JobKind[j] = "logged" =>
          indexLog'.at = now /\ Progress(indexLog'.lines, PidOf[j]) = Told(j, work')
    <3> SUFFICES ASSUME JobKind[j] = "logged"
                 PROVE  indexLog'.at = now /\ Progress(indexLog'.lines, PidOf[j]) = Told(j, work')
      OBVIOUS
    <3>1. Progress(indexLog.lines, PidOf[j]) = Told(j, work)
      BY <1>3, <2>1
    <3>2. \/ Told(j, work) = [done |-> work.done, total |-> FilesDone]
          \/ Told(j, work) = Unknown
      BY DEF Told
    <3>3. Progress(Append(indexLog.lines, ErrorLine(j)), PidOf[j]) = Told(j, work)
      BY <1>2, <1>4, <3>1, <3>2, LineAdds DEF Unknown
    <3> QED
      BY <2>1, <2>2, <3>3 DEF Told
  <2> QED
    BY <1>1, <1>2, <2>2, <2>3, <2>4, GoesOn
<1> QED
  BY <1>5, <1>6, <1>7, <1>8, <1>9

LEMMA JobsComeAndGo ==
  ASSUME StatusOnTrack, NEW j \in Job, TakeLock(j) \/ Release(j) \/ JobDies(j)
  PROVE  StatusOnTrack'
<1>1. CASE TakeLock(j)
  <2>1. /\ now' = now + 1 /\ ran' = ran \union {j} /\ j \notin ran
        /\ holder' = [job |-> j, since |-> now + 1]
        /\ work' = [at |-> "locked", counted |-> FALSE, done |-> 0]
        /\ UNCHANGED <<indexLog, asker>>
    BY <1>1 DEF TakeLock, NoWork
  <2>2. JobsTyped'
    BY <2>1, StatusAssumption DEF StatusOnTrack, JobsTyped, Stages
  <2>3. LogIsOfTheHolder'
    BY <2>1 DEF StatusOnTrack, JobsTyped, LogIsOfTheHolder
  <2>4. AskerIsAtIt'
    BY <2>1 DEF StatusOnTrack, AskerIsAtIt
  <2> QED
    BY <2>1, <2>2, <2>3, <2>4 DEF StatusOnTrack, ProgressIsOfTheRun
<1>2. CASE Release(j) \/ JobDies(j)
  <2>1. /\ holder' = Free /\ work' = NoWork /\ ran \subseteq ran' /\ ran' \subseteq Job
        /\ UNCHANGED <<now, indexLog, asker>>
    BY <1>2 DEF Release, JobDies, StatusOnTrack, JobsTyped
  <2>2. JobsTyped'
    BY <2>1, StatusAssumption DEF StatusOnTrack, JobsTyped, NoWork
  <2>3. AskerIsAtIt'
    BY <2>1, StatusAssumption DEF StatusOnTrack, AskerIsAtIt, JobsTyped, Free
  <2> QED
    BY <2>1, <2>2, <2>3 DEF StatusOnTrack, ProgressIsOfTheRun, LogIsOfTheHolder
<1> QED
  BY <1>1, <1>2

LEMMA Asking ==
  ASSUME StatusOnTrack, ReadLock \/ ReadPending \/ ReadLog \/ Tell \/ StatusDone
  PROVE  StatusOnTrack'
<1>1. UNCHANGED <<now, ran, holder, work, indexLog>>
  BY DEF ReadLock, ReadPending, ReadLog, Tell, StatusDone
<1>2. JobsTyped' /\ LogIsOfTheHolder'
  BY <1>1 DEF StatusOnTrack, JobsTyped, LogIsOfTheHolder
<1>3. AskerIsAtIt' /\ ProgressIsOfTheRun'
  <2>1. CASE ReadLock
    <3>1. asker' = [phase |-> "lock", pid |-> PidOf[holder.job], since |-> holder.since,
                    of |-> holder.job] /\ holder # Free
      BY <2>1 DEF ReadLock
    <3> QED
      BY <1>1, <3>1 DEF AskerIsAtIt, ProgressIsOfTheRun, StatusOnTrack, JobsTyped
  <2>2. CASE ReadPending
    BY <1>1, <2>2 DEF ReadPending, AskerIsAtIt, ProgressIsOfTheRun, StatusOnTrack
  <2>3. CASE ReadLog
    <3>1. /\ asker.phase = "pending"
          /\ asker' = [phase |-> "log", pid |-> asker.pid, since |-> asker.since, of |-> asker.of,
                       started |-> asker.started, lines |-> indexLog.lines, upto |-> work]
      BY <2>3 DEF ReadLog
    <3>2. /\ asker.of \in Job /\ asker.pid = PidOf[asker.of] /\ indexLog.lines \in Seq(LogLine)
          /\ work.at = "locked" => ~work.counted
      BY <3>1 DEF StatusOnTrack, AskerIsAtIt, JobsTyped
    <3>3. ASSUME holder.job = asker.of, work.at # "locked"
          PROVE  Progress(indexLog.lines, asker.pid) = Told(asker.of, work)
      <4>1. holder # Free
        BY <3>2, <3>3, StatusAssumption DEF Free
      <4>2. JobKind[asker.of] \in {"logged", "terminal"}
        BY <3>2, <3>3, <4>1, StatusAssumption DEF StatusOnTrack, LogIsOfTheHolder
      <4>3. CASE JobKind[asker.of] = "logged"
        BY <3>2, <3>3, <4>1, <4>3 DEF StatusOnTrack, LogIsOfTheHolder
      <4>4. CASE JobKind[asker.of] = "terminal"
        BY <3>2, <4>4, TerminalHasNoTotal DEF Told
      <4> QED
        BY <4>2, <4>3, <4>4
    <3> QED
      BY <1>1, <3>1, <3>2, <3>3 DEF StatusOnTrack, AskerIsAtIt, ProgressIsOfTheRun
  <2>4. CASE Tell
    <3>1. /\ asker.phase = "log"
          /\ asker' = [phase |-> "told", of |-> asker.of, upto |-> asker.upto,
                       started |-> asker.started, raced |-> holder.job # asker.of,
                       renewed |-> asker.upto.at = "locked" /\ work.at # "locked",
                       says |-> IF LogBelongsToRun THEN Progress(asker.lines, asker.pid) ELSE Unknown]
      BY <2>4 DEF Tell
    <3>2. ASSUME holder.job = asker.of, ~(asker.upto.at = "locked" /\ work.at # "locked")
          PROVE  (IF LogBelongsToRun THEN Progress(asker.lines, asker.pid) ELSE Unknown)
                   = Told(asker.of, asker.upto)
      <4>1. /\ asker.of \in Job /\ holder # Free /\ asker.since = holder.since
            /\ asker.pid = PidOf[asker.of]
        BY <3>1, <3>2, StatusAssumption DEF StatusOnTrack, AskerIsAtIt, JobsTyped, Free
      <4>2. CASE asker.upto.at = "locked"
        <5>1. indexLog.at < asker.since /\ ~asker.upto.counted
          BY <3>1, <3>2, <4>1, <4>2 DEF StatusOnTrack, LogIsOfTheHolder, AskerIsAtIt
        <5>2. ~LogBelongsToRun
          BY <4>1, <5>1 DEF LogBelongsToRun, StatusOnTrack, JobsTyped
        <5> QED
          BY <5>1, <5>2 DEF Told
      <4>3. CASE asker.upto.at # "locked"
        <5>1. work.at # "locked" /\ Progress(asker.lines, asker.pid) = Told(asker.of, asker.upto)
          BY <3>1, <3>2, <4>3 DEF StatusOnTrack, AskerIsAtIt
        <5>2. JobKind[asker.of] = "logged" => LogBelongsToRun
          BY <3>2, <4>1, <5>1 DEF LogBelongsToRun, StatusOnTrack, LogIsOfTheHolder, JobsTyped
        <5>3. JobKind[asker.of] # "logged" => Told(asker.of, asker.upto) = Unknown
          BY DEF Told
        <5> QED
          BY <5>1, <5>2, <5>3
      <4> QED
        BY <4>2, <4>3
    <3> QED
      BY <3>1, <3>2 DEF AskerIsAtIt, ProgressIsOfTheRun, Told
  <2>5. CASE StatusDone
    BY <2>5 DEF StatusDone, Silent, AskerIsAtIt, ProgressIsOfTheRun
  <2> QED
    BY <2>1, <2>2, <2>3, <2>4, <2>5
<1> QED
  BY <1>2, <1>3 DEF StatusOnTrack

LEMMA StatusGoesOn == StatusSpec => []StatusOnTrack
<1>1. StatusInit => StatusOnTrack
  BY StatusFirst
<1>2. StatusOnTrack /\ [StatusNext]_statusVars => StatusOnTrack'
  <2> SUFFICES ASSUME StatusOnTrack, [StatusNext]_statusVars PROVE StatusOnTrack'
    OBVIOUS
  <2>1. CASE StatusNext
    BY <2>1, JobsGoOn, JobsComeAndGo, Asking DEF StatusNext
  <2>2. CASE UNCHANGED statusVars
    BY <2>2 DEF statusVars, StatusOnTrack, JobsTyped, LogIsOfTheHolder, AskerIsAtIt,
                ProgressIsOfTheRun
  <2> QED
    BY <2>1, <2>2
<1> QED
  BY <1>1, <1>2, PTL DEF StatusSpec

(* ProgressIsOfTheRun (MCFiles' part "status"): for any jobs, on any processes of which     *)
(* those that report on a terminal run one each, and any number of files.               *)
THEOREM TellsOfTheRun == StatusSpec => []ProgressIsOfTheRun
<1>1. StatusOnTrack => ProgressIsOfTheRun
  BY DEF StatusOnTrack
<1> QED
  BY <1>1, StatusGoesOn, PTL

(* The clock has moved once for each job that has run, and nothing was written after it.    *)
THEOREM StatusTyping == StatusSpec => []StatusTypeOK
<1> DEFINE Clock == now \in Nat /\ ran \subseteq Job /\ now <= Cardinality(ran)
<1>1. StatusInit => Clock
  BY FS_EmptySet DEF StatusInit
<1>2. Clock /\ [StatusNext]_statusVars => Clock'
  <2> SUFFICES ASSUME Clock, [StatusNext]_statusVars PROVE Clock'
    OBVIOUS
  <2>1. IsFiniteSet(Job) /\ IsFiniteSet(ran) /\ Cardinality(ran) \in Nat
    BY StatusAssumption, FS_Subset, FS_CardinalityType
  <2>2. ASSUME NEW j \in Job, TakeLock(j) PROVE Clock'
    <3>1. j \notin ran /\ now' = now + 1 /\ ran' = ran \union {j}
      BY <2>2 DEF TakeLock
    <3>2. Cardinality(ran') = Cardinality(ran) + 1
      BY <2>1, <3>1, FS_AddElement
    <3> QED
      BY <2>1, <3>1, <3>2
  <2>3. ASSUME NEW j \in Job, JobDies(j) PROVE Clock'
    <3>1. now' = now /\ ran \in SUBSET ran' /\ ran' \in SUBSET Job
      BY <2>3 DEF JobDies
    <3>2. IsFiniteSet(ran') /\ Cardinality(ran') \in Nat
      BY <2>1, <3>1, FS_Subset, FS_CardinalityType
    <3>3. Cardinality(ran) <= Cardinality(ran')
      BY <3>1, <3>2, FS_Subset
    <3> QED
      BY <2>1, <3>1, <3>2, <3>3
  <2>4. ASSUME UNCHANGED <<now, ran>> PROVE Clock'
    BY <2>4
  <2> QED
    BY <2>2, <2>3, <2>4 DEF StatusNext, ReadLock, ReadPending, ReadLog, Tell, StatusDone, OpenLog,
                            SkipInWalk, EmbedTotal, FileResult, Fail, Release, statusVars
<1>3. Clock /\ StatusOnTrack => StatusTypeOK
  <2> SUFFICES ASSUME Clock, StatusOnTrack PROVE StatusTypeOK
    OBVIOUS
  <2>1. now \in 0..Cardinality(Job)
    <3>1. /\ IsFiniteSet(Job) /\ ran \in SUBSET Job
          /\ IsFiniteSet(ran) /\ Cardinality(ran) \in Nat /\ Cardinality(Job) \in Nat
      BY StatusAssumption, FS_Subset, FS_CardinalityType
    <3>2. Cardinality(ran) <= Cardinality(Job)
      BY <3>1, FS_Subset
    <3> QED
      BY <3>1, <3>2
  <2>2. holder.job \in Job \union {NoJob} /\ holder.since <= now
    BY DEF StatusOnTrack, JobsTyped, Free
  <2>3. work.done \in 0..FilesDone
    BY DEF StatusOnTrack, JobsTyped
  <2> QED
    BY <2>1, <2>2, <2>3 DEF StatusTypeOK, StatusOnTrack, JobsTyped, AskerIsAtIt
<1> QED
  BY <1>1, <1>2, <1>3, StatusGoesOn, PTL DEF StatusSpec
=============================================================================
