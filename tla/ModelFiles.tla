------------------------------ MODULE ModelFiles ------------------------------
(***************************************************************************)
(* The cache of the bundled embedding models, shared by every claudix process  *)
(* of a user: each process that builds a provider checks the two assets by        *)
(* their length, downloads what it lacks to a temporary file, hashes it off the   *)
(* disk and renames it into place (embedding/bundled.rs).                      *)
(*                                                                         *)
(* A path names an inode, an open file is written at the writer's own offset,     *)
(* a rename moves the inode with whoever still writes it.  An inode has its        *)
(* length in blocks and whether a block of it is not the asset's.               *)
(***************************************************************************)
EXTENDS Naturals, FiniteSets

CONSTANTS
  Fetcher,   \* processes that build a bundled provider
  Asset,     \* 0 .. n - 1, fetched in this order
  Blocks,    \* the length of an asset
  MaxBreaks  \* bound: failed transfers, damaged files and processes that die

ASSUME FilesAssumption ==
  /\ IsFiniteSet(Fetcher) /\ IsFiniteSet(Asset)
  /\ Asset # {} /\ Asset = 0..Cardinality(Asset) - 1
  /\ Blocks \in Nat \ {0}
  /\ MaxBreaks \in Nat

VARIABLES
  inode,    \* what is on the disk under each inode
  temp,     \* the inode of each temporary path
  dest,     \* the inode of each asset
  fetcher,  \* where each process is
  breaks

fileVars == <<inode, temp, dest, fetcher, breaks>>

(* As many as may be named or open at a time.                                  *)
Inode == 1..(Cardinality(Fetcher) + 1) * Cardinality(Asset)
NoInode == 0
Path == Fetcher \X Asset
Whole == [length |-> Blocks, bad |-> FALSE]

FilesTypeOK ==
  /\ inode \in [Inode -> [length : 0..Blocks, bad : BOOLEAN]]
  /\ temp \in [Path -> Inode \cup {NoInode}]
  /\ dest \in [Asset -> Inode \cup {NoInode}]
  /\ fetcher \in [Fetcher -> [at : {"idle", "check", "fetch", "hash", "rename", "purge",
                                    "loaded", "failed", "dead"},
                              asset : Asset, offset : 0..Blocks, open : Inode \cup {NoInode}]]
  /\ \A p \in Fetcher : fetcher[p].at = "fetch" <=> fetcher[p].open # NoInode
  /\ breaks \in 0..MaxBreaks

FilesInit ==
  /\ inode = [i \in Inode |-> [length |-> 0, bad |-> FALSE]]
  /\ temp = [t \in Path |-> NoInode]
  /\ dest = [a \in Asset |-> NoInode]
  /\ fetcher = [p \in Fetcher |-> [at |-> "idle", asset |-> 0, offset |-> 0, open |-> NoInode]]
  /\ breaks = 0

At(p, l) == fetcher[p].at = l
FetcherGoto(p, l) == fetcher' = [fetcher EXCEPT ![p].at = l]

(* download_temp_path: the process id and a counter keep downloads apart.          *)
TempPath(p, a) == <<p, a>>

FreeInode ==
  CHOOSE i \in Inode : /\ \A t \in Path : temp[t] # i
                       /\ \A a \in Asset : dest[a] # i
                       /\ \A p \in Fetcher : fetcher[p].open # i

-----------------------------------------------------------------------------
Begin(p) ==
  /\ At(p, "idle")
  /\ FetcherGoto(p, "check")
  /\ UNCHANGED <<inode, temp, dest, breaks>>

(* is_cached: the length alone.  An asset that is there leads to the next one.     *)
IsCached(a) == dest[a] # NoInode /\ inode[dest[a]].length = Blocks

NextAsset(p) ==
  IF fetcher[p].asset + 1 \in Asset
  THEN [fetcher EXCEPT ![p].at = "check", ![p].asset = @ + 1]
  ELSE [fetcher EXCEPT ![p].at = "purge"]

Cached(p) ==
  /\ At(p, "check")
  /\ IsCached(fetcher[p].asset)
  /\ fetcher' = NextAsset(p)
  /\ UNCHANGED <<inode, temp, dest, breaks>>

(* File::create: a file that is at the path is emptied, not replaced.             *)
CreateTemp(p) ==
  /\ At(p, "check")
  /\ ~IsCached(fetcher[p].asset)
  /\ LET t == TempPath(p, fetcher[p].asset)
         i == IF temp[t] # NoInode THEN temp[t] ELSE FreeInode
     IN /\ temp' = [temp EXCEPT ![t] = i]
        /\ inode' = [inode EXCEPT ![i] = [length |-> 0, bad |-> FALSE]]
        /\ fetcher' = [fetcher EXCEPT ![p].at = "fetch", ![p].open = i, ![p].offset = 0]
  /\ UNCHANGED <<dest, breaks>>

(* A block of the response lands at the writer's offset; what lies between it and  *)
(* the end of the file is a hole.                                            *)
WriteBlock(p) ==
  /\ At(p, "fetch")
  /\ fetcher[p].offset < Blocks
  /\ LET i == fetcher[p].open
         at == fetcher[p].offset
     IN inode' = [inode EXCEPT ![i] =
          [length |-> IF @.length > at THEN @.length ELSE at + 1,
           bad |-> @.bad \/ at > @.length]]
  /\ fetcher' = [fetcher EXCEPT ![p].offset = @ + 1]
  /\ UNCHANGED <<temp, dest, breaks>>

CloseTemp(p) ==
  /\ At(p, "fetch")
  /\ fetcher[p].offset = Blocks
  /\ fetcher' = [fetcher EXCEPT ![p].at = "hash", ![p].open = NoInode, ![p].offset = 0]
  /\ UNCHANGED <<inode, temp, dest, breaks>>

(* The transfer ends early, or the disk does not hold what was written.            *)
Break(p) ==
  /\ At(p, "fetch")
  /\ breaks < MaxBreaks
  /\ breaks' = breaks + 1
  /\ \/ fetcher' = [fetcher EXCEPT ![p].at = "failed", ![p].open = NoInode, ![p].offset = 0]
        /\ temp' = [temp EXCEPT ![TempPath(p, fetcher[p].asset)] = NoInode]
        /\ UNCHANGED inode
     \/ inode' = [inode EXCEPT ![fetcher[p].open].bad = TRUE]
        /\ UNCHANGED <<fetcher, temp>>
  /\ UNCHANGED dest

(* Mutant: the digest of the stream stands for that of the file. *)
HashStream(p) ==
  /\ At(p, "hash")
  /\ FetcherGoto(p, "rename")
  /\ UNCHANGED <<inode, temp, dest, breaks>>

(* file_sha256 reads the temporary path; a mismatch unlinks it.                    *)
Hash(p) ==
  /\ At(p, "hash")
  /\ LET t == TempPath(p, fetcher[p].asset) IN
       IF temp[t] # NoInode /\ inode[temp[t]] = Whole
       THEN FetcherGoto(p, "rename") /\ UNCHANGED temp
       ELSE FetcherGoto(p, "failed") /\ temp' = [temp EXCEPT ![t] = NoInode]
  /\ UNCHANGED <<inode, dest, breaks>>

Publish(p) ==
  /\ At(p, "rename")
  /\ LET t == TempPath(p, fetcher[p].asset) IN
       IF temp[t] = NoInode
       THEN FetcherGoto(p, "failed") /\ UNCHANGED <<temp, dest>>
       ELSE /\ dest' = [dest EXCEPT ![fetcher[p].asset] = temp[t]]
            /\ temp' = [temp EXCEPT ![t] = NoInode]
            /\ fetcher' = NextAsset(p)
  /\ UNCHANGED <<inode, breaks>>

(* Both assets are there: legacy names go and the provider is built.  One that was  *)
(* removed meanwhile is an error.                                            *)
Load(p) ==
  /\ At(p, "purge")
  /\ FetcherGoto(p, IF \E a \in Asset : dest[a] = NoInode THEN "failed" ELSE "loaded")
  /\ UNCHANGED <<inode, temp, dest, breaks>>

(* A new provider is asked for.                                              *)
Retry(p) ==
  /\ fetcher[p].at \in {"failed", "loaded"}
  /\ breaks < MaxBreaks
  /\ fetcher' = [fetcher EXCEPT ![p].at = "check", ![p].asset = 0]
  /\ UNCHANGED <<inode, temp, dest, breaks>>

(* A killed process leaves its temporary file, and another gets it never.          *)
Killed(p) ==
  /\ fetcher[p].at \notin {"idle", "loaded", "failed", "dead"}
  /\ breaks < MaxBreaks
  /\ breaks' = breaks + 1
  /\ fetcher' = [fetcher EXCEPT ![p] = [@ EXCEPT !.at = "dead", !.open = NoInode, !.offset = 0]]
  /\ UNCHANGED <<inode, temp, dest>>

(* Something truncates a published asset.                                     *)
Truncated(a) ==
  /\ dest[a] # NoInode
  /\ breaks < MaxBreaks
  /\ breaks' = breaks + 1
  /\ inode' = [inode EXCEPT ![dest[a]].length = 0]
  /\ UNCHANGED <<temp, dest, fetcher>>

FetchStep(p) ==
  \/ Begin(p) \/ Cached(p) \/ CreateTemp(p) \/ WriteBlock(p) \/ CloseTemp(p) \/ Break(p)
  \/ Hash(p) \/ Publish(p) \/ Load(p) \/ Retry(p) \/ Killed(p)

FilesNext == (\E p \in Fetcher : FetchStep(p)) \/ (\E a \in Asset : Truncated(a))

FilesSpec == FilesInit /\ [][FilesNext]_fileVars

-----------------------------------------------------------------------------
(* bundled.rs:478-485, "the bytes under this name were hashed off the disk they now   *)
(* sit on before being published": a published asset of the right length is the       *)
(* pinned one, with any processes downloading at once, dying and retrying.            *)
PublishedIsVerified ==
  \A a \in Asset : IsCached(a) => inode[dest[a]] = Whole
=============================================================================
