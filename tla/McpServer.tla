------------------------------ MODULE McpServer ------------------------------
(***************************************************************************)
(* The MCP server: its tool calls are tasks of one thread (the LocalSet of     *)
(* mcp::run) that give way where they await, and they share one process id.   *)
(* The index lock, which tells holders apart by process id alone, is therefore *)
(* the server's for every task of it: a reindex of one path blocks the whole    *)
(* thread on it, an index is refused, and a forced clear finds no holder to stop, *)
(* whether the lock is free or its own, and holds nothing while it drops.       *)
(*                                                                         *)
(* A step is what a task does between two awaits.  Another process may hold     *)
(* the lock; what it writes is in IndexStore, how a claim goes in IndexLock.    *)
(* Every file has chunks, and nothing dies here but a holder that a clear kills. *)
(***************************************************************************)
EXTENDS Naturals, FiniteSets

CONSTANTS
  Call,       \* tool calls in flight
  File,
  WaitPolls,  \* REINDEX_LOCK_WAIT_MS in polls
  MaxEdits,   \* bound: changes of files
  MaxOther,   \* bound: claims of another process
  None

ASSUME ServerAssumption ==
  /\ IsFiniteSet(File)
  /\ WaitPolls \in Nat \ {0}
  /\ {MaxEdits, MaxOther} \subseteq Nat
  /\ None \notin {"server", "other"}

VARIABLES
  call,     \* where each tool call is
  lock,     \* the process in index.lock
  polls,    \* the sleeps of the task that blocks the thread
  rows,     \* the files with rows in the table
  manifest, \* the files it has hashes of, and its row count
  dirty,    \* the files whose content is not the one hashed
  warned,   \* warned_degraded
  edits, others

store == <<rows, manifest, dirty>>
vars == <<call, lock, polls, store, warned, edits, others>>

Idle == [at |-> "idle"]
At(l) == {c \in Call : call[c].at = l}
Blocked == At("poll") # {}
NoManifest == [hashed |-> {}, count |-> 0]

(* The calls between a claim and the release of its guard.                     *)
Writing == {c \in Call : call[c].at \in {"compare", "fill", "delete", "append", "tally"}}

TypeOK ==
  /\ call \in [Call -> {Idle}
                 \cup [at : {"search", "clear", "drop", "reset", "claim", "compare"}]
                 \cup [at : {"fill"}, todo : SUBSET File, snap : SUBSET File]
                 \cup [at : {"file", "poll", "delete", "append", "tally"}, file : File]]
  /\ lock \in {"server", "other", None}
  /\ polls \in 0..WaitPolls
  /\ Blocked => Cardinality(At("poll")) = 1
  /\ ~Blocked => polls = 0
  /\ Writing # {} => lock = "server"
  /\ rows \subseteq File
  /\ manifest \in [hashed : SUBSET File, count : 0..Cardinality(File)]
  /\ dirty \subseteq File
  /\ warned \in BOOLEAN
  /\ edits \in 0..MaxEdits
  /\ others \in 0..MaxOther

Init ==
  /\ call = [c \in Call |-> Idle]
  /\ lock = None
  /\ polls = 0
  /\ \/ rows = {} /\ manifest = NoManifest
     \/ rows = File /\ manifest = [hashed |-> File, count |-> Cardinality(File)]
  /\ dirty = {}
  /\ warned = FALSE
  /\ edits = 0
  /\ others = 0

Goto(c, to) == call' = [call EXCEPT ![c] = to]

-----------------------------------------------------------------------------
Edit(f) ==
  /\ edits < MaxEdits
  /\ edits' = edits + 1
  /\ dirty' = dirty \cup {f}
  /\ UNCHANGED <<call, lock, polls, rows, manifest, warned, others>>

(* Another process claims the lock, or releases it.                          *)
OtherClaims ==
  /\ others < MaxOther
  /\ lock = None
  /\ lock' = "other"
  /\ others' = others + 1
  /\ UNCHANGED <<call, polls, store, warned, edits>>

OtherReleases ==
  /\ lock = "other"
  /\ lock' = None
  /\ UNCHANGED <<call, polls, store, warned, edits, others>>

(* A request arrives: search_code, reindex of a path, of all, of all by force.  *)
Arrive(c) ==
  /\ ~Blocked
  /\ call[c] = Idle
  /\ \/ \E l \in {"search", "claim", "clear"} : Goto(c, [at |-> l])
     \/ \E f \in File : Goto(c, [at |-> "file", file |-> f])
  /\ UNCHANGED <<lock, polls, store, warned, edits, others>>

(* search_code: the notice of a degraded search goes out once.                 *)
SearchCode(c) ==
  /\ ~Blocked
  /\ call[c].at = "search"
  /\ Goto(c, Idle)
  /\ \E degraded \in BOOLEAN : warned' = (warned \/ degraded)
  /\ UNCHANGED <<lock, polls, store, edits, others>>

-----------------------------------------------------------------------------
(* run_reindex_file: the claim polls with thread::sleep, so that from its first  *)
(* look on no other task of the server moves.                                *)
ClaimOrPoll(c) ==
  /\ ~Blocked
  /\ call[c].at = "file"
  /\ IF lock = None
     THEN lock' = "server" /\ Goto(c, [call[c] EXCEPT !.at = "delete"])
     ELSE UNCHANGED lock /\ Goto(c, [call[c] EXCEPT !.at = "poll"])
  /\ UNCHANGED <<polls, store, warned, edits, others>>

(* Mutant: the server's own process id counts as a dead holder's. *)
PollTakesOwn(c) ==
  /\ call[c].at = "poll"
  /\ lock # "other"
  /\ lock' = "server"
  /\ Goto(c, [call[c] EXCEPT !.at = "delete"])
  /\ polls' = 0
  /\ UNCHANGED <<store, warned, edits, others>>

PollSucceeds(c) ==
  /\ call[c].at = "poll"
  /\ lock = None
  /\ lock' = "server"
  /\ Goto(c, [call[c] EXCEPT !.at = "delete"])
  /\ polls' = 0
  /\ UNCHANGED <<store, warned, edits, others>>

Sleep(c) ==
  /\ call[c].at = "poll"
  /\ lock # None
  /\ polls < WaitPolls
  /\ polls' = polls + 1
  /\ UNCHANGED <<call, lock, store, warned, edits, others>>

(* Mutant: no deadline. *)
PollNeverTimesOut(c) == FALSE /\ UNCHANGED vars

(* The deadline; the call is answered with an error.                          *)
PollTimesOut(c) ==
  /\ call[c].at = "poll"
  /\ lock # None
  /\ polls = WaitPolls
  /\ Goto(c, Idle)
  /\ polls' = 0
  /\ UNCHANGED <<lock, store, warned, edits, others>>

DeleteRows(c) ==
  /\ ~Blocked
  /\ call[c].at = "delete"
  /\ Goto(c, [call[c] EXCEPT !.at = "append"])
  /\ rows' = rows \ {call[c].file}
  /\ dirty' = dirty \ {call[c].file}
  /\ UNCHANGED <<lock, polls, manifest, warned, edits, others>>

AppendRows(c) ==
  /\ ~Blocked
  /\ call[c].at = "append"
  /\ Goto(c, [call[c] EXCEPT !.at = "tally"])
  /\ rows' = rows \cup {call[c].file}
  /\ UNCHANGED <<lock, polls, manifest, dirty, warned, edits, others>>

(* The manifest gains the hash and is counted again; the guard goes.            *)
Tally(c) ==
  /\ ~Blocked
  /\ call[c].at = "tally"
  /\ Goto(c, Idle)
  /\ manifest' = [hashed |-> manifest.hashed \cup rows, count |-> Cardinality(rows)]
  /\ lock' = None
  /\ UNCHANGED <<polls, rows, dirty, warned, edits, others>>

-----------------------------------------------------------------------------
(* run_clear_index: another holder is killed, its own process id is let be.      *)
StopHolder(c) ==
  /\ ~Blocked
  /\ call[c].at = "clear"
  /\ Goto(c, [at |-> "drop"])
  /\ lock' = IF lock = "server" THEN lock ELSE None
  /\ UNCHANGED <<polls, store, warned, edits, others>>

DropTable(c) ==
  /\ ~Blocked
  /\ call[c].at = "drop"
  /\ Goto(c, [at |-> "reset"])
  /\ rows' = {}
  /\ UNCHANGED <<lock, polls, manifest, dirty, warned, edits, others>>

ResetManifest(c) ==
  /\ ~Blocked
  /\ call[c].at = "reset"
  /\ Goto(c, [at |-> "claim"])
  /\ manifest' = NoManifest
  /\ UNCHANGED <<lock, polls, rows, dirty, warned, edits, others>>

(* run_index: refused while anybody, the server itself included, holds the lock. *)
ClaimIndex(c) ==
  /\ ~Blocked
  /\ call[c].at = "claim"
  /\ IF lock = None
     THEN lock' = "server" /\ Goto(c, [at |-> "compare"])
     ELSE UNCHANGED lock /\ Goto(c, Idle)
  /\ UNCHANGED <<polls, store, warned, edits, others>>

Trusted == manifest.count > 0 => Cardinality(rows) = manifest.count

(* stored_file_hashes_from_metadata.                                         *)
Known == IF manifest.hashed = {} \/ (rows = {} /\ manifest.count > 0)
         THEN rows ELSE manifest.hashed

(* The comparison; when all is in sync the call is over, otherwise the rows of   *)
(* changed files go.                                                        *)
Compare(c) ==
  /\ ~Blocked
  /\ call[c].at = "compare"
  /\ LET changed == (File \ Known) \cup dirty
         insync == Trusted /\ changed = {} /\ manifest.hashed = File
     IN /\ IF insync
           THEN lock' = None /\ Goto(c, Idle)
           ELSE UNCHANGED lock /\ Goto(c, [at |-> "fill", todo |-> changed, snap |-> File])
        /\ rows' = IF insync THEN rows ELSE rows \ changed
        /\ dirty' = IF insync THEN dirty ELSE {}
  /\ UNCHANGED <<polls, manifest, warned, edits, others>>

(* flush_window, a file at a time.                                          *)
FlushWindow(c, f) ==
  /\ ~Blocked
  /\ call[c].at = "fill"
  /\ f \in call[c].todo
  /\ Goto(c, [call[c] EXCEPT !.todo = @ \ {f}])
  /\ rows' = rows \cup {f}
  /\ UNCHANGED <<lock, polls, manifest, dirty, warned, edits, others>>

(* sync_full_index_manifest: the hashes of the enumeration, the count of the rows. *)
FinishIndex(c) ==
  /\ ~Blocked
  /\ call[c].at = "fill"
  /\ call[c].todo = {}
  /\ Goto(c, Idle)
  /\ manifest' = [hashed |-> call[c].snap, count |-> Cardinality(rows)]
  /\ lock' = None
  /\ UNCHANGED <<polls, rows, dirty, warned, edits, others>>

CallStep(c) ==
  \/ SearchCode(c)
  \/ ClaimOrPoll(c) \/ PollSucceeds(c) \/ Sleep(c) \/ PollTimesOut(c)
  \/ DeleteRows(c) \/ AppendRows(c) \/ Tally(c)
  \/ StopHolder(c) \/ DropTable(c) \/ ResetManifest(c) \/ ClaimIndex(c) \/ Compare(c)
  \/ \E f \in File : FlushWindow(c, f)
  \/ FinishIndex(c)

Next ==
  \/ \E f \in File : Edit(f)
  \/ OtherClaims \/ OtherReleases
  \/ \E c \in Call : Arrive(c) \/ CallStep(c)

Spec == Init /\ [][Next]_vars

(* The executor polls every task that can go on, a sleep ends, and the client      *)
(* need not send anything.  The other process may keep the lock for good.         *)
FairSpec == Spec /\ \A c \in Call : SF_vars(CallStep(c))

-----------------------------------------------------------------------------
(* Two calls of one server never write the table under one lock file, although    *)
(* the process id in it cannot tell them apart (lock.rs:60-73, 79-90).            *)
OneCallWrites == Cardinality(Writing) <= 1

(* Every call is answered, also one that blocks the thread on the lock its own     *)
(* server holds: the deadline of the claim lets the index go on (lock.rs:70-74).   *)
EveryCallIsAnswered == \A c \in Call : call[c] # Idle ~> call[c] = Idle

(* store/mod.rs:282-285, "the manifest is written only once every row has landed":  *)
(* once all calls are answered, a manifest that the row-count gate accepts names     *)
(* only files with rows.                                                     *)
TrustedMeansStored ==
  Trusted /\ (\A c \in Call : call[c] = Idle) => manifest.hashed \subseteq rows
=============================================================================
