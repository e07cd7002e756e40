---------------------------- MODULE ChangeNeighbors ----------------------------
(***************************************************************************)
(* The related-code hints: a reindex leaves the neighbours of an edit in the *)
(* change-neighbors marker (write_change_neighbors_marker of lib.rs), a       *)
(* later event of the session that made the edit takes them from there        *)
(* (take_change_neighbors_context), a ranged Read computes its own            *)
(* (read_surfacing_context), and two ledgers of each session say which of     *)
(* them it has been shown or has read already (store/marker/change_neighbors.rs). *)
(*                                                                         *)
(* A hook is a process of its own, several run at once, also of one session.  *)
(* Which chunks are near is any choice, one per file at most (search/neighbors.rs). *)
(* The events of a session are over before it starts anew.  Reindexes are      *)
(* serialized by the lock of IndexLock; the queue is that of ReindexDrain, kept *)
(* here to the owner of each file's newest edit.  Edits that change no file    *)
(* do nothing here, and the flags that turn the hints off are on.             *)
(***************************************************************************)
EXTENDS Naturals, Sequences, FiniteSetsExt

CONSTANTS
  Hook,        \* hook processes that may run at once
  Session,
  NoSession,   \* an event or an edit without a session id
  File,
  Hint,        \* the chunks: [file, name, from, to]
  Window,      \* the arguments of a Read: [offset, limit], None when absent
  Lines,       \* the lengths each file may have
  Unsafe,      \* the names with a tab or a newline
  TopK,        \* related_top_k
  Depth,       \* NEIGHBOR_CANDIDATE_DEPTH
  ReadCap,     \* READ_TOOL_MAX_LINES
  EditedFile, ReadFile, \* bounds: the files that are edited, and read or deleted
  MaxEvents,   \* bound: events, and appends that fail
  None

Anyone == Session \cup {NoSession}

ASSUME HintsAssumption ==
  /\ NoSession \notin Session
  /\ None \notin File \cup Nat
  /\ \A h \in Hint : h.file \in File /\ h.from \in Nat /\ h.to \in Nat
  /\ Window \subseteq [offset : (Nat \ {0}) \cup {None}, limit : Nat \cup {None}]
  /\ EditedFile \subseteq File /\ ReadFile \subseteq File
  /\ Lines \in [File -> SUBSET Nat]
  /\ {TopK, Depth, ReadCap} \subseteq Nat \ {0}
  /\ MaxEvents \in Nat

VARIABLES
  length,   \* the lines of each file on disk; 0 when it is deleted
  pending,  \* who made the newest queued edit of a file; None when none is queued
  marker,   \* the change-neighbors file: edited, session, pool; Torn while written
  writing,  \* what the reindex is about to put there
  seen,     \* the seen ledger of each session: hints
  read,     \* the read ledger of each session: [file, from, to]
  hook,     \* where each hook is, and its locals
  aged,     \* the ledgers untouched for DEDUPE_LEDGER_RETENTION
  edited,   \* history: who has edited what
  shown,    \* history: the hints each session has been shown since it started
  displayed,\* history: the lines it has read or written since: <<file, line>>
  lost,     \* history: the sessions whose seen ledger has lost or missed a line since
  events

files == <<length, pending, edited>>
ledgers == <<seen, read, aged>>
history == <<shown, displayed, lost>>
vars == <<files, marker, writing, ledgers, hook, history, events>>

Absent == [edited |-> None]
Torn == [edited |-> None, session |-> None]
Idle == [at |-> "idle"]

Exists(f) == length[f] > 0

Covers(outer, inner) ==
  outer.file = inner.file /\ outer.from <= inner.from /\ outer.to >= inner.to

(* is_seen and is_read.                                                      *)
IsSeen(hints, h) == \E g \in hints : g.name = h.name /\ Covers(g, h)
IsRead(ranges, h) == \E r \in ranges : Covers(r, h)

(* ledger_safe of what a ledger line would hold.                             *)
Recordable(hints) == {h \in hints : h.file \notin Unsafe /\ h.name \notin Unsafe}

(* What neighbors() may return for file f: no chunk of f, one chunk of a file,  *)
(* cut to the candidates asked for.                                          *)
Pools(f, k) ==
  {p \in UNION {[1..n -> Hint] : n \in 1..k} :
     /\ \A i \in DOMAIN p : p[i].file # f
     /\ \A i, j \in DOMAIN p : p[i].file = p[j].file => i = j}

(* The lines a Read displays, and those record_read_range claims for it.        *)
First(w) == IF w.offset = None THEN 1 ELSE w.offset
ShownLines(w) == IF w.limit = None THEN ReadCap ELSE Min({w.limit, ReadCap})
Displayed(f, w) == {f} \X {l \in First(w)..(First(w) + ShownLines(w) - 1) : l <= length[f]}

(* Mutant: the limit is taken as the tool was asked for it. *)
ClaimedUncapped(f, w) ==
  [file |-> f, from |-> First(w),
   to |-> First(w) + (IF w.limit = None THEN ReadCap ELSE w.limit) - 1]

Claimed(f, w) == [file |-> f, from |-> First(w), to |-> First(w) + ShownLines(w) - 1]
Ranged(w) == w.offset # None \/ w.limit # None

Stretch == [file : File, from : Nat, to : Nat]
Marker == [edited : File, session : Session, pool : Seq(Hint)]
Taken == [edited : File, session : Anyone, pool : Seq(Hint)]
Ledger == {"seen", "read"} \X Session
HookState ==
  {Idle} \cup [at : {"ack"}, by : Anyone]
         \cup [at : {"remove", "filter", "scan"}, by : Anyone, got : Taken]
         \cup [at : {"append"}, by : Anyone, of : File \cup {None},
               picked : SUBSET Hint, raced : BOOLEAN]
         \cup [at : {"reap"}, by : Anyone, stale : SUBSET Ledger]

TypeOK ==
  /\ length \in [File -> Nat]
  /\ pending \in [File -> Anyone \cup {None}]
  /\ marker \in Marker \cup {Absent, Torn}
  /\ writing \in Marker \cup {Absent}
  /\ marker = Torn => writing # Absent
  /\ seen \in [Session -> SUBSET Hint]
  /\ read \in [Session -> SUBSET Stretch]
  /\ hook \in [Hook -> HookState]
  /\ aged \subseteq Ledger
  /\ edited \subseteq Anyone \X File
  /\ shown \in [Session -> SUBSET Hint]
  /\ displayed \in [Session -> SUBSET (File \X Nat)]
  /\ lost \subseteq Session
  /\ events \in 0..MaxEvents

Init ==
  /\ length \in [File -> UNION {Lines[f] : f \in File}]
  /\ \A f \in File : length[f] \in Lines[f]
  /\ pending = [f \in File |-> None]
  /\ marker = Absent
  /\ writing = Absent
  /\ seen = [s \in Session |-> {}]
  /\ read = [s \in Session |-> {}]
  /\ hook = [k \in Hook |-> Idle]
  /\ aged = {}
  /\ edited = {}
  /\ shown = [s \in Session |-> {}]
  /\ displayed = [s \in Session |-> {}]
  /\ lost = {}
  /\ events = 0

-----------------------------------------------------------------------------
Goto(k, to) == hook' = [hook EXCEPT ![k] = to]

(* A new event; a session that starts has no hook of an older one.              *)
Event(k, s) ==
  /\ events < MaxEvents
  /\ events' = events + 1
  /\ hook[k] = Idle
  /\ \A j \in Hook : hook[j].at = "reap" => hook[j].by # s

(* PostToolUse of an edit tool that changed f.  It is queued under the session  *)
(* unless a watcher is alive or the queue cannot be written.                    *)
Edit(k, s, f) ==
  /\ Event(k, s)
  /\ \E n \in Lines[f] :
       /\ length' = [length EXCEPT ![f] = n]
       /\ displayed' = [t \in Session |-> IF t = s THEN displayed[t] \cup {f} \X ((length[f] + 1)..n)
                                         ELSE displayed[t]]
  /\ \E owner \in {s, pending[f]} : pending' = [pending EXCEPT ![f] = owner]
  /\ edited' = edited \cup {<<s, f>>}
  /\ Goto(k, [at |-> "ack", by |-> s])
  /\ UNCHANGED <<marker, writing, ledgers, shown, lost>>

(* append_read_range: a window the ledger covers, or cannot hold, is not added.   *)
AppendReadRange(s, range) ==
  IF range.file \in Unsafe \/ IsRead(read[s], range)
  THEN UNCHANGED <<read, aged>>
  ELSE /\ read' = [read EXCEPT ![s] = @ \cup {range}]
       /\ aged' = aged \ {<<"read", s>>}

(* PostToolUse of a Read: the window is recorded for the session, and related    *)
(* code of a ranged read is computed from the stored vectors.                    *)
Read(k, s, f, w) ==
  /\ Event(k, s)
  /\ Exists(f)
  /\ IF s = NoSession
     THEN UNCHANGED <<read, displayed, aged>>
     ELSE /\ displayed' = [displayed EXCEPT ![s] = @ \cup Displayed(f, w)]
          /\ IF w.limit = 0 THEN UNCHANGED <<read, aged>>
             ELSE AppendReadRange(s, Claimed(f, w))
  /\ \/ Goto(k, Idle)
     \/ /\ Ranged(w)
        /\ \E p \in Pools(f, TopK) :
             Goto(k, [at |-> "scan", by |-> s, got |-> [edited |-> f, session |-> s, pool |-> p]])
  /\ UNCHANGED <<files, marker, writing, seen, shown, lost>>

(* UserPromptSubmit takes the marker as well.                                 *)
Prompt(k, s) ==
  /\ Event(k, s)
  /\ Goto(k, [at |-> "ack", by |-> s])
  /\ UNCHANGED <<files, marker, writing, ledgers, history>>

(* SessionStart: the session's own ledgers are removed, and the state directory  *)
(* is listed for stale ones.                                                 *)
Start(k, s) ==
  /\ Event(k, s)
  /\ \A j \in Hook : hook[j] # Idle => hook[j].by # s
  /\ seen' = [t \in Session |-> IF t = s THEN {} ELSE seen[t]]
  /\ read' = [t \in Session |-> IF t = s THEN {} ELSE read[t]]
  /\ aged' = {l \in aged : l[2] # s}
  /\ shown' = [t \in Session |-> IF t = s THEN {} ELSE shown[t]]
  /\ displayed' = [t \in Session |-> IF t = s THEN {} ELSE displayed[t]]
  /\ lost' = lost \ {s}
  /\ Goto(k, IF aged' = {} THEN Idle ELSE [at |-> "reap", by |-> s, stale |-> aged'])
  /\ UNCHANGED <<files, marker, writing>>

(* sweep_stale_ledgers removes what was stale when it looked.                   *)
Reap(k) ==
  /\ hook[k].at = "reap"
  /\ LET gone(l) == {s \in Session : <<l, s>> \in hook[k].stale} IN
       /\ seen' = [s \in Session |-> IF s \in gone("seen") THEN {} ELSE seen[s]]
       /\ read' = [s \in Session |-> IF s \in gone("read") THEN {} ELSE read[s]]
       /\ lost' = lost \cup gone("seen")
  /\ aged' = aged \ hook[k].stale
  /\ Goto(k, Idle)
  /\ UNCHANGED <<files, marker, writing, shown, displayed, events>>

-----------------------------------------------------------------------------
(* read_and_remove; an unreadable marker stays.                               *)
TakeMarker(k) ==
  /\ hook[k].at = "ack"
  /\ Goto(k, IF marker \in {Absent, Torn} THEN Idle
             ELSE [at |-> "remove", by |-> hook[k].by, got |-> marker])
  /\ UNCHANGED <<files, marker, writing, ledgers, history, events>>

(* Whatever is there by now is removed.  A marker of another session is dropped. *)
RemoveMarker(k) ==
  /\ hook[k].at = "remove"
  /\ marker' = Absent
  /\ Goto(k, IF hook[k].by = hook[k].got.session THEN [hook[k] EXCEPT !.at = "filter"] ELSE Idle)
  /\ UNCHANGED <<files, writing, ledgers, history, events>>

(* What read_surfacing_context offers: files that are there, and lines the session does *)
(* not know.  No ledger belongs to an event without a session.                    *)
Surfaceable(s, h) ==
  /\ Exists(h.file)
  /\ s # NoSession => ~IsSeen(seen[s], h) /\ ~IsRead(read[s], h)

(* The candidates the session does not know, the first TopK of them.             *)
Filter(k) ==
  /\ hook[k].at \in {"filter", "scan"}
  /\ LET s == hook[k].by
         got == hook[k].got
         fresh == {i \in DOMAIN got.pool :
                    got.pool[i].file # got.edited /\ Surfaceable(s, got.pool[i])}
         picked == {got.pool[i] : i \in {j \in fresh : Cardinality(fresh \cap 1..j) <= TopK}}
     IN Goto(k, IF picked = {} THEN Idle
                ELSE [at |-> "append", by |-> s, picked |-> picked, raced |-> FALSE,
                      of |-> IF hook[k].at = "filter" THEN got.edited ELSE None])
  /\ UNCHANGED <<files, marker, writing, ledgers, history, events>>

(* The hook answers with what it has picked; others of its session that have     *)
(* read the ledger do not know of it.                                         *)
Answer(k) ==
  LET s == hook[k].by IN
  /\ hook[k].at = "append"
  /\ hook' = [j \in Hook |-> IF j = k THEN Idle
                            ELSE IF hook[j].at = "append" /\ hook[j].by = s
                            THEN [hook[j] EXCEPT !.raced = TRUE]
                            ELSE hook[j]]
  /\ IF s = NoSession THEN UNCHANGED shown
     ELSE shown' = [shown EXCEPT ![s] = @ \cup hook[k].picked]

(* Mutant: the ledger is written anew. *)
SurfaceOverwrites(k) ==
  /\ Answer(k)
  /\ LET s == hook[k].by IN
       IF s = NoSession THEN UNCHANGED <<seen, aged>>
       ELSE seen' = [seen EXCEPT ![s] = Recordable(hook[k].picked)] /\ aged' = aged \ {<<"seen", s>>}
  /\ UNCHANGED <<files, marker, writing, read, displayed, lost, events>>

Surface(k) ==
  /\ Answer(k)
  /\ LET s == hook[k].by IN
       IF s = NoSession \/ Recordable(hook[k].picked) = {}
       THEN UNCHANGED <<seen, aged>>
       ELSE /\ seen' = [seen EXCEPT ![s] = @ \cup Recordable(hook[k].picked)]
            /\ aged' = aged \ {<<"seen", s>>}
  /\ UNCHANGED <<files, marker, writing, read, displayed, lost, events>>

(* The append fails: the hint was shown and is not recorded.                    *)
SurfaceUnrecorded(k) ==
  /\ Answer(k)
  /\ hook[k].by # NoSession
  /\ events < MaxEvents
  /\ events' = events + 1
  /\ lost' = lost \cup {hook[k].by}
  /\ UNCHANGED <<files, marker, writing, ledgers, displayed>>

-----------------------------------------------------------------------------
(* reindex_file of a queued edit: its neighbours go to the marker, unless there   *)
(* are none or the edit has no session; fs::write truncates the file first.     *)
Reindex(f) ==
  /\ pending[f] # None
  /\ writing = Absent
  /\ pending' = [pending EXCEPT ![f] = None]
  /\ \/ UNCHANGED <<marker, writing>>
     \/ /\ pending[f] # NoSession
        /\ Exists(f)
        /\ \E p \in Pools(f, TopK * Depth) :
             writing' = [edited |-> f, session |-> pending[f], pool |-> p]
        /\ marker' = Torn
  /\ UNCHANGED <<length, edited, ledgers, hook, history, events>>

(* The payload is written to the file, at its path or removed by now.            *)
WriteMarker ==
  /\ writing # Absent
  /\ marker' = IF marker = Torn THEN writing ELSE marker
  /\ writing' = Absent
  /\ UNCHANGED <<files, ledgers, hook, history, events>>

(* A file is deleted out of band; its rows stay for a while.                    *)
Delete(f) ==
  /\ events < MaxEvents
  /\ Exists(f)
  /\ length' = [length EXCEPT ![f] = 0]
  /\ events' = events + 1
  /\ UNCHANGED <<pending, edited, marker, writing, ledgers, hook, history>>

(* A week goes by without an append to the ledger.                             *)
Age(l) ==
  /\ events < MaxEvents
  /\ l \notin aged
  /\ (IF l[1] = "seen" THEN seen[l[2]] ELSE read[l[2]]) # {}
  /\ aged' = aged \cup {l}
  /\ events' = events + 1
  /\ UNCHANGED <<files, marker, writing, seen, read, hook, history>>

HookStep(k) ==
  \/ TakeMarker(k) \/ RemoveMarker(k) \/ Filter(k) \/ Surface(k) \/ SurfaceUnrecorded(k)
  \/ Reap(k)

Next ==
  \/ \E k \in Hook, s \in Anyone :
       \/ \E f \in EditedFile : Edit(k, s, f)
       \/ \E f \in ReadFile, w \in Window : Read(k, s, f, w)
       \/ Prompt(k, s) \/ Start(k, s)
  \/ \E k \in Hook : HookStep(k)
  \/ \E f \in EditedFile : Reindex(f)
  \/ \E f \in ReadFile : Delete(f)
  \/ WriteMarker
  \/ \E l \in Ledger : Age(l)

Spec == Init /\ [][Next]_vars

-----------------------------------------------------------------------------
(* change_neighbors.rs:21-27, "never a wrongly suppressed one": what the ledgers  *)
(* of a session hold back was shown to it, or it has read or written every line   *)
(* of it, since it started.                                                  *)
SuppressedIsKnown ==
  \A s \in Session, h \in Hint :
    h.to <= length[h.file] /\ (IsSeen(seen[s], h) \/ IsRead(read[s], h)) =>
      IsSeen(shown[s], h) \/ {h.file} \X (h.from..h.to) \subseteq displayed[s]

(* post_tool_use.rs:493-501: a hint of an edit goes to a session that has edited  *)
(* that file, whoever's event takes the marker first.                          *)
OnlyOwnEdits ==
  \A k \in Hook :
    hook[k].at = "append" /\ hook[k].of # None => <<hook[k].by, hook[k].of>> \in edited

(* change_neighbors.rs:8-13: a session is shown the same lines of a symbol once,  *)
(* whichever file was edited or read, unless its ledger was reaped or not written, *)
(* or two of its hooks are at it at once.                                     *)
HintsAreNotRepeated ==
  \A k \in Hook :
    hook[k].at = "append" /\ hook[k].by \in Session \ lost /\ ~hook[k].raced =>
      \A h \in Recordable(hook[k].picked) : ~IsSeen(shown[hook[k].by], h)

(* A hint is of the session's own edits, and new to it.                         *)
HintsAreOwnAndNew == OnlyOwnEdits /\ HintsAreNotRepeated
=============================================================================
