-------------------------- MODULE PendingIndexProofs --------------------------
(***************************************************************************)
(* Theorems about the pending-index marker, for any sessions, any kills and    *)
(* any grace periods.                                                       *)
(***************************************************************************)
EXTENDS PendingIndex, TLAPS

(* The clock, the marker and the ledgers; a marker names no child but its creator.    *)
FilesTyped ==
  /\ now \in Time
  /\ lastFull \in Stamp
  /\ usable \in BOOLEAN
  /\ marker \in Marker \cup {Absent}
  /\ Written => marker.child \in {Never, marker.by}
  /\ index \in [Indexer -> {"none", "boot", "run", "wrote", "gone"}]
  /\ born \in [Indexer -> Time]
  /\ prompt \in [Session -> 1..MaxPrompt]
  /\ shown \in [Session -> 0..MaxPrompt]
  /\ acked \in Stamp
  /\ failures \in [Session -> 0..2]
  /\ raced \subseteq Hook
  /\ misremoved \in BOOLEAN

(* A hook that starts an index holds the marker it would write, made in this unit of    *)
(* the clock; one that checks holds a marker of an earlier unit.                     *)
HooksTyped ==
  /\ pc \in [Hook -> {"idle", "open"} \cup Starting \cup Checking]
  /\ mine \in [Hook -> Marker \cup {Absent}]
  /\ tries \in [Hook -> 1..2]
  /\ overtaken \in [Hook -> BOOLEAN]
  /\ \A s \in Hook :
       /\ mine[s] = Absent <=> pc[s] \in {"idle", "open"}
       /\ pc[s] \in Starting =>
            /\ s \in Session
            /\ mine[s].by = s /\ mine[s].child = Never /\ mine[s].written /\ mine[s].created = now
       /\ pc[s] \in Checking => mine[s].created < now

Typed == FilesTyped /\ HooksTyped

(* What the fields of a marker are, and that what the hooks write is a marker.         *)
LEMMA MarkerFields ==
  /\ Absent.by = Never
  /\ Absent \notin Marker
  /\ \A m \in Marker : /\ m.by \in Session /\ m.by # Never /\ m.written \in BOOLEAN
                      /\ m.prior \in Stamp /\ m.created \in Time /\ m.child \in Session \cup {Never}
<1>1. \A m \in Marker : m.by # Never
  BY PendingAssumption DEF Marker, Indexer
<1> QED
  BY <1>1, PendingAssumption DEF Marker, Absent, Indexer

(* A hook is of a session.                                                            *)
LEMMA SessionOfHook ==
  /\ \A h \in Hook : SessionOf(h) \in Session
  /\ \A s \in Session : SessionOf(s) = s
BY PendingAssumption DEF Hook, SessionOf

LEMMA Making ==
  ASSUME NEW m \in Marker, NEW s \in Session, NEW t \in Time
  PROVE  /\ [m EXCEPT !.written = FALSE] \in Marker
         /\ [m EXCEPT !.created = t, !.child = s] \in Marker
         /\ [m EXCEPT !.created = t, !.child = s].by = m.by
  BY DEF Marker

(* A hook that goes on keeps its marker, and one that ends drops it.                  *)
LEMMA Stepping ==
  ASSUME HooksTyped, NEW s \in Hook,
         NEW from \in {"idle", "open"} \cup Starting \cup Checking,
         NEW to \in {"open"} \cup Starting \cup Checking,
         to = "open" \/ (from \in Starting /\ to \in Starting) \/ (from \in Checking /\ to \in Checking),
         Step(s, from, to), now' = now
  PROVE  HooksTyped'
<1>1. CASE to = "open"
  <2>1. /\ pc' = [pc EXCEPT ![s] = "open"] /\ mine' = [mine EXCEPT ![s] = Absent]
        /\ tries' = [tries EXCEPT ![s] = 1] /\ overtaken' = [overtaken EXCEPT ![s] = FALSE]
    BY <1>1 DEF Step, Goto, KeepLocals
  <2> QED
    BY <2>1 DEF HooksTyped, Starting, Checking
<1>2. CASE to # "open"
  <2>1. pc' = [pc EXCEPT ![s] = to] /\ UNCHANGED locals /\ pc[s] = from
    BY <1>2 DEF Step, Goto, KeepLocals
  <2> QED
    BY <1>2, <2>1 DEF HooksTyped, locals, Starting, Checking
<1> QED
  BY <1>1, <1>2

LEMMA HooksStep == ASSUME Typed, [Next]_vars PROVE HooksTyped'
<1> USE DEF Typed, Hook
<1>1. ASSUME NEW s \in Session, Skip(s) PROVE HooksTyped'
  BY <1>1, Stepping DEF Skip, Starting, Checking
<1>2. ASSUME NEW s \in Session, Prepare(s) PROVE HooksTyped'
  <2> DEFINE m == [by |-> s, written |-> TRUE, prior |-> lastFull, created |-> now, child |-> Never]
  <2>1. m \in Marker /\ m # Absent
    BY MarkerFields DEF FilesTyped, Marker
  <2>2. m.by = s /\ m.child = Never /\ m.written /\ m.created = now
    OBVIOUS
  <2>3. pc' = [pc EXCEPT ![s] = "create"] /\ mine' = [mine EXCEPT ![s] = m] /\ UNCHANGED <<now, tries, overtaken>>
    BY <1>2 DEF Prepare, Goto
  <2> HIDE DEF m
  <2> QED
    BY <2>1, <2>2, <2>3 DEF HooksTyped, Starting, Checking
<1>3. ASSUME NEW s \in Session, Create(s) PROVE HooksTyped'
  BY <1>3, Stepping DEF Create, Starting, Checking
<1>4. ASSUME NEW s \in Session, CreateFails(s) PROVE HooksTyped'
  BY <1>4, Stepping DEF CreateFails, Starting, Checking
<1>5. ASSUME NEW s \in Session, WritePayload(s) PROVE HooksTyped'
  BY <1>5, Stepping DEF WritePayload, Starting, Checking
<1>6. ASSUME NEW s \in Session, Judge(s) PROVE HooksTyped'
  BY <1>6, Stepping DEF Judge, Starting, Checking
<1>7. ASSUME NEW s \in Session, Remove(s) PROVE HooksTyped'
  BY <1>7 DEF Remove, HooksTyped, Starting, Checking
<1>8. ASSUME NEW s \in Session, Spawn(s) PROVE HooksTyped'
  BY <1>8 DEF Spawn, HooksTyped, Goto, Starting, Checking
<1>9. ASSUME NEW s \in Session, SpawnFails(s) PROVE HooksTyped'
  BY <1>9, Stepping DEF SpawnFails, Starting, Checking
<1>10. ASSUME NEW s \in Session, Record(s) PROVE HooksTyped'
  BY <1>10, Stepping DEF Record, Starting, Checking
<1>11. ASSUME NEW s \in Session, HookKilled(s) PROVE HooksTyped'
  BY <1>11, Stepping DEF HookKilled, Starting, Checking
<1>12. ASSUME NEW s \in Hook, ReadMarker(s) PROVE HooksTyped'
  BY <1>12, MarkerFields, PendingAssumption DEF ReadMarker, HooksTyped, FilesTyped, Goto, Starting, Checking, Written, Age, Time
<1>13. ASSUME NEW s \in Hook, LookAtLock(s) PROVE HooksTyped'
  BY <1>13, Stepping DEF LookAtLock, Starting, Checking
<1>14. ASSUME NEW s \in Hook, ReadManifest(s) PROVE HooksTyped'
  BY <1>14, Stepping DEF ReadManifest, Starting, Checking
<1>15. ASSUME NEW s \in Hook, Consume(s) PROVE HooksTyped'
  BY <1>15, Stepping DEF Consume, Starting, Checking
<1>16. ASSUME NEW s \in Hook, Probe(s) PROVE HooksTyped'
  BY <1>16, Stepping DEF Probe, Starting, Checking
<1>17. ASSUME NEW s \in Hook, ReadRecord(s) PROVE HooksTyped'
  BY <1>17, Stepping DEF ReadRecord, Starting, Checking
<1>18. ASSUME NEW s \in Hook, ShowFailure(s) PROVE HooksTyped'
  BY <1>18, Stepping DEF ShowFailure, Starting, Checking
<1>19. ASSUME NEW s \in Session, NewPrompt(s) PROVE HooksTyped'
  BY <1>19 DEF NewPrompt, HooksTyped, hook, locals
<1>20. ASSUME NEW i \in Indexer, ClaimLock(i) PROVE HooksTyped'
  BY <1>20 DEF ClaimLock, HooksTyped, hook, locals
<1>21. ASSUME NEW i \in Indexer, ResetManifest(i) PROVE HooksTyped'
  BY <1>21 DEF ResetManifest, HooksTyped, hook, locals
<1>22. ASSUME NEW i \in Indexer, FinishIndex(i) PROVE HooksTyped'
  BY <1>22 DEF FinishIndex, HooksTyped, hook, locals
<1>23. ASSUME NEW i \in Indexer, EndIndex(i) PROVE HooksTyped'
  BY <1>23 DEF EndIndex, HooksTyped, hook, locals
<1>24. ASSUME StartManual PROVE HooksTyped'
  BY <1>24 DEF StartManual, HooksTyped, hook, locals
<1>25. ASSUME Tick PROVE HooksTyped'
  BY <1>25, MarkerFields DEF Tick, HooksTyped, FilesTyped, hook, locals, Starting, Checking, Time
<1>26. CASE UNCHANGED vars
  BY <1>26 DEF vars, HooksTyped, hook, locals
<1> QED
  BY <1>1, <1>2, <1>3, <1>4, <1>5, <1>6, <1>7, <1>8, <1>9, <1>10, <1>11, <1>12, <1>13, <1>14, <1>15, <1>16, <1>17, <1>18, <1>19, <1>20, <1>21, <1>22, <1>23, <1>24, <1>25, <1>26
     DEF Next, StartHook, CheckHook, IndexStep

LEMMA FilesStep == ASSUME Typed, [Next]_vars PROVE FilesTyped'
<1> USE PendingAssumption DEF Typed, Hook, FilesTyped, Written, Indexer, Stamp, Time, manifest, ledgers, processes
<1>1. ASSUME NEW s \in Session, Skip(s) PROVE FilesTyped'
  BY <1>1 DEF Skip
<1>2. ASSUME NEW s \in Session, Prepare(s) PROVE FilesTyped'
  BY <1>2 DEF Prepare
<1>3. ASSUME NEW s \in Session, Create(s) PROVE FilesTyped'
  <2>1. mine[s] \in Marker
    BY <1>3 DEF Create, Step, Goto, HooksTyped, Starting
  <2>2. Empty(s) \in Marker /\ ~Empty(s).written
    BY <2>1 DEF Empty, Marker
  <2> QED
    BY <1>3, <2>2 DEF Create
<1>4. ASSUME NEW s \in Session, CreateFails(s) PROVE FilesTyped'
  BY <1>4 DEF CreateFails
<1>5. ASSUME NEW s \in Session, WritePayload(s) PROVE FilesTyped'
  BY <1>5, MarkerFields DEF WritePayload, Step, Goto, HooksTyped, Starting
<1>6. ASSUME NEW s \in Session, Judge(s) PROVE FilesTyped'
  BY <1>6 DEF Judge
<1>7. ASSUME NEW s \in Session, Remove(s) PROVE FilesTyped'
  BY <1>7 DEF Remove
<1>8. ASSUME NEW s \in Session, Spawn(s) PROVE FilesTyped'
  BY <1>8 DEF Spawn
<1>9. ASSUME NEW s \in Session, SpawnFails(s) PROVE FilesTyped'
  BY <1>9 DEF SpawnFails
<1>10. ASSUME NEW s \in Session, Record(s) PROVE FilesTyped'
  <2>1. mine[s] \in Marker /\ mine[s].by = s
    BY <1>10 DEF Record, Step, Goto, HooksTyped, Starting
  <2>2. marker' \in Marker
    BY <1>10, <2>1, Making DEF Record
  <2>3. marker'.child = s /\ marker'.by = s
    BY <1>10, <2>1 DEF Record, Marker
  <2> QED
    BY <1>10, <2>2, <2>3 DEF Record
<1>11. ASSUME NEW s \in Session, HookKilled(s) PROVE FilesTyped'
  BY <1>11 DEF HookKilled
<1>12. ASSUME NEW s \in Hook, ReadMarker(s) PROVE FilesTyped'
  BY <1>12 DEF ReadMarker
<1>13. ASSUME NEW s \in Hook, LookAtLock(s) PROVE FilesTyped'
  BY <1>13 DEF LookAtLock
<1>14. ASSUME NEW s \in Hook, ReadManifest(s) PROVE FilesTyped'
  BY <1>14 DEF ReadManifest, Step, Goto
<1>15. ASSUME NEW s \in Hook, Consume(s) PROVE FilesTyped'
  BY <1>15 DEF Consume
<1>16. ASSUME NEW s \in Hook, Probe(s) PROVE FilesTyped'
  BY <1>16 DEF Probe
<1>17. ASSUME NEW s \in Hook, ReadRecord(s) PROVE FilesTyped'
  BY <1>17 DEF ReadRecord
<1>18. ASSUME NEW s \in Hook, ShowFailure(s) PROVE FilesTyped'
  <2>1. SessionOf(s) \in Session /\ mine[s] \in Marker
    BY <1>18, SessionOfHook DEF ShowFailure, Step, Goto, HooksTyped, Checking
  <2>2. raced' \subseteq Hook
    BY <1>18 DEF ShowFailure, Tellers
  <2>3. UNCHANGED <<now, manifest, marker, processes, prompt, misremoved>>
    BY <1>18 DEF ShowFailure
  <2>4. CASE Unattributed(s)
    BY <1>18, <2>1, <2>2, <2>3, <2>4, MarkerFields DEF ShowFailure
  <2>5. CASE ~Unattributed(s)
    BY <1>18, <2>1, <2>2, <2>3, <2>5 DEF ShowFailure
  <2> QED
    BY <2>4, <2>5
<1>19. ASSUME NEW s \in Session, NewPrompt(s) PROVE FilesTyped'
  BY <1>19 DEF NewPrompt
<1>20. ASSUME NEW i \in Indexer, ClaimLock(i) PROVE FilesTyped'
  BY <1>20 DEF ClaimLock
<1>21. ASSUME NEW i \in Indexer, ResetManifest(i) PROVE FilesTyped'
  BY <1>21 DEF ResetManifest
<1>22. ASSUME NEW i \in Indexer, FinishIndex(i) PROVE FilesTyped'
  BY <1>22 DEF FinishIndex
<1>23. ASSUME NEW i \in Indexer, EndIndex(i) PROVE FilesTyped'
  BY <1>23 DEF EndIndex
<1>24. ASSUME StartManual PROVE FilesTyped'
  BY <1>24 DEF StartManual
<1>25. ASSUME Tick PROVE FilesTyped'
  BY <1>25 DEF Tick
<1>26. CASE UNCHANGED vars
  BY <1>26 DEF vars
<1> QED
  BY <1>1, <1>2, <1>3, <1>4, <1>5, <1>6, <1>7, <1>8, <1>9, <1>10, <1>11, <1>12, <1>13, <1>14, <1>15, <1>16, <1>17, <1>18, <1>19, <1>20, <1>21, <1>22, <1>23, <1>24, <1>25, <1>26
     DEF Next, StartHook, CheckHook, IndexStep

(* The clock, the marker, the hooks and the ledgers keep their types; a hook that starts *)
(* an index holds a marker of this unit of the clock, one that checks an older one.      *)
THEOREM Typing == Spec => [](TypeOK /\ Typed)
<1>1. Init => Typed
  <2>. 0 \in Time /\ 1 \in 1..MaxPrompt /\ 0 \in 0..MaxPrompt
    BY PendingAssumption DEF Time
  <2>1. Init => FilesTyped
    <3> SUFFICES ASSUME Init PROVE FilesTyped
      OBVIOUS
    <3>1. marker \in Marker \cup {Absent} /\ ~Written
      BY DEF Init, Written
    <3>2. now \in Time /\ lastFull \in Stamp /\ usable \in BOOLEAN /\ misremoved \in BOOLEAN /\ acked \in Stamp
      BY DEF Init, Stamp
    <3>3. index \in [Indexer -> {"none", "boot", "run", "wrote", "gone"}] /\ born \in [Indexer -> Time]
      BY DEF Init
    <3>4. /\ prompt \in [Session -> 1..MaxPrompt] /\ shown \in [Session -> 0..MaxPrompt]
          /\ failures \in [Session -> 0..2] /\ raced \subseteq Hook
      BY DEF Init
    <3> QED
      BY <3>1, <3>2, <3>3, <3>4 DEF FilesTyped
  <2>2. Init => HooksTyped
    <3> SUFFICES ASSUME Init PROVE HooksTyped
      OBVIOUS
    <3>1. \A h \in Hook : pc[h] \in {"idle", "open"} /\ mine[h] = Absent
      BY DEF Init
    <3>2. pc \in [Hook -> {"idle", "open"} \cup Starting \cup Checking]
      BY DEF Init
    <3>3. /\ mine \in [Hook -> Marker \cup {Absent}] /\ tries \in [Hook -> 1..2]
          /\ overtaken \in [Hook -> BOOLEAN]
      BY DEF Init
    <3> QED
      BY <3>1, <3>2, <3>3 DEF HooksTyped, Starting, Checking
  <2> QED
    BY <2>1, <2>2 DEF Typed
<1>2. Typed /\ [Next]_vars => Typed'
  BY HooksStep, FilesStep DEF Typed
<1>3. Typed => TypeOK
  BY DEF Typed, FilesTyped, HooksTyped, TypeOK
<1> QED
  BY <1>1, <1>2, <1>3, PTL DEF Spec

(* As long as no marker was removed that was needed, the marker is the claim of whoever *)
(* claims, spawns or records, and of an index that is starting.                     *)
Held(s) ==
  /\ pc[s] = "write" => marker = Empty(s)
  /\ pc[s] \in {"spawn", "record"} => marker = mine[s]
  /\ index[s] = "boot" => marker # Absent /\ marker.by = s
  /\ pc[s] \in {"idle", "spawn"} \cup (Starting \ {"record"}) => index[s] = "none"

MarkerIsHeld == ~misremoved => \A s \in Session : Held(s)

Holds(s) == pc[s] \in {"write", "spawn", "record"} \/ index[s] = "boot"

(* So one claims, spawns or starts at most: whoever does is named by the marker.       *)
LEMMA HolderIsNamed ==
  ASSUME HooksTyped, NEW s \in Session, Held(s), Holds(s)
  PROVE  marker # Absent /\ marker.by = s
<1> USE DEF Hook
<1>1. pc[s] \in Starting => mine[s] \in Marker /\ mine[s].by = s
  BY DEF HooksTyped, Starting
<1>2. CASE pc[s] = "write"
  BY <1>1, <1>2, MarkerFields DEF Held, Empty, Marker, Starting
<1>3. CASE pc[s] \in {"spawn", "record"}
  BY <1>1, <1>3, MarkerFields DEF Held, Starting
<1> QED
  BY <1>2, <1>3 DEF Holds, Held

LEMMA Holding == ASSUME Typed, MarkerIsHeld, [Next]_vars PROVE MarkerIsHeld'
<1> USE PendingAssumption DEF Typed, Hook
<1>1. ASSUME NEW s \in Session, Skip(s) PROVE MarkerIsHeld'
  BY <1>1 DEF Skip, MarkerIsHeld, Held, HooksTyped, Starting, Checking, Step, Goto, KeepLocals, locals, processes, Empty
<1>2. ASSUME NEW s \in Session, Prepare(s) PROVE MarkerIsHeld'
  BY <1>2 DEF Prepare, MarkerIsHeld, Held, HooksTyped, Starting, Checking, Step, Goto, KeepLocals, locals, processes, Empty
<1>3. ASSUME NEW s \in Session, Create(s) PROVE MarkerIsHeld'
  <2> SUFFICES ASSUME ~misremoved, NEW t \in Session PROVE Held(t)'
    BY <1>3 DEF Create, MarkerIsHeld
  <2>1. Held(t) /\ Held(s)
    BY DEF MarkerIsHeld
  <2>2. ~Holds(t) /\ ~Holds(s)
    BY <1>3, <2>1, HolderIsNamed DEF Create
  <2>3. /\ pc' = [pc EXCEPT ![s] = "write"] /\ pc[s] = "create" /\ marker' = Empty(s)
        /\ UNCHANGED <<mine, index>>
    BY <1>3 DEF Create, Step, Goto, KeepLocals, locals, processes
  <2> QED
    BY <2>1, <2>2, <2>3 DEF Held, Holds, HooksTyped, Starting, Empty
<1>4. ASSUME NEW s \in Session, CreateFails(s) PROVE MarkerIsHeld'
  BY <1>4 DEF CreateFails, MarkerIsHeld, Held, HooksTyped, Starting, Checking, Step, Goto, KeepLocals, locals, processes, Empty
<1>5. ASSUME NEW s \in Session, WritePayload(s) PROVE MarkerIsHeld'
  <2> SUFFICES ASSUME ~misremoved, NEW t \in Session PROVE Held(t)'
    BY <1>5 DEF WritePayload, MarkerIsHeld
  <2>1. Held(t) /\ Held(s)
    BY DEF MarkerIsHeld
  <2>2. /\ pc' = [pc EXCEPT ![s] = "spawn"] /\ pc[s] = "write" /\ marker = Empty(s) /\ marker' = mine[s]
        /\ UNCHANGED <<mine, index>>
    BY <1>5, <2>1 DEF WritePayload, Step, Goto, KeepLocals, locals, processes, Held
  <2>3. Holds(t) => t = s
    BY <2>1, <2>2, HolderIsNamed DEF Holds
  <2> QED
    BY <2>1, <2>2, <2>3 DEF Held, Holds, HooksTyped, Starting
<1>6. ASSUME NEW s \in Session, Judge(s) PROVE MarkerIsHeld'
  BY <1>6 DEF Judge, MarkerIsHeld, Held, HooksTyped, Starting, Checking, Step, Goto, KeepLocals, locals, processes, Empty
<1>7. ASSUME NEW s \in Session, Remove(s) PROVE MarkerIsHeld'
  BY <1>7, MarkerFields DEF Remove, MarkerIsHeld, Held, HooksTyped, FilesTyped, Starting, IsFresh, BeingWritten, Stood, Written, Alive, Age, Empty, processes, locals, Time, Indexer
<1>8. ASSUME NEW s \in Session, Spawn(s) PROVE MarkerIsHeld'
  BY <1>8, MarkerFields DEF Spawn, MarkerIsHeld, Held, HooksTyped, Starting, Checking, FilesTyped, Step, Goto, KeepLocals, locals, processes, Empty, Indexer
<1>9. ASSUME NEW s \in Session, SpawnFails(s) PROVE MarkerIsHeld'
  <2> SUFFICES ASSUME ~misremoved, NEW t \in Session PROVE Held(t)'
    BY <1>9 DEF SpawnFails, MarkerIsHeld
  <2>1. Held(t) /\ Held(s)
    BY DEF MarkerIsHeld
  <2>2. /\ pc' = [pc EXCEPT ![s] = "open"] /\ pc[s] = "spawn" /\ mine' = [mine EXCEPT ![s] = Absent]
        /\ UNCHANGED index
    BY <1>9 DEF SpawnFails, Step, Goto, KeepLocals, processes
  <2>3. Holds(t) => t = s
    BY <2>1, <2>2, HolderIsNamed DEF Holds
  <2> QED
    BY <2>1, <2>2, <2>3 DEF Held, Holds, HooksTyped, Starting
<1>10. ASSUME NEW s \in Session, Record(s) PROVE MarkerIsHeld'
  <2> SUFFICES ASSUME ~misremoved, NEW t \in Session PROVE Held(t)'
    BY <1>10 DEF Record, MarkerIsHeld
  <2>1. Held(t) /\ Held(s)
    BY DEF MarkerIsHeld
  <2>2. /\ pc' = [pc EXCEPT ![s] = "open"] /\ pc[s] = "record" /\ mine' = [mine EXCEPT ![s] = Absent]
        /\ marker' = [mine[s] EXCEPT !.created = now, !.child = s] /\ UNCHANGED index
    BY <1>10 DEF Record, Step, Goto, KeepLocals, processes
  <2>3. Holds(t) => t = s
    BY <2>1, <2>2, HolderIsNamed DEF Holds
  <2>4. mine[s] \in Marker /\ mine[s].by = s
    BY <2>2 DEF HooksTyped, Starting
  <2>5. marker' # Absent /\ marker'.by = s
    <3>1. now \in Time
      BY DEF FilesTyped
    <3>2. marker' \in Marker /\ marker'.by = s
      BY <2>2, <2>4, <3>1, Making
    <3> QED
      BY <3>2, MarkerFields
  <2> QED
    BY <2>1, <2>2, <2>3, <2>5 DEF Held, Holds, HooksTyped, Starting
<1>11. ASSUME NEW s \in Session, HookKilled(s) PROVE MarkerIsHeld'
  BY <1>11 DEF HookKilled, MarkerIsHeld, Held, HooksTyped, Starting, Checking, Step, Goto, KeepLocals, locals, processes, Empty
<1>12. ASSUME NEW s \in Hook, ReadMarker(s) PROVE MarkerIsHeld'
  BY <1>12 DEF ReadMarker, MarkerIsHeld, Held, HooksTyped, Starting, Checking, Step, Goto, KeepLocals, locals, processes, Empty
<1>13. ASSUME NEW s \in Hook, LookAtLock(s) PROVE MarkerIsHeld'
  BY <1>13 DEF LookAtLock, MarkerIsHeld, Held, HooksTyped, Starting, Checking, Step, Goto, KeepLocals, locals, processes, Empty
<1>14. ASSUME NEW s \in Hook, ReadManifest(s) PROVE MarkerIsHeld'
  BY <1>14 DEF ReadManifest, MarkerIsHeld, Held, HooksTyped, Starting, Checking, Step, Goto, KeepLocals, locals, processes, Empty
<1>15. ASSUME NEW s \in Hook, Consume(s) PROVE MarkerIsHeld'
  <2> SUFFICES ASSUME ~misremoved', NEW t \in Session PROVE Held(t)'
    BY DEF MarkerIsHeld
  <2>1. /\ pc' = [pc EXCEPT ![s] = "open"] /\ pc[s] = "consume" /\ mine' = [mine EXCEPT ![s] = Absent]
        /\ UNCHANGED index
    BY <1>15 DEF Consume, Step, Goto, KeepLocals, processes
  <2>2. ~misremoved /\ marker \in {Absent, mine[s]} /\ ~Stood
    BY <1>15 DEF Consume
  <2>3. Held(t)
    BY <2>2 DEF MarkerIsHeld
  <2>4. marker # Absent => marker.created < now
    BY <2>1, <2>2 DEF HooksTyped, Checking
  <2>5. index[t] # "boot"
    BY <2>2, <2>3, PendingAssumption DEF Held, Stood, Alive, Indexer
  <2>6. CASE pc[t] \in {"write", "spawn", "record"}
    <3>1. mine[t] \in Marker /\ mine[t].created = now /\ marker # Absent
      BY <2>3, <2>6, HolderIsNamed DEF HooksTyped, Starting, Holds
    <3>2. marker.created = now
      BY <2>3, <2>6, <3>1 DEF Held, Empty, Marker
    <3> QED
      BY <2>4, <3>1, <3>2, MarkerFields DEF FilesTyped, Time
  <2> QED
    BY <2>1, <2>3, <2>5, <2>6 DEF Held, HooksTyped, Starting
<1>16. ASSUME NEW s \in Hook, Probe(s) PROVE MarkerIsHeld'
  BY <1>16 DEF Probe, MarkerIsHeld, Held, HooksTyped, Starting, Checking, Step, Goto, KeepLocals, locals, processes, Empty
<1>17. ASSUME NEW s \in Hook, ReadRecord(s) PROVE MarkerIsHeld'
  BY <1>17 DEF ReadRecord, MarkerIsHeld, Held, HooksTyped, Starting, Checking, Step, Goto, KeepLocals, locals, processes, Empty
<1>18. ASSUME NEW s \in Hook, ShowFailure(s) PROVE MarkerIsHeld'
  BY <1>18 DEF ShowFailure, MarkerIsHeld, Held, HooksTyped, Starting, Checking, Step, Goto, KeepLocals, locals, processes, Empty
<1>19. ASSUME NEW s \in Session, NewPrompt(s) PROVE MarkerIsHeld'
  BY <1>19 DEF NewPrompt, MarkerIsHeld, Held, hook, locals, processes, Empty
<1>20. ASSUME NEW i \in Indexer, ClaimLock(i) PROVE MarkerIsHeld'
  BY <1>20 DEF ClaimLock, MarkerIsHeld, Held, HooksTyped, Starting, Checking, FilesTyped, hook, locals, processes, Empty
<1>21. ASSUME NEW i \in Indexer, ResetManifest(i) PROVE MarkerIsHeld'
  BY <1>21 DEF ResetManifest, MarkerIsHeld, Held, HooksTyped, Starting, Checking, hook, locals, processes, Empty
<1>22. ASSUME NEW i \in Indexer, FinishIndex(i) PROVE MarkerIsHeld'
  BY <1>22 DEF FinishIndex, MarkerIsHeld, Held, HooksTyped, Starting, Checking, hook, locals, processes, Empty
<1>23. ASSUME NEW i \in Indexer, EndIndex(i) PROVE MarkerIsHeld'
  BY <1>23 DEF EndIndex, MarkerIsHeld, Held, Alive, FilesTyped, Indexer, HooksTyped, Starting, hook, locals, Empty
<1>24. ASSUME StartManual PROVE MarkerIsHeld'
  BY <1>24 DEF StartManual, MarkerIsHeld, Held, HooksTyped, Starting, Checking, hook, locals, processes, Empty
<1>25. ASSUME Tick PROVE MarkerIsHeld'
  BY <1>25 DEF Tick, MarkerIsHeld, Held, HooksTyped, Starting, Checking, hook, locals, processes, Empty
<1>26. CASE UNCHANGED vars
  BY <1>26 DEF vars, MarkerIsHeld, Held, hook, locals, processes, Empty
<1> QED
  BY <1>1, <1>2, <1>3, <1>4, <1>5, <1>6, <1>7, <1>8, <1>9, <1>10, <1>11, <1>12, <1>13, <1>14, <1>15, <1>16, <1>17, <1>18, <1>19, <1>20, <1>21, <1>22, <1>23, <1>24, <1>25, <1>26
     DEF Next, StartHook, CheckHook, IndexStep

(* No two indexes that SessionStart hooks have spawned are starting at once, until a     *)
(* marker that was needed is removed (hooks/spawn.rs:54-56).                       *)
THEOREM Serialized == Spec => []SpawnsAreSerialized
<1>1. Init => MarkerIsHeld
  <2> SUFFICES ASSUME Init, NEW s \in Session PROVE Held(s)
    BY DEF MarkerIsHeld
  <2>1. pc[s] = "idle" /\ index[s] = "none"
    BY DEF Init, Hook, Indexer
  <2> QED
    BY <2>1 DEF Held, Starting
<1>2. Typed /\ MarkerIsHeld /\ [Next]_vars => MarkerIsHeld'
  BY Holding
<1>3. Typed /\ MarkerIsHeld => SpawnsAreSerialized
  BY HolderIsNamed DEF Typed, MarkerIsHeld, SpawnsAreSerialized, Holds
<1> QED
  BY <1>1, <1>2, <1>3, Typing, PTL DEF Spec

-----------------------------------------------------------------------------
(* A marker made while a claim is under way is of this unit of the clock; and none is   *)
(* older than an index that is starting, nor is one that a check has read, unless the   *)
(* index was spawned since.                                                   *)
NoOlderMarker ==
  \A t \in Session :
    /\ pc[t] \in {"write", "spawn", "record"} => marker = Absent \/ marker.created = now
    /\ index[t] = "boot" =>
         /\ born[t] <= now /\ now - born[t] < FailureGrace
         /\ marker = Absent \/ born[t] <= marker.created
         /\ \A c \in Hook : pc[c] \in Checking /\ ~overtaken[c] => born[t] <= mine[c].created

(* A check that has seen no index running, and is not overtaken, has read a young       *)
(* marker as long as an index of a session is alive, and declares no failure.          *)
QuietSinceTheLook ==
  \A c \in Hook, t \in Session :
    pc[c] \in Checking \ {"lock"} /\ ~overtaken[c] /\ Alive(t) =>
      pc[c] \notin {"ledger", "tell"} /\ Age(mine[c]) < FailureGrace

LEMMA Aging == ASSUME Typed, NoOlderMarker, [Next]_vars PROVE NoOlderMarker'
<1> USE PendingAssumption DEF Typed, Hook
<1>1. ASSUME NEW s \in Session, Skip(s) PROVE NoOlderMarker'
  BY <1>1 DEF Skip, NoOlderMarker, HooksTyped, Starting, Checking, Step, Goto, KeepLocals, locals, processes
<1>2. ASSUME NEW s \in Session, Prepare(s) PROVE NoOlderMarker'
  BY <1>2 DEF Prepare, NoOlderMarker, HooksTyped, Starting, Checking, Step, Goto, KeepLocals, locals, processes
<1>3. ASSUME NEW s \in Session, Create(s) PROVE NoOlderMarker'
  BY <1>3 DEF Create, NoOlderMarker, HooksTyped, FilesTyped, Starting, Checking, Step, Goto, KeepLocals, locals, processes, Empty, Marker, Time, Indexer
<1>4. ASSUME NEW s \in Session, CreateFails(s) PROVE NoOlderMarker'
  BY <1>4 DEF CreateFails, NoOlderMarker, HooksTyped, Starting, Checking, Step, Goto, KeepLocals, locals, processes
<1>5. ASSUME NEW s \in Session, WritePayload(s) PROVE NoOlderMarker'
  BY <1>5 DEF WritePayload, NoOlderMarker, HooksTyped, FilesTyped, Starting, Checking, Step, Goto, KeepLocals, locals, processes, Empty, Marker, Time, Indexer
<1>6. ASSUME NEW s \in Session, Judge(s) PROVE NoOlderMarker'
  BY <1>6 DEF Judge, NoOlderMarker, HooksTyped, Starting, Checking, Step, Goto, KeepLocals, locals, processes
<1>7. ASSUME NEW s \in Session, Remove(s) PROVE NoOlderMarker'
  BY <1>7 DEF Remove, NoOlderMarker, HooksTyped, Starting, Checking, Step, Goto, KeepLocals, locals, processes
<1>8. ASSUME NEW s \in Session, Spawn(s) PROVE NoOlderMarker'
  <2>1. /\ pc' = [pc EXCEPT ![s] = "record"] /\ pc[s] = "spawn" /\ index' = [index EXCEPT ![s] = "boot"]
        /\ born' = [born EXCEPT ![s] = now] /\ UNCHANGED <<now, marker, mine>>
    BY <1>8 DEF Spawn, Goto
  <2>2. \A c \in Hook : pc'[c] \in Checking => overtaken'[c]
    <3>1. overtaken' = [o \in Hook |-> pc[o] \in Checking]
      BY <1>8 DEF Spawn
    <3> QED
      BY <2>1, <3>1, ZenonT(40) DEF HooksTyped, Checking
  <2>3. now \in Nat /\ now - now = 0 /\ 0 < FailureGrace
    BY DEF FilesTyped, Time
  <2>4. marker = Absent \/ marker.created = now
    BY <2>1 DEF NoOlderMarker
  <2> QED
    BY <2>1, <2>2, <2>3, <2>4 DEF NoOlderMarker, HooksTyped, FilesTyped, Indexer
<1>9. ASSUME NEW s \in Session, SpawnFails(s) PROVE NoOlderMarker'
  BY <1>9 DEF SpawnFails, NoOlderMarker, HooksTyped, Starting, Checking, Step, Goto, KeepLocals, locals, processes
<1>10. ASSUME NEW s \in Session, Record(s) PROVE NoOlderMarker'
  BY <1>10 DEF Record, NoOlderMarker, HooksTyped, FilesTyped, Starting, Checking, Step, Goto, KeepLocals, locals, processes, Empty, Marker, Time, Indexer
<1>11. ASSUME NEW s \in Session, HookKilled(s) PROVE NoOlderMarker'
  BY <1>11 DEF HookKilled, NoOlderMarker, HooksTyped, Starting, Checking, Step, Goto, KeepLocals, locals, processes
<1>12. ASSUME NEW s \in Hook, ReadMarker(s) PROVE NoOlderMarker'
  BY <1>12 DEF ReadMarker, NoOlderMarker, HooksTyped, Checking, Starting, Goto, Written, processes
<1>13. ASSUME NEW s \in Hook, LookAtLock(s) PROVE NoOlderMarker'
  BY <1>13 DEF LookAtLock, NoOlderMarker, HooksTyped, Starting, Checking, Step, Goto, KeepLocals, locals, processes
<1>14. ASSUME NEW s \in Hook, ReadManifest(s) PROVE NoOlderMarker'
  BY <1>14 DEF ReadManifest, NoOlderMarker, HooksTyped, Starting, Checking, Step, Goto, KeepLocals, locals, processes
<1>15. ASSUME NEW s \in Hook, Consume(s) PROVE NoOlderMarker'
  BY <1>15 DEF Consume, NoOlderMarker, HooksTyped, Starting, Checking, Step, Goto, KeepLocals, locals, processes
<1>16. ASSUME NEW s \in Hook, Probe(s) PROVE NoOlderMarker'
  BY <1>16 DEF Probe, NoOlderMarker, HooksTyped, Starting, Checking, Step, Goto, KeepLocals, locals, processes
<1>17. ASSUME NEW s \in Hook, ReadRecord(s) PROVE NoOlderMarker'
  BY <1>17 DEF ReadRecord, NoOlderMarker, HooksTyped, Starting, Checking, Step, Goto, KeepLocals, locals, processes
<1>18. ASSUME NEW s \in Hook, ShowFailure(s) PROVE NoOlderMarker'
  BY <1>18 DEF ShowFailure, NoOlderMarker, HooksTyped, Starting, Checking, Step, Goto, KeepLocals, locals, processes
<1>19. ASSUME NEW s \in Session, NewPrompt(s) PROVE NoOlderMarker'
  BY <1>19 DEF NewPrompt, NoOlderMarker, hook, locals, processes
<1>20. ASSUME NEW i \in Indexer, ClaimLock(i) PROVE NoOlderMarker'
  BY <1>20 DEF ClaimLock, NoOlderMarker, FilesTyped, hook, locals, processes, Indexer, Alive
<1>21. ASSUME NEW i \in Indexer, ResetManifest(i) PROVE NoOlderMarker'
  BY <1>21 DEF ResetManifest, NoOlderMarker, FilesTyped, hook, locals, processes, Indexer, Alive
<1>22. ASSUME NEW i \in Indexer, FinishIndex(i) PROVE NoOlderMarker'
  BY <1>22 DEF FinishIndex, NoOlderMarker, FilesTyped, hook, locals, processes, Indexer, Alive
<1>23. ASSUME NEW i \in Indexer, EndIndex(i) PROVE NoOlderMarker'
  BY <1>23 DEF EndIndex, NoOlderMarker, FilesTyped, hook, locals, processes, Indexer, Alive
<1>24. ASSUME StartManual PROVE NoOlderMarker'
  BY <1>24 DEF StartManual, NoOlderMarker, FilesTyped, hook, locals, processes, Indexer, Alive
<1>25. ASSUME Tick PROVE NoOlderMarker'
  BY <1>25 DEF Tick, NoOlderMarker, HooksTyped, FilesTyped, hook, locals, processes, Starting, Checking, Time, Indexer
<1>26. CASE UNCHANGED vars
  BY <1>26 DEF vars, NoOlderMarker, hook, locals, processes
<1> QED
  BY <1>1, <1>2, <1>3, <1>4, <1>5, <1>6, <1>7, <1>8, <1>9, <1>10, <1>11, <1>12, <1>13, <1>14, <1>15, <1>16, <1>17, <1>18, <1>19, <1>20, <1>21, <1>22, <1>23, <1>24, <1>25, <1>26
     DEF Next, StartHook, CheckHook, IndexStep

LEMMA Quieting == ASSUME Typed, NoOlderMarker, QuietSinceTheLook, [Next]_vars PROVE QuietSinceTheLook'
<1> USE PendingAssumption DEF Typed, Hook
<1>1. ASSUME NEW s \in Session, Skip(s) PROVE QuietSinceTheLook'
  BY <1>1 DEF Skip, QuietSinceTheLook, HooksTyped, Starting, Checking, Step, Goto, KeepLocals, locals, processes, Alive, Age
<1>2. ASSUME NEW s \in Session, Prepare(s) PROVE QuietSinceTheLook'
  BY <1>2 DEF Prepare, QuietSinceTheLook, HooksTyped, Starting, Checking, Step, Goto, KeepLocals, locals, processes, Alive, Age
<1>3. ASSUME NEW s \in Session, Create(s) PROVE QuietSinceTheLook'
  BY <1>3 DEF Create, QuietSinceTheLook, HooksTyped, Starting, Checking, Step, Goto, KeepLocals, locals, processes, Alive, Age
<1>4. ASSUME NEW s \in Session, CreateFails(s) PROVE QuietSinceTheLook'
  BY <1>4 DEF CreateFails, QuietSinceTheLook, HooksTyped, Starting, Checking, Step, Goto, KeepLocals, locals, processes, Alive, Age
<1>5. ASSUME NEW s \in Session, WritePayload(s) PROVE QuietSinceTheLook'
  BY <1>5 DEF WritePayload, QuietSinceTheLook, HooksTyped, Starting, Checking, Step, Goto, KeepLocals, locals, processes, Alive, Age
<1>6. ASSUME NEW s \in Session, Judge(s) PROVE QuietSinceTheLook'
  BY <1>6 DEF Judge, QuietSinceTheLook, HooksTyped, Starting, Checking, Step, Goto, KeepLocals, locals, processes, Alive, Age
<1>7. ASSUME NEW s \in Session, Remove(s) PROVE QuietSinceTheLook'
  BY <1>7 DEF Remove, QuietSinceTheLook, HooksTyped, Starting, Checking, Step, Goto, KeepLocals, locals, processes, Alive, Age
<1>8. ASSUME NEW s \in Session, Spawn(s) PROVE QuietSinceTheLook'
  <2>1. \A c \in Hook : pc'[c] \in Checking => overtaken'[c]
    BY <1>8, ZenonT(40) DEF Spawn, Goto, HooksTyped, Checking
  <2> QED
    BY <2>1 DEF QuietSinceTheLook
<1>9. ASSUME NEW s \in Session, SpawnFails(s) PROVE QuietSinceTheLook'
  BY <1>9 DEF SpawnFails, QuietSinceTheLook, HooksTyped, Starting, Checking, Step, Goto, KeepLocals, locals, processes, Alive, Age
<1>10. ASSUME NEW s \in Session, Record(s) PROVE QuietSinceTheLook'
  BY <1>10 DEF Record, QuietSinceTheLook, HooksTyped, Starting, Checking, Step, Goto, KeepLocals, locals, processes, Alive, Age
<1>11. ASSUME NEW s \in Session, HookKilled(s) PROVE QuietSinceTheLook'
  BY <1>11 DEF HookKilled, QuietSinceTheLook, HooksTyped, Starting, Checking, Step, Goto, KeepLocals, locals, processes, Alive, Age
<1>12. ASSUME NEW s \in Hook, ReadMarker(s) PROVE QuietSinceTheLook'
  BY <1>12 DEF ReadMarker, QuietSinceTheLook, HooksTyped, Starting, Checking, Step, Goto, KeepLocals, locals, processes, Alive, Age
<1>13. ASSUME NEW s \in Hook, LookAtLock(s) PROVE QuietSinceTheLook'
  <2>1. UNCHANGED <<now, index, born>>
    BY <1>13 DEF LookAtLock, processes
  <2>2. CASE IndexRunning
    BY <1>13, <2>1, <2>2 DEF LookAtLock, QuietSinceTheLook, HooksTyped, Checking, Step, Goto, KeepLocals, Alive, Age
  <2>3. CASE ~IndexRunning
    <3>1. pc' = [pc EXCEPT ![s] = "manifest"] /\ pc[s] = "lock" /\ UNCHANGED <<mine, overtaken>>
      BY <1>13, <2>3 DEF LookAtLock, Step, Goto, KeepLocals, locals
    <3>2. ASSUME ~overtaken[s], NEW t \in Session, Alive(t) PROVE Age(mine[s]) < FailureGrace
      <4>1. index[t] = "boot"
        BY <2>3, <3>2 DEF IndexRunning, Alive, Indexer
      <4>2. now - born[t] < FailureGrace /\ born[t] <= mine[s].created
        BY <3>1, <3>2, <4>1 DEF NoOlderMarker, Checking
      <4>3. now \in Nat /\ born[t] \in Nat /\ FailureGrace \in Nat
        BY DEF FilesTyped, Time, Indexer
      <4>4. mine[s] \in Marker
        BY <3>1 DEF HooksTyped, Checking
      <4> QED
        BY <4>2, <4>3, <4>4, MarkerFields DEF Age, Time
    <3> QED
      BY <2>1, <3>1, <3>2 DEF QuietSinceTheLook, HooksTyped, Checking, Alive, Age
  <2> QED
    BY <2>2, <2>3
<1>14. ASSUME NEW s \in Hook, ReadManifest(s) PROVE QuietSinceTheLook'
  BY <1>14 DEF ReadManifest, QuietSinceTheLook, HooksTyped, Starting, Checking, Step, Goto, KeepLocals, locals, processes, Alive, Age
<1>15. ASSUME NEW s \in Hook, Consume(s) PROVE QuietSinceTheLook'
  BY <1>15 DEF Consume, QuietSinceTheLook, HooksTyped, Starting, Checking, Step, Goto, KeepLocals, locals, processes, Alive, Age
<1>16. ASSUME NEW s \in Hook, Probe(s) PROVE QuietSinceTheLook'
  BY <1>16 DEF Probe, QuietSinceTheLook, HooksTyped, Starting, Checking, Step, Goto, KeepLocals, locals, processes, Alive, Age
<1>17. ASSUME NEW s \in Hook, ReadRecord(s) PROVE QuietSinceTheLook'
  BY <1>17 DEF ReadRecord, QuietSinceTheLook, HooksTyped, Starting, Checking, Step, Goto, KeepLocals, locals, processes, Alive, Age
<1>18. ASSUME NEW s \in Hook, ShowFailure(s) PROVE QuietSinceTheLook'
  BY <1>18 DEF ShowFailure, QuietSinceTheLook, HooksTyped, Starting, Checking, Step, Goto, KeepLocals, locals, processes, Alive, Age
<1>19. ASSUME NEW s \in Session, NewPrompt(s) PROVE QuietSinceTheLook'
  BY <1>19 DEF NewPrompt, QuietSinceTheLook, hook, locals, processes, Alive, Age
<1>20. ASSUME NEW i \in Indexer, ClaimLock(i) PROVE QuietSinceTheLook'
  BY <1>20 DEF ClaimLock, QuietSinceTheLook, FilesTyped, hook, locals, Indexer, Alive, Age, processes
<1>21. ASSUME NEW i \in Indexer, ResetManifest(i) PROVE QuietSinceTheLook'
  BY <1>21 DEF ResetManifest, QuietSinceTheLook, FilesTyped, hook, locals, Indexer, Alive, Age, processes
<1>22. ASSUME NEW i \in Indexer, FinishIndex(i) PROVE QuietSinceTheLook'
  BY <1>22 DEF FinishIndex, QuietSinceTheLook, FilesTyped, hook, locals, Indexer, Alive, Age, processes
<1>23. ASSUME NEW i \in Indexer, EndIndex(i) PROVE QuietSinceTheLook'
  BY <1>23 DEF EndIndex, QuietSinceTheLook, FilesTyped, hook, locals, Indexer, Alive, Age, processes
<1>24. ASSUME StartManual PROVE QuietSinceTheLook'
  BY <1>24 DEF StartManual, QuietSinceTheLook, FilesTyped, hook, locals, Indexer, Alive, Age, processes
<1>25. ASSUME Tick PROVE QuietSinceTheLook'
  BY <1>25 DEF Tick, QuietSinceTheLook, HooksTyped, hook, locals, Checking
<1>26. CASE UNCHANGED vars
  BY <1>26 DEF vars, QuietSinceTheLook, hook, locals, processes, Alive, Age
<1> QED
  BY <1>1, <1>2, <1>3, <1>4, <1>5, <1>6, <1>7, <1>8, <1>9, <1>10, <1>11, <1>12, <1>13, <1>14, <1>15, <1>16, <1>17, <1>18, <1>19, <1>20, <1>21, <1>22, <1>23, <1>24, <1>25, <1>26
     DEF Next, StartHook, CheckHook, IndexStep

-----------------------------------------------------------------------------
(* Who has been told in its turn has the turn recorded; and who is about to tell is the    *)
(* first, unless another notice of the session has overtaken its look at the record.        *)
NoticeIsFirst ==
  /\ \A s \in Session \ Anonymous : failures[s] > 0 => shown[s] = prompt[s]
  /\ \A h \in Hook : pc[h] = "tell" /\ ~Unattributed(h) /\ h \notin raced => failures[SessionOf(h)] = 0

(* Only a look at the record brings a hook to tell, and only a notice and a new turn      *)
(* change the records.                                                              *)
LEMMA Recording ==
  ASSUME NoticeIsFirst, UNCHANGED <<prompt, shown, failures, raced>>,
         \A h \in Hook : pc'[h] = "tell" => pc[h] = "tell"
  PROVE  NoticeIsFirst'
BY DEF NoticeIsFirst, Unattributed

LEMMA Noticing == ASSUME Typed, NoticeIsFirst, [Next]_vars PROVE NoticeIsFirst'
<1> USE DEF Typed, Hook
<1>1. ASSUME NEW s \in Session, Skip(s) PROVE NoticeIsFirst'
  BY <1>1, Recording DEF Skip, Step, Goto, HooksTyped, ledgers
<1>2. ASSUME NEW s \in Session, Prepare(s) PROVE NoticeIsFirst'
  BY <1>2, Recording DEF Prepare, Step, Goto, HooksTyped, ledgers, Starting
<1>3. ASSUME NEW s \in Session, Create(s) PROVE NoticeIsFirst'
  BY <1>3, Recording DEF Create, Step, Goto, HooksTyped, ledgers
<1>4. ASSUME NEW s \in Session, CreateFails(s) PROVE NoticeIsFirst'
  BY <1>4, Recording DEF CreateFails, Step, Goto, HooksTyped, ledgers
<1>5. ASSUME NEW s \in Session, WritePayload(s) PROVE NoticeIsFirst'
  BY <1>5, Recording DEF WritePayload, Step, Goto, HooksTyped, ledgers
<1>6. ASSUME NEW s \in Session, Judge(s) PROVE NoticeIsFirst'
  BY <1>6, Recording DEF Judge, Step, Goto, HooksTyped, ledgers
<1>7. ASSUME NEW s \in Session, Remove(s) PROVE NoticeIsFirst'
  BY <1>7, Recording DEF Remove, Step, Goto, HooksTyped, ledgers, Starting
<1>8. ASSUME NEW s \in Session, Spawn(s) PROVE NoticeIsFirst'
  BY <1>8, Recording DEF Spawn, Step, Goto, HooksTyped, ledgers, Starting
<1>9. ASSUME NEW s \in Session, SpawnFails(s) PROVE NoticeIsFirst'
  BY <1>9, Recording DEF SpawnFails, Step, Goto, HooksTyped, ledgers
<1>10. ASSUME NEW s \in Session, Record(s) PROVE NoticeIsFirst'
  BY <1>10, Recording DEF Record, Step, Goto, HooksTyped, ledgers
<1>11. ASSUME NEW s \in Session, HookKilled(s) PROVE NoticeIsFirst'
  BY <1>11, Recording DEF HookKilled, Step, Goto, HooksTyped, ledgers, Starting
<1>12. ASSUME NEW s \in Hook, ReadMarker(s) PROVE NoticeIsFirst'
  BY <1>12, Recording DEF ReadMarker, Step, Goto, HooksTyped, ledgers, Starting
<1>13. ASSUME NEW s \in Hook, LookAtLock(s) PROVE NoticeIsFirst'
  BY <1>13, Recording DEF LookAtLock, Step, Goto, HooksTyped, ledgers
<1>14. ASSUME NEW s \in Hook, ReadManifest(s) PROVE NoticeIsFirst'
  BY <1>14, Recording DEF ReadManifest, Step, Goto, HooksTyped, ledgers
<1>15. ASSUME NEW s \in Hook, Consume(s) PROVE NoticeIsFirst'
  BY <1>15, Recording DEF Consume, Step, Goto, HooksTyped, ledgers, Starting
<1>16. ASSUME NEW s \in Hook, Probe(s) PROVE NoticeIsFirst'
  BY <1>16, Recording DEF Probe, Step, Goto, HooksTyped, ledgers
<1>17. ASSUME NEW s \in Hook, ReadRecord(s) PROVE NoticeIsFirst'
  <2>1. SessionOf(s) \in Session /\ pc \in [Hook -> {"idle", "open"} \cup Starting \cup Checking]
    BY SessionOfHook DEF HooksTyped
  <2>2. UNCHANGED <<prompt, shown, failures>>
    BY <1>17 DEF ReadRecord
  <2>3. ~Unattributed(s) /\ ~Recorded(s) => failures[SessionOf(s)] = 0
    <3>1. failures[SessionOf(s)] \in 0..2
      BY <2>1 DEF FilesTyped
    <3> QED
      BY <2>1, <3>1 DEF NoticeIsFirst, Unattributed, Recorded
  <2>4. CASE UNCHANGED raced /\ Step(s, "ledger", IF Recorded(s) THEN "open" ELSE "tell")
    BY <2>1, <2>2, <2>3, <2>4 DEF Step, Goto, NoticeIsFirst, Unattributed
  <2>5. CASE Step(s, "ledger", "tell") /\ raced' = raced \cup {s}
    BY <2>1, <2>2, <2>5 DEF Step, Goto, NoticeIsFirst, Unattributed
  <2> QED
    BY <1>17, <2>4, <2>5 DEF ReadRecord
<1>18. ASSUME NEW s \in Hook, ShowFailure(s) PROVE NoticeIsFirst'
  <2>1. SessionOf(s) \in Session /\ pc \in [Hook -> {"idle", "open"} \cup Starting \cup Checking]
    BY SessionOfHook DEF HooksTyped
  <2>2. /\ pc' = [pc EXCEPT ![s] = "open"] /\ raced' = (raced \cup Tellers(s)) \ {s}
        /\ UNCHANGED prompt
    BY <1>18 DEF ShowFailure, Step, Goto
  <2>3. CASE Unattributed(s)
    <3>1. UNCHANGED <<shown, failures>>
      BY <1>18, <2>3 DEF ShowFailure
    <3> QED
      BY <2>1, <2>2, <3>1 DEF NoticeIsFirst, Unattributed
  <2>4. CASE ~Unattributed(s)
    <3>1. /\ shown' = [shown EXCEPT ![SessionOf(s)] = prompt[SessionOf(s)]]
          /\ failures' = [failures EXCEPT ![SessionOf(s)] = IF @ = 0 THEN 1 ELSE 2]
      BY <1>18, <2>4 DEF ShowFailure
    <3>2. ASSUME NEW u \in Session \ Anonymous, failures'[u] > 0 PROVE shown'[u] = prompt'[u]
      BY <2>1, <2>2, <3>1, <3>2 DEF NoticeIsFirst, FilesTyped
    <3>3. ASSUME NEW h \in Hook, pc'[h] = "tell", ~Unattributed(h), h \notin raced'
          PROVE  failures'[SessionOf(h)] = 0
      <4>1. h # s /\ pc[h] = "tell" /\ h \notin raced /\ h \notin Tellers(s)
        BY <2>1, <2>2, <3>3
      <4>2. SessionOf(h) # SessionOf(s) /\ SessionOf(h) \in Session
        BY <4>1, SessionOfHook DEF Tellers
      <4> QED
        BY <3>1, <3>3, <4>1, <4>2 DEF NoticeIsFirst, FilesTyped
    <3> QED
      BY <3>2, <3>3 DEF NoticeIsFirst, Unattributed
  <2> QED
    BY <2>3, <2>4
<1>19. ASSUME NEW s \in Session, NewPrompt(s) PROVE NoticeIsFirst'
  BY <1>19, SessionOfHook DEF NewPrompt, NoticeIsFirst, Unattributed, FilesTyped, hook
<1>20. ASSUME NEW i \in Indexer, ClaimLock(i) PROVE NoticeIsFirst'
  BY <1>20, Recording DEF ClaimLock, ledgers, hook
<1>21. ASSUME NEW i \in Indexer, ResetManifest(i) PROVE NoticeIsFirst'
  BY <1>21, Recording DEF ResetManifest, ledgers, hook
<1>22. ASSUME NEW i \in Indexer, FinishIndex(i) PROVE NoticeIsFirst'
  BY <1>22, Recording DEF FinishIndex, ledgers, hook
<1>23. ASSUME NEW i \in Indexer, EndIndex(i) PROVE NoticeIsFirst'
  BY <1>23, Recording DEF EndIndex, ledgers, hook
<1>24. ASSUME StartManual PROVE NoticeIsFirst'
  BY <1>24, Recording DEF StartManual, ledgers, hook
<1>25. ASSUME Tick PROVE NoticeIsFirst'
  BY <1>25, Recording DEF Tick, ledgers, hook
<1>26. CASE UNCHANGED vars
  BY <1>26, Recording DEF vars, ledgers, hook
<1> QED
  BY <1>1, <1>2, <1>3, <1>4, <1>5, <1>6, <1>7, <1>8, <1>9, <1>10, <1>11, <1>12, <1>13, <1>14, <1>15, <1>16, <1>17, <1>18, <1>19, <1>20, <1>21, <1>22, <1>23, <1>24, <1>25, <1>26
     DEF Next, StartHook, CheckHook, IndexStep

(* By a check no spawn has overtaken, a session is told of a failure only while no index   *)
(* of any session is starting or running (ready_check.rs:63-68), and told for the first     *)
(* time in its turn by every hook whose look at the record no other notice of the session    *)
(* has overtaken (ready_check.rs:84-90), however many hooks of a session run at once.        *)
THEOREM Quiet == Spec => FailureMeansQuiet
<1>1. Init => NoOlderMarker /\ QuietSinceTheLook
  BY DEF Init, NoOlderMarker, QuietSinceTheLook, Checking, Indexer
<1>2. Init => NoticeIsFirst
  BY DEF Init, NoticeIsFirst
<1>3. Typed /\ NoOlderMarker /\ [Next]_vars => NoOlderMarker'
  BY Aging
<1>4. Typed /\ NoOlderMarker /\ QuietSinceTheLook /\ [Next]_vars => QuietSinceTheLook'
  BY Quieting
<1>5. Typed /\ NoticeIsFirst /\ [Next]_vars => NoticeIsFirst'
  BY Noticing
<1>6. QuietSinceTheLook /\ NoticeIsFirst =>
        \A h \in Hook :
          Tells(h) =>
            /\ ~overtaken[h] => \A t \in Session : ~Alive(t)
            /\ ~Unattributed(h) /\ h \notin raced => failures[SessionOf(h)] = 0
  BY DEF QuietSinceTheLook, NoticeIsFirst, Tells, Checking
<1> QED
  BY <1>1, <1>2, <1>3, <1>4, <1>5, <1>6, Typing, PTL DEF Spec, FailureMeansQuiet
=============================================================================
