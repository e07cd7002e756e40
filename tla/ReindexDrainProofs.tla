-------------------------- MODULE ReindexDrainProofs --------------------------
(***************************************************************************)
(* Theorems about the drain worker and its queue, for every set of files    *)
(* and sessions and every value of the timing constants.                    *)
(***************************************************************************)
EXTENDS ReindexDrain, TLAPS, WellFoundedInduction

(* A non-empty set of naturals has a least element, and Min is one.          *)
LEMMA MinOfNaturals ==
  ASSUME NEW S \in SUBSET Nat, S # {}
  PROVE  Min(S) \in S /\ \A y \in S : Min(S) <= y
<1>1. PICK x \in S : \A y \in S : ~ (<<y, x>> \in OpToRel(<, Nat))
  BY WFMin, NatLessThanWellFounded
<1>2. \A y \in S : x <= y
  <2> SUFFICES ASSUME NEW y \in S PROVE x <= y
    OBVIOUS
  <2>1. ~ (y < x)
    BY <1>1 DEF OpToRel
  <2> QED
    BY <2>1
<1> QED
  BY <1>2 DEF Min

(* A non-empty set of bounded naturals has a greatest element, and Max is one. *)
LEMMA MaxOfBounded ==
  ASSUME NEW n \in Nat, NEW S \in SUBSET (0..n), S # {}
  PROVE  Max(S) \in S /\ \A y \in S : Max(S) >= y
<1> DEFINE T == {k \in 0..n : n - k \in S}
<1>1. T \in SUBSET Nat /\ T # {}
  <2>1. PICK y \in S : TRUE
    OBVIOUS
  <2>2. n - y \in 0..n /\ n - (n - y) = y
    BY <2>1
  <2>3. n - y \in T
    BY <2>1, <2>2
  <2>4. T \subseteq Nat
    OBVIOUS
  <2> HIDE DEF T
  <2> QED
    BY <2>3, <2>4
<1>2. Min(T) \in T /\ \A y \in T : Min(T) <= y
  <2> HIDE DEF T
  <2> QED
    BY <1>1, MinOfNaturals
<1>3. n - Min(T) \in S
  BY <1>2
<1>4. ASSUME NEW y \in S
      PROVE  n - Min(T) >= y
  <2>1. n - y \in 0..n /\ n - (n - y) = y
    OBVIOUS
  <2>3. n - y \in T
    BY <2>1
  <2>2. Min(T) <= n - y /\ Min(T) \in 0..n
    BY <2>3, <1>2
  <2> QED
    BY <2>2
<1> QED
  BY <1>3, <1>4 DEF Max

(* The window collapse computes for a queued path consists of stamps of its   *)
(* lines and spans them, and so its deadline is a number.                    *)
LEMMA Windows ==
  ASSUME TypeOK, NEW f \in Queued
  PROVE  /\ LastSeen(f) \in Stamps(f)
         /\ \A l \in LinesOf(f) : l.ts <= LastSeen(f)
         /\ FirstSeen(f) \in Stamps(f)
         /\ Deadline(f) \in Nat
<1>1. Stamps(f) \in SUBSET (1..MaxClock) /\ Stamps(f) # {}
  BY DEF TypeOK, Stamps, LinesOf, Queued, Line
<1>2. MaxClock \in Nat /\ Debounce \in Nat /\ MaxWait \in Nat
  BY DrainAssumption
<1>3. LastSeen(f) \in Stamps(f) /\ \A y \in Stamps(f) : LastSeen(f) >= y
  <2>1. Stamps(f) \in SUBSET (0..MaxClock)
    BY <1>1, <1>2
  <2> QED
    BY <1>1, <1>2, <2>1, MaxOfBounded DEF LastSeen
<1>4. FirstSeen(f) \in Stamps(f)
  <2>1. Stamps(f) \in SUBSET Nat
    BY <1>1, <1>2
  <2> QED
    BY <1>1, <2>1, MinOfNaturals DEF FirstSeen
<1>5. Deadline(f) \in Nat
  <2> DEFINE S == {LastSeen(f) + Debounce, FirstSeen(f) + MaxWait}
  <2>1. S \in SUBSET Nat /\ S # {}
    BY <1>1, <1>2, <1>3, <1>4
  <2>2. Min(S) \in S
    BY <2>1, MinOfNaturals
  <2> QED
    BY <2>1, <2>2 DEF Deadline
<1>6. \A l \in LinesOf(f) : l.ts <= LastSeen(f)
  <2> SUFFICES ASSUME NEW l \in LinesOf(f) PROVE l.ts <= LastSeen(f)
    OBVIOUS
  <2>1. l.ts \in Stamps(f)
    BY DEF Stamps
  <2> QED
    BY <1>1, <1>2, <1>3, <2>1
<1> QED
  BY <1>3, <1>4, <1>5, <1>6
LEMMA LaterIsBounded ==
  ASSUME clock \in 1..MaxClock, NEW d \in Nat
  PROVE  Later(d) \in 0..MaxClock
BY DrainAssumption DEF Later

(* Every variable keeps its type, an edit in the hands of a hook has been      *)
(* made, and the worker has a path whenever it works on one.                 *)
THEOREM Typing == Spec => []TypeOK
<1>1. ASSUME Init
      PROVE  TypeOK
  <2>1. 1 \in 1..MaxClock /\ 0 \in 0..MaxClock /\ 0 \in 0..MaxFaults
    BY DrainAssumption
  <2>2. \A s \in Session : hook[s].stage = "idle" /\ hook[s].path \notin File
    BY <1>1, DrainAssumption DEF Init
  <2>3. hook \in [Session -> [stage : Stage, path : File \cup {None}, n : Nat]]
    BY <1>1 DEF Init, Stage
  <2> QED
    BY <1>1, <2>1, <2>2, <2>3 DEF Init, TypeOK, Location, Pending
<1>2. TypeOK /\ [Next]_vars => TypeOK'
  <2> SUFFICES ASSUME TypeOK, [Next]_vars
               PROVE  TypeOK'
    OBVIOUS
  <2> USE DrainAssumption
      DEF TypeOK, Goto, environment, round, Location, Stage, Pending, HookDone, Fault, GiveUpOn
  <2>1. ASSUME NEW s \in Session, NEW f \in File, Edit(s, f)
        PROVE  TypeOK'
    BY <2>1 DEF Edit
  <2>2. ASSUME NEW s \in Session, Append(s)
        PROVE  TypeOK'
    <3> DEFINE line == [ts |-> clock, path |-> hook[s].path, session |-> s]
    <3>1. line \in Line
      BY <2>2 DEF Append, Line
    <3>2. clock' \in 1..MaxClock
      BY <2>2 DEF Append
    <3> HIDE DEF line
    <3>3. queue' \subseteq Line
      <4>1. queue' = queue \cup {line}
        BY <2>2 DEF Append, line
      <4> QED
        BY <3>1, <4>1
    <3>4. hook' = [hook EXCEPT ![s].stage = "ensure"] /\ hook[s].stage = "append"
      BY <2>2 DEF Append
    <3>5. UNCHANGED <<disk, worker, round, indexed, missed, faults>> /\ orphaned' \in BOOLEAN
      BY <2>2 DEF Append
    <3> QED
      BY <3>2, <3>3, <3>4, <3>5
  <2>3. ASSUME NEW s \in Session, AppendFails(s)
        PROVE  TypeOK'
    BY <2>3 DEF AppendFails
  <2>4. ASSUME NEW s \in Session, EnsureWorker(s)
        PROVE  TypeOK'
    BY <2>4 DEF EnsureWorker
  <2>5. ASSUME NEW s \in Session, SpawnFails(s)
        PROVE  TypeOK'
    BY <2>5 DEF SpawnFails
  <2>6. ASSUME Boot
        PROVE  TypeOK'
    BY <2>6 DEF Boot
  <2>7. ASSUME StartRound
        PROVE  TypeOK'
    <3>1. \A f \in Due : LastSeen(f) \in 0..MaxClock
      BY Windows DEF Due, Stamps, LinesOf, Line
    <3>2. Due \subseteq File
      BY DEF Due, Queued, Line
    <3>3. cutoff' \in [File -> 0..MaxClock]
      BY <2>7, <3>1 DEF StartRound
    <3> QED
      BY <2>7, <3>2, <3>3 DEF StartRound
  <2>8. ASSUME SleepToDeadline
        PROVE  TypeOK'
    <3> DEFINE S == {Deadline(f) : f \in Queued \ Due}
    <3>1. S \in SUBSET Nat
      BY Windows
    <3>2. S # {}
      BY <2>8 DEF SleepToDeadline
    <3>3. NextDeadline \in Nat
      BY <3>1, <3>2, MinOfNaturals DEF NextDeadline
    <3>4. Clamp(NextDeadline - clock) \in Nat
      BY <3>3 DEF Clamp
    <3>5. wake' \in 0..MaxClock
      BY <2>8, <3>4, LaterIsBounded DEF SleepToDeadline
    <3> QED
      BY <2>8, <3>5 DEF SleepToDeadline
  <2>9. ASSUME NothingQueued
        PROVE  TypeOK'
    BY <2>9 DEF NothingQueued
  <2>10. ASSUME NEW f \in File, LockPath(f)
        PROVE  TypeOK'
    BY <2>10 DEF LockPath
  <2>11. ASSUME ReadFile
        PROVE  TypeOK'
    BY <2>11 DEF ReadFile
  <2>12. ASSUME Reindex
        PROVE  TypeOK'
    BY <2>12 DEF Reindex
  <2>13. ASSUME Reread
        PROVE  TypeOK'
    BY <2>13 DEF Reread
  <2>14. ASSUME Rewrite
        PROVE  TypeOK'
    BY <2>14 DEF Rewrite
  <2>15. ASSUME EndRound
        PROVE  TypeOK'
    <3>1. PollCap \in Nat
      BY DrainAssumption
    <3>2. Later(PollCap) \in 0..MaxClock
      BY <3>1, LaterIsBounded
    <3>3. wake' = wake \/ wake' = Later(PollCap)
      BY <2>15, Zenon DEF EndRound
    <3>4. wake' \in 0..MaxClock
      BY <3>2, <3>3
    <3>5. worker' \in {"evaluate", "nap"} /\ progressed' = FALSE
      BY <2>15, Zenon DEF EndRound
    <3>6. cutoff' \in [File -> 0..MaxClock]
      BY <2>15 DEF EndRound
    <3>7. UNCHANGED <<environment, queue, todo, cur, got, kept, indexed>>
      BY <2>15 DEF EndRound
    <3> QED
      BY <3>4, <3>5, <3>6, <3>7
  <2>16. ASSUME WakeUp
        PROVE  TypeOK'
    BY <2>16 DEF WakeUp
  <2>17. ASSUME Recheck
        PROVE  TypeOK'
    BY <2>17 DEF Recheck
  <2>18. ASSUME Exit
        PROVE  TypeOK'
    BY <2>18 DEF Exit
  <2>19. ASSUME NEW f \in File, LockTimesOut(f)
        PROVE  TypeOK'
    BY <2>19 DEF LockTimesOut
  <2>20. ASSUME ReindexFails
        PROVE  TypeOK'
    BY <2>20 DEF ReindexFails
  <2>21. ASSUME RemoveFails
        PROVE  TypeOK'
    <3>1. faults' \in 0..MaxFaults
      BY <2>21 DEF RemoveFails
    <3> QED
      BY <2>21, <3>1 DEF RemoveFails
  <2>22. ASSUME WorkerDies
        PROVE  TypeOK'
    <3>1. faults' \in 0..MaxFaults /\ wake' \in 0..MaxClock
      BY <2>22 DEF WorkerDies
    <3>2. cutoff' \in [File -> 0..MaxClock]
      BY <2>22 DEF WorkerDies
    <3>3. got' \in Nat
      BY <2>22 DEF WorkerDies
    <3> QED
      BY <2>22, <3>1, <3>2, <3>3 DEF WorkerDies
  <2>23. ASSUME Tick
        PROVE  TypeOK'
    BY <2>23 DEF Tick
  <2>25. ASSUME QueueUnreadable
        PROVE  TypeOK'
    <3>1. faults' \in 0..MaxFaults
      BY <2>25 DEF QueueUnreadable
    <3>3. orphaned' = orphaned \/ orphaned' = (orphaned \/ queue # {})
      BY <2>25, Zenon DEF QueueUnreadable
    <3>4. orphaned' \in BOOLEAN
      BY <3>3, Zenon
    <3>2. worker' \in {"recheck", "exiting"}
      BY <2>25 DEF QueueUnreadable
    <3> QED
      BY <2>25, <3>1, <3>2, <3>4 DEF QueueUnreadable
  <2>26. ASSUME RereadUnreadable
        PROVE  TypeOK'
    <3>1. missed' \in [File -> Nat]
      BY <2>26 DEF RereadUnreadable
    <3>2. faults' \in 0..MaxFaults
      BY <2>26 DEF RereadUnreadable
    <3> QED
      BY <2>26, <3>1, <3>2 DEF RereadUnreadable
  <2>24. CASE UNCHANGED vars
    BY <2>24 DEF vars, round
  <2> QED
    BY <2>1, <2>2, <2>3, <2>4, <2>5, <2>6, <2>7, <2>8, <2>9, <2>10, <2>11, <2>12, <2>13, <2>14,
       <2>15, <2>16, <2>17, <2>18, <2>19, <2>20, <2>21, <2>22, <2>23, <2>24, <2>25,
          <2>26 DEF Next, WorkerStep
<1> QED
  BY <1>1, <1>2, PTL DEF Spec

(* When no two appends share a millisecond, the lines a worker removes are     *)
(* those of edits its reindex has seen: with EditsAccountedFor, no edit is   *)
(* lost, in any interleaving of edits, hooks, crashes and failed steps.      *)
THEOREM NothingLost ==
  ASSUME ~CoarseClock
  PROVE  Spec => []NoLostEdit
<1>1. Init => EditsAccountedFor
  BY DrainAssumption, SMTT(30) DEF Init, EditsAccountedFor, NoLostEdit, Queued
<1>2. TypeOK /\ TypeOK' /\ EditsAccountedFor /\ [Next]_vars => EditsAccountedFor'
  <2> SUFFICES ASSUME TypeOK, TypeOK', EditsAccountedFor, [Next]_vars
               PROVE  EditsAccountedFor'
    OBVIOUS
  <2> USE DrainAssumption
      DEF TypeOK, Goto, environment, round, Pending, HookDone, Fault, GiveUpOn, Queued, LinesOf,
          EditsAccountedFor, NoLostEdit, Accounted, Drained, Line,
          LastPending
  <2>27. Queued \subseteq File
    OBVIOUS
  <2>0. ASSUME UNCHANGED <<disk, queue, clock, round, indexed, missed>>,
               worker' = worker \/ worker' \notin {"commit", "reread", "rewrite"},
               \A t \in Session, f \in File :
                 Pending(t, f) => Pending(t, f)' /\ hook'[t].n = hook[t].n
        PROVE  EditsAccountedFor'
    <3>1. \A f \in File : LastPending(f) => LastPending(f)'
      BY <2>0
    <3>2. NoLostEdit'
      BY <2>0, <3>1
    <3>3. \A f \in File : \A n : Accounted(f, n) => Accounted(f, n)'
      BY <2>0, <3>1
    <3>4. (worker = "commit" => got <= disk[cur] /\ Accounted(cur, got))'
      BY <2>0, <3>3
    <3>5. (worker \in {"reread", "rewrite"} => Accounted(cur, indexed[cur]))'
      BY <2>0, <3>3
    <3>6. Discarding => Discarding'
      <4> HIDE DEF TypeOK, EditsAccountedFor, NoLostEdit, Accounted, Line, Drained
      <4> QED
        BY <2>27, <2>0, <3>1 DEF Discarding
    <3> QED
      BY <2>0, <3>2, <3>4, <3>5, <3>6
  <2>1. ASSUME NEW s \in Session, NEW f \in File, Edit(s, f)
        PROVE  EditsAccountedFor'
    <3>1. hook[s].stage = "idle" /\ hook'[s] = [stage |-> "append", path |-> f, n |-> disk[f] + 1]
      BY <2>1 DEF Edit
    <3>2. disk'[f] = disk[f] + 1 /\ \A g \in File \ {f} : disk'[g] = disk[g]
      BY <2>1 DEF Edit
    <3>3. \A t \in Session \ {s} : hook'[t] = hook[t]
      BY <2>1 DEF Edit
    <3>4. UNCHANGED <<queue, clock, worker, round, indexed, missed>>
      BY <2>1 DEF Edit
    <3>5. Pending(s, f)' /\ hook'[s].n = disk'[f]
      BY <3>1, <3>2
    <3>6. \A g \in File \ {f}, t \in Session : Pending(t, g) => Pending(t,
       g)' /\ hook'[t].n = hook[t].n
      BY <3>1, <3>3
    <3>7. NoLostEdit'
      BY <3>2, <3>4, <3>5, <3>6
    <3>8. ASSUME NEW g \in File, NEW n, Accounted(g, n)
          PROVE  Accounted(g, n)'
      BY <3>2, <3>4, <3>5, <3>6, <3>8
    <3>9. (worker = "commit" => got <= disk[cur])'
      <4> SUFFICES ASSUME worker = "commit" PROVE got <= disk'[cur]
        BY <3>4
      <4>1. cur \in File /\ got \in Nat /\ disk[cur] \in Nat /\ got <= disk[cur]
        OBVIOUS
      <4> QED
        BY <4>1, <3>2
    <3>10. (worker = "commit" => Accounted(cur, got))'
      <4> SUFFICES ASSUME worker = "commit" PROVE Accounted(cur, got)'
        BY <3>4
      <4>1. cur \in File /\ Accounted(cur, got)
        OBVIOUS
      <4>2. cur' = cur /\ got' = got
        BY <3>4
      <4> QED
        BY <4>1, <4>2, <3>8
    <3>11. (worker \in {"reread", "rewrite"} => Accounted(cur, indexed[cur]))'
      <4> SUFFICES ASSUME worker \in {"reread", "rewrite"} PROVE Accounted(cur, indexed[cur])'
        BY <3>4
      <4>1. cur \in File /\ Accounted(cur, indexed[cur])
        OBVIOUS
      <4>2. cur' = cur /\ indexed' = indexed
        BY <3>4
      <4> QED
        BY <4>1, <4>2, <3>8
    <3>12. \A g \in File : missed'[g] <= disk'[g]
      BY <3>2, <3>4
    <3>13. Discarding => Discarding'
      <4>1. LastPending(f)'
        BY <3>5
      <4>2. \A g \in File \ {f} : LastPending(g) => LastPending(g)'
        BY <3>2, <3>6
      <4>3. Queued' = Queued
        BY <3>4
      <4> HIDE DEF TypeOK, EditsAccountedFor, NoLostEdit, Accounted, Line, Drained, LastPending,
                   Pending, Queued
      <4> QED
        BY <2>27, <3>2, <3>4, <4>1, <4>2, <4>3 DEF Discarding
    <3>14. (worker = "rewrite" => kept = {l \in queue : ~Drained(l)} \/ Discarding)'
      BY <3>4, <3>13
    <3> QED
      BY <3>4, <3>7, <3>9, <3>10, <3>11, <3>12, <3>14
  <2>2. ASSUME NEW s \in Session, Append(s)
        PROVE  EditsAccountedFor'
    <3> DEFINE line == [ts |-> clock, path |-> hook[s].path, session |-> s]
    <3>1. hook[s].stage = "append" /\ queue' = queue \cup {line} /\ clock' = clock + 1
      BY <2>2 DEF Append
    <3>2. UNCHANGED <<disk, worker, round, indexed, missed>> /\ worker # "rewrite"
      BY <2>2 DEF Append
    <3>3. \A t \in Session \ {s} : hook'[t] = hook[t]
      BY <2>2 DEF Append
    <3>4. line.path = hook[s].path /\ line.ts = clock
      OBVIOUS
    <3> HIDE DEF line
    <3>5. \A f \in File, t \in Session :
            Pending(t, f) => \/ Pending(t, f)' /\ hook'[t].n = hook[t].n
                             \/ line \in LinesOf(f)'
      BY <3>1, <3>3, <3>4
    <3>6. \A f \in File : line.ts > cutoff[f]
      BY <3>4
    <3>7. \A f \in File : f \in Queued => f \in Queued'
      BY <3>1
    <3>8. \A f \in File : line \in LinesOf(f)' => f \in Queued'
      OBVIOUS
    <3>9. NoLostEdit'
      BY <3>2, <3>5, <3>7, <3>8
    <3>10. \A f \in File : LinesOf(f) \subseteq LinesOf(f)'
      BY <3>1
    <3>11. (worker = "commit" => got <= disk[cur] /\ Accounted(cur, got))'
      <4> SUFFICES ASSUME worker = "commit" PROVE (got <= disk[cur] /\ Accounted(cur, got))'
        BY <3>2
      <4>1. cur \in File /\ got <= disk[cur] /\ Accounted(cur, got)
        OBVIOUS
      <4> QED
        BY <4>1, <3>2, <3>5, <3>6, <3>10
    <3>12. (worker \in {"reread", "rewrite"} => Accounted(cur, indexed[cur]))'
      <4> SUFFICES ASSUME worker \in {"reread", "rewrite"} PROVE Accounted(cur, indexed[cur])'
        BY <3>2
      <4>1. cur \in File /\ Accounted(cur, indexed[cur])
        OBVIOUS
      <4> QED
        BY <4>1, <3>2, <3>5, <3>6, <3>10
    <3>13. (\A l \in queue : l.ts < clock)'
      BY <3>1, <3>4
    <3>14. (\A f \in File : cutoff[f] < clock /\ missed[f] <= disk[f])'
      BY <3>1, <3>2
    <3> QED
      BY <3>2, <3>9, <3>11, <3>12, <3>13, <3>14
  <2>3. ASSUME NEW s \in Session, AppendFails(s)
        PROVE  EditsAccountedFor'
    <3> DEFINE f == hook[s].path
    <3>1. hook[s].stage = "append" /\ f \in File /\ Pending(s, f) /\ hook[s].n <= disk[f]
      BY <2>3 DEF AppendFails
    <3>2. /\ UNCHANGED <<disk, queue, clock, worker, round, indexed>>
          /\ \A t \in Session \ {s} : hook'[t] = hook[t]
      BY <2>3 DEF AppendFails
    <3>3. \A g \in File \ {f} : missed'[g] = missed[g]
      BY <2>3 DEF AppendFails
    <3>4. missed'[f] = IF hook[s].n > missed[f] THEN hook[s].n ELSE missed[f]
      BY <2>3, <3>1 DEF AppendFails
    <3> HIDE DEF f
    <3>5. hook[s].n \in Nat /\ disk[f] \in Nat /\ missed[f] \in Nat /\ missed[f] <= disk[f]
      BY <3>1
    <3>6. /\ missed'[f] <= disk[f]
          /\ disk[f] = missed[f] \/ disk[f] = hook[s].n => disk[f] = missed'[f]
      <4> HIDE DEF TypeOK, EditsAccountedFor, NoLostEdit, Accounted, Pending
      <4> QED
        BY <3>1, <3>4, <3>5
    <3>7. \A g \in File : disk[g] = missed[g] => disk[g] = missed'[g]
      BY <3>3, <3>6
    <3>8. \A g \in File, t \in Session :
            Pending(t, g) /\ hook[t].n = disk[g]
              => disk[g] = missed'[g] \/ (Pending(t, g)' /\ hook'[t].n = hook[t].n)
      <4> SUFFICES ASSUME NEW g \in File, NEW t \in Session, Pending(t, g), hook[t].n = disk[g]
                   PROVE  disk[g] = missed'[g] \/ (Pending(t, g)' /\ hook'[t].n = hook[t].n)
        OBVIOUS
      <4>1. CASE t = s
        BY <4>1, <3>1, <3>6 DEF f
      <4>2. CASE t # s
        BY <4>2, <3>2
      <4> QED
        BY <4>1, <4>2
    <3>9. NoLostEdit'
      BY <3>2, <3>7, <3>8
    <3>10. (worker = "commit" => got <= disk[cur] /\ Accounted(cur, got))'
      <4> SUFFICES ASSUME worker = "commit" PROVE (got <= disk[cur] /\ Accounted(cur, got))'
        BY <3>2
      <4>1. cur \in File /\ got <= disk[cur] /\ Accounted(cur, got)
        OBVIOUS
      <4> QED
        BY <4>1, <3>2, <3>7, <3>8
    <3>11. (worker \in {"reread", "rewrite"} => Accounted(cur, indexed[cur]))'
      <4> SUFFICES ASSUME worker \in {"reread", "rewrite"} PROVE Accounted(cur, indexed[cur])'
        BY <3>2
      <4>1. cur \in File /\ Accounted(cur, indexed[cur])
        OBVIOUS
      <4> QED
        BY <4>1, <3>2, <3>7, <3>8
    <3>12. (\A g \in File : missed[g] <= disk[g])'
      BY <3>2, <3>3, <3>6
    <3>13. Discarding => Discarding'
      <4> HIDE DEF TypeOK, EditsAccountedFor, NoLostEdit, Accounted, Line, Drained
      <4> QED
        BY <2>27, <3>2, <3>7, <3>8 DEF Discarding
    <3>14. (worker = "rewrite" => kept = {l \in queue : ~Drained(l)} \/ Discarding)'
      BY <3>2, <3>13
    <3> QED
      BY <3>2, <3>9, <3>10, <3>11, <3>12, <3>14
  <2>4. ASSUME NEW s \in Session, EnsureWorker(s)
        PROVE  EditsAccountedFor'
    <3>1. /\ UNCHANGED <<disk, queue, clock, round, indexed, missed>>
          /\ worker' = worker \/ worker' = "boot"
      BY <2>4 DEF EnsureWorker
    <3>2. \A t \in Session, f \in File : Pending(t, f) => Pending(t, f)' /\ hook'[t].n = hook[t].n
      BY <2>4 DEF EnsureWorker
    <3> QED
      BY <3>1, <3>2, <2>0
  <2>5. ASSUME NEW s \in Session, SpawnFails(s)
        PROVE  EditsAccountedFor'
    <3>1. /\ UNCHANGED <<disk, queue, clock, round, indexed, missed>>
          /\ worker' = worker \/ worker' = "boot"
      BY <2>5 DEF SpawnFails
    <3>2. \A t \in Session, f \in File : Pending(t, f) => Pending(t, f)' /\ hook'[t].n = hook[t].n
      BY <2>5 DEF SpawnFails
    <3> QED
      BY <3>1, <3>2, <2>0
  <2>6. ASSUME Boot
        PROVE  EditsAccountedFor'
    BY <2>6 DEF Boot
  <2>7. ASSUME StartRound
        PROVE  EditsAccountedFor'
    <3>1. \A f \in File : cutoff'[f] = IF f \in Due THEN LastSeen(f) ELSE 0
      BY <2>7 DEF StartRound
    <3>2. \A f \in Due : \E l \in queue : LastSeen(f) = l.ts
      <4> SUFFICES ASSUME NEW f \in Due PROVE \E l \in queue : LastSeen(f) = l.ts
        OBVIOUS
      <4>1. LastSeen(f) \in Stamps(f)
        <5> HIDE DEF TypeOK, EditsAccountedFor, Queued
        <5> QED
          BY Windows DEF Due
      <4> QED
        BY <4>1 DEF Stamps
    <3>3. ASSUME NEW f \in File PROVE cutoff'[f] < clock
      <4>1. CASE f \in Due
        <5>1. PICK l \in queue : LastSeen(f) = l.ts
          BY <4>1, <3>2
        <5> QED
          BY <3>1, <4>1, <5>1
      <4>2. CASE f \notin Due
        BY <3>1, <4>2
      <4> QED
        BY <4>1, <4>2
    <3>4. UNCHANGED <<disk, hook, queue, clock, missed, indexed>> /\ worker' = "next"
      BY <2>7 DEF StartRound
    <3> QED
      BY <3>3, <3>4
  <2>8. ASSUME SleepToDeadline
        PROVE  EditsAccountedFor'
    BY <2>8 DEF SleepToDeadline
  <2>9. ASSUME NothingQueued
        PROVE  EditsAccountedFor'
    BY <2>9 DEF NothingQueued
  <2>10. ASSUME NEW f \in File, LockPath(f)
        PROVE  EditsAccountedFor'
    BY <2>10 DEF LockPath
  <2>11. ASSUME ReadFile
        PROVE  EditsAccountedFor'
    BY <2>11 DEF ReadFile
  <2>12. ASSUME Reindex
        PROVE  EditsAccountedFor'
    BY <2>12 DEF Reindex
  <2>13. ASSUME Reread
        PROVE  EditsAccountedFor'
    BY <2>13 DEF Reread
  <2>14. ASSUME Rewrite
        PROVE  EditsAccountedFor'
    <3>1. /\ UNCHANGED <<disk, hook, clock, indexed, missed, cutoff>>
          /\ worker = "rewrite" /\ worker' = "next" /\ queue' = kept
      BY <2>14 DEF Rewrite
    <3>2. kept \subseteq queue
      BY <3>1 DEF Discarding
    <3>3. \A f \in File : LastPending(f) => LastPending(f)'
      BY <3>1
    <3>4. CASE kept = {l \in queue : ~Drained(l)}
      <4>1. cur \in File /\ Accounted(cur, indexed[cur])
        BY <3>1
      <4>2. \A f \in File \ {cur} : f \in Queued => f \in Queued'
        BY <3>1, <3>4
      <4>3. \A l \in LinesOf(cur) : l.ts > cutoff[cur] => l \in queue'
        BY <3>1, <3>4, <4>1
      <4>4. ASSUME NEW f \in File
            PROVE  disk[f] \in {indexed[f], missed[f]} \/ LastPending(f) \/ f \in Queued'
        <5>1. CASE f = cur
          BY <4>1, <4>3, <5>1
        <5>2. CASE f # cur
          BY <4>2, <5>2
        <5> QED
          BY <5>1, <5>2
      <4>5. NoLostEdit'
        BY <3>1, <3>3, <4>4
      <4> QED
        BY <3>1, <3>2, <4>5
    <3>5. CASE Discarding
      <4>1. NoLostEdit'
        BY <3>1, <3>3, <3>5 DEF Discarding
      <4> QED
        BY <3>1, <3>2, <4>1
    <3> QED
      BY <3>1, <3>4, <3>5
  <2>15. ASSUME EndRound
        PROVE  EditsAccountedFor'
    BY <2>15 DEF EndRound
  <2>16. ASSUME WakeUp
        PROVE  EditsAccountedFor'
    BY <2>16 DEF WakeUp
  <2>17. ASSUME Recheck
        PROVE  EditsAccountedFor'
    BY <2>17 DEF Recheck
  <2>18. ASSUME Exit
        PROVE  EditsAccountedFor'
    BY <2>18 DEF Exit
  <2>19. ASSUME NEW f \in File, LockTimesOut(f)
        PROVE  EditsAccountedFor'
    BY <2>19 DEF LockTimesOut
  <2>20. ASSUME ReindexFails
        PROVE  EditsAccountedFor'
    <3>1. cur \in File /\ got <= disk[cur] /\ Accounted(cur, got)
      BY <2>20 DEF ReindexFails
    <3>2. /\ UNCHANGED <<disk, hook, queue, clock, cur, cutoff, indexed>>
          /\ worker' = "reread"
      BY <2>20 DEF ReindexFails
    <3>3. \A g \in File \ {cur} : missed'[g] = missed[g]
      BY <2>20 DEF ReindexFails
    <3>4. missed'[cur] = IF got > missed[cur] THEN got ELSE missed[cur]
      BY <2>20, <3>1 DEF ReindexFails
    <3>5. got \in Nat /\ disk[cur] \in Nat /\ missed[cur] \in Nat /\ missed[cur] <= disk[cur]
      BY <3>1
    <3>6. /\ missed'[cur] <= disk[cur]
          /\ disk[cur] = missed[cur] \/ disk[cur] = got => disk[cur] = missed'[cur]
      <4> HIDE DEF TypeOK, EditsAccountedFor, NoLostEdit, Accounted, Pending
      <4> QED
        BY <3>1, <3>4, <3>5
    <3>7. \A g \in File : disk[g] = missed[g] => disk[g] = missed'[g]
      BY <3>3, <3>6
    <3>8. NoLostEdit'
      BY <3>2, <3>7
    <3>9. Accounted(cur, indexed[cur])'
      BY <3>1, <3>2, <3>6, <3>7
    <3>10. (\A g \in File : missed[g] <= disk[g])'
      BY <3>2, <3>3, <3>6
    <3> QED
      BY <3>2, <3>8, <3>9, <3>10
  <2>21. ASSUME RemoveFails
        PROVE  EditsAccountedFor'
    BY <2>21 DEF RemoveFails
  <2>22. ASSUME WorkerDies
        PROVE  EditsAccountedFor'
    BY <2>22 DEF WorkerDies
  <2>23. ASSUME Tick
        PROVE  EditsAccountedFor'
    <3>1. /\ UNCHANGED <<disk, hook, queue, worker, round, indexed, missed>>
          /\ clock' = clock + 1
      BY <2>23 DEF Tick
    <3>2. NoLostEdit'
      BY <3>1
    <3>3. Discarding => Discarding'
      <4> HIDE DEF TypeOK, EditsAccountedFor, NoLostEdit, Accounted, Line, Drained
      <4> QED
        BY <2>27, <3>1 DEF Discarding
    <3>4. \A f \in File : \A n : Accounted(f, n) => Accounted(f, n)'
      BY <3>1
    <3>5. (worker = "commit" => got <= disk[cur] /\ Accounted(cur, got))'
      BY <3>1, <3>4
    <3>6. (worker \in {"reread", "rewrite"} => Accounted(cur, indexed[cur]))'
      BY <3>1, <3>4
    <3>7. (\A l \in queue : l.ts < clock)' /\ (\A f \in File : cutoff[f] < clock)'
      BY <3>1
    <3> QED
      BY <3>1, <3>2, <3>3, <3>5, <3>6, <3>7
  <2>25. ASSUME QueueUnreadable
        PROVE  EditsAccountedFor'
    BY <2>25 DEF QueueUnreadable
  <2>26. ASSUME RereadUnreadable
        PROVE  EditsAccountedFor'
    <3>1. /\ UNCHANGED <<disk, hook, queue, clock, indexed, cutoff, cur>>
          /\ worker = "reread" /\ worker' = "rewrite" /\ kept' = {}
      BY <2>26 DEF RereadUnreadable
    <3>2. \A f \in File : \/ missed'[f] = missed[f] /\ (f \in Queued => LastPending(f))
                          \/ missed'[f] = disk[f]
      BY <2>26 DEF RereadUnreadable
    <3>3. \A f \in File : LastPending(f) => LastPending(f)'
      BY <3>1
    <3>4. \A f \in File : missed'[f] <= disk[f]
      <4>1. \A f \in File : missed[f] <= disk[f] /\ disk[f] \in Nat
        OBVIOUS
      <4> HIDE DEF TypeOK, EditsAccountedFor, LastPending, Queued
      <4> QED
        BY <3>2, <4>1
    <3>5. NoLostEdit'
      BY <3>1, <3>2, <3>3
    <3>6. Accounted(cur, indexed[cur])'
      <4>1. cur \in File /\ Accounted(cur, indexed[cur])
        BY <3>1
      <4> QED
        BY <3>1, <3>2, <3>3, <4>1
    <3>7. Discarding'
      BY <3>1, <3>2, <3>3 DEF Discarding
    <3> QED
      BY <3>1, <3>4, <3>5, <3>6, <3>7
  <2>24. CASE UNCHANGED vars
    BY <2>0, <2>24 DEF vars, round
  <2> QED
    BY <2>1, <2>2, <2>3, <2>4, <2>5, <2>6, <2>7, <2>8, <2>9, <2>10, <2>11, <2>12, <2>13, <2>14,
       <2>15, <2>16, <2>17, <2>18, <2>19, <2>20, <2>21, <2>22, <2>23, <2>24, <2>25,
          <2>26 DEF Next, WorkerStep
<1>3. EditsAccountedFor => NoLostEdit
  BY DEF EditsAccountedFor
<1> QED
  BY <1>1, <1>2, <1>3, Typing, PTL DEF Spec

(* Whoever finds the queue empty last sees every line that was appended while  *)
(* its hook could still count on it: lines are left without a worker only in *)
(* the exit window or by a failure.                                         *)
THEOREM StrandingIsExplained == Spec => []StrandedOnlyByExitWindow
<1>1. Init => LinesAreAttended
  BY DEF Init, LinesAreAttended
<1>2. TypeOK /\ LinesAreAttended /\ [Next]_vars => LinesAreAttended'
  <2> SUFFICES ASSUME TypeOK, LinesAreAttended, [Next]_vars
               PROVE  LinesAreAttended'
    OBVIOUS
  <2> USE DEF TypeOK, Goto, environment, round, HookDone, Fault, LinesAreAttended
  <2>1. ASSUME NEW s \in Session, NEW f \in File, Edit(s, f)
        PROVE  LinesAreAttended'
    BY <2>1 DEF Edit
  <2>2. ASSUME NEW s \in Session, Append(s)
        PROVE  LinesAreAttended'
    BY <2>2 DEF Append
  <2>3. ASSUME NEW s \in Session, AppendFails(s)
        PROVE  LinesAreAttended'
    BY <2>3 DEF AppendFails
  <2>4. ASSUME NEW s \in Session, EnsureWorker(s)
        PROVE  LinesAreAttended'
    BY <2>4 DEF EnsureWorker
  <2>5. ASSUME NEW s \in Session, SpawnFails(s)
        PROVE  LinesAreAttended'
    BY <2>5 DEF SpawnFails
  <2>6. ASSUME Boot
        PROVE  LinesAreAttended'
    BY <2>6 DEF Boot
  <2>7. ASSUME StartRound
        PROVE  LinesAreAttended'
    BY <2>7 DEF StartRound
  <2>8. ASSUME SleepToDeadline
        PROVE  LinesAreAttended'
    BY <2>8 DEF SleepToDeadline
  <2>9. ASSUME NothingQueued
        PROVE  LinesAreAttended'
    BY <2>9 DEF NothingQueued
  <2>10. ASSUME NEW f \in File, LockPath(f)
        PROVE  LinesAreAttended'
    BY <2>10 DEF LockPath
  <2>11. ASSUME ReadFile
        PROVE  LinesAreAttended'
    BY <2>11 DEF ReadFile
  <2>12. ASSUME Reindex
        PROVE  LinesAreAttended'
    BY <2>12 DEF Reindex
  <2>13. ASSUME Reread
        PROVE  LinesAreAttended'
    BY <2>13 DEF Reread
  <2>14. ASSUME Rewrite
        PROVE  LinesAreAttended'
    BY <2>14 DEF Rewrite
  <2>15. ASSUME EndRound
        PROVE  LinesAreAttended'
    BY <2>15 DEF EndRound
  <2>16. ASSUME WakeUp
        PROVE  LinesAreAttended'
    BY <2>16 DEF WakeUp
  <2>17. ASSUME Recheck
        PROVE  LinesAreAttended'
    BY <2>17 DEF Recheck
  <2>18. ASSUME Exit
        PROVE  LinesAreAttended'
    BY <2>18 DEF Exit
  <2>19. ASSUME NEW f \in File, LockTimesOut(f)
        PROVE  LinesAreAttended'
    BY <2>19 DEF LockTimesOut
  <2>20. ASSUME ReindexFails
        PROVE  LinesAreAttended'
    BY <2>20 DEF ReindexFails
  <2>21. ASSUME RemoveFails
        PROVE  LinesAreAttended'
    BY <2>21 DEF RemoveFails
  <2>22. ASSUME WorkerDies
        PROVE  LinesAreAttended'
    BY <2>22 DEF WorkerDies
  <2>23. ASSUME Tick
        PROVE  LinesAreAttended'
    BY <2>23 DEF Tick
  <2>25. ASSUME QueueUnreadable
        PROVE  LinesAreAttended'
    BY <2>25 DEF QueueUnreadable
  <2>26. ASSUME RereadUnreadable
        PROVE  LinesAreAttended'
    BY <2>26 DEF RereadUnreadable
  <2>24. CASE UNCHANGED vars
    BY <2>24 DEF vars, round
  <2> QED
    BY <2>1, <2>2, <2>3, <2>4, <2>5, <2>6, <2>7, <2>8, <2>9, <2>10, <2>11, <2>12, <2>13, <2>14,
       <2>15, <2>16, <2>17, <2>18, <2>19, <2>20, <2>21, <2>22, <2>23, <2>24, <2>25,
          <2>26 DEF Next, WorkerStep
<1>3. LinesAreAttended => StrandedOnlyByExitWindow
  BY DEF LinesAreAttended, StrandedOnlyByExitWindow, Stranded
<1> QED
  BY <1>1, <1>2, <1>3, Typing, PTL DEF Spec

(* What the steps of the ledger rest on: nothing is indexed or given up that   *)
(* has not been made, and the worker's reading is no older than the index.     *)
THEOREM LedgerIsSound == Spec => []LedgerInv
<1>1. Init => LedgerInv
  BY DrainAssumption DEF Init, LedgerInv
<1>2. TypeOK /\ LedgerInv /\ [Next]_vars => LedgerInv'
  <2> SUFFICES ASSUME TypeOK, LedgerInv, [Next]_vars
               PROVE  LedgerInv'
    OBVIOUS
  <2> USE DrainAssumption DEF TypeOK, Goto, environment, round, LedgerInv
  <2>0. ASSUME UNCHANGED <<disk, indexed, missed, cur, got>>,
               worker' = worker \/ worker' # "commit"
        PROVE  LedgerInv'
    BY <2>0
  <2>1. ASSUME NEW s \in Session, NEW f \in File, Edit(s, f)
        PROVE  LedgerInv'
    <3>1. disk' = [disk EXCEPT ![f] = @ + 1] /\ UNCHANGED <<worker, cur, got, indexed, missed>>
      BY <2>1 DEF Edit
    <3>2. \A g \in File : disk[g] <= disk'[g] /\ disk'[g] \in Nat
      BY <3>1
    <3>3. \A g \in File : indexed[g] \in Nat /\ missed[g] \in Nat /\ disk[g] \in Nat
      OBVIOUS
    <3>4. \A g \in File : indexed'[g] <= disk'[g] /\ missed'[g] <= disk'[g]
      BY <3>1, <3>2, <3>3
    <3>5. worker' = "commit" => indexed'[cur'] <= got' /\ got' <= disk'[cur']
      BY <3>1, <3>2, <3>3
    <3> QED
      BY <3>4, <3>5
  <2>2. ASSUME NEW s \in Session, Append(s)
        PROVE  LedgerInv'
    BY <2>2, <2>0 DEF Append
  <2>3. ASSUME NEW s \in Session, AppendFails(s)
        PROVE  LedgerInv'
    <3> DEFINE f == hook[s].path
    <3>1. f \in File /\ hook[s].n <= disk[f] /\ hook[s].n \in Nat
      BY <2>3 DEF AppendFails, Pending
    <3>2. UNCHANGED <<disk, worker, cur, got, indexed>>
      BY <2>3 DEF AppendFails
    <3>3. missed' = [missed EXCEPT ![f] = IF hook[s].n > @ THEN hook[s].n ELSE @]
      BY <2>3 DEF AppendFails, GiveUpOn
    <3> HIDE DEF f
    <3>4. \A g \in File : missed'[g] <= disk[g]
      BY <3>1, <3>3
    <3> QED
      BY <3>2, <3>4
  <2>4. ASSUME NEW s \in Session, EnsureWorker(s)
        PROVE  LedgerInv'
    <3>1. UNCHANGED <<disk, indexed, missed, cur, got>> /\ (worker' = worker \/ worker' = "boot")
      BY <2>4 DEF EnsureWorker
    <3> QED
      BY <3>1, <2>0
  <2>5. ASSUME NEW s \in Session, SpawnFails(s)
        PROVE  LedgerInv'
    BY <2>5, <2>0 DEF SpawnFails
  <2>6. CASE Boot
    BY <2>6, <2>0 DEF Boot
  <2>7. CASE StartRound
    BY <2>7, <2>0 DEF StartRound
  <2>8. CASE SleepToDeadline
    BY <2>8, <2>0 DEF SleepToDeadline
  <2>9. CASE NothingQueued
    BY <2>9, <2>0 DEF NothingQueued
  <2>10. ASSUME NEW f \in File, LockPath(f)
         PROVE  LedgerInv'
    BY <2>10 DEF LockPath
  <2>11. CASE ReadFile
    BY <2>11 DEF ReadFile
  <2>12. CASE Reindex
    <3>1. worker = "commit" /\ worker' = "reread" /\ indexed' = [indexed EXCEPT ![cur] = got]
      BY <2>12 DEF Reindex
    <3>2. UNCHANGED <<disk, missed>>
      BY <2>12 DEF Reindex
    <3> QED
      BY <3>1, <3>2
  <2>13. CASE Reread
    BY <2>13, <2>0 DEF Reread
  <2>14. CASE Rewrite
    BY <2>14 DEF Rewrite
  <2>15. CASE EndRound
    <3>1. worker' \in {"evaluate", "nap"} /\ UNCHANGED <<disk, indexed, missed>>
      BY <2>15, Zenon DEF EndRound
    <3> QED
      BY <3>1
  <2>16. CASE WakeUp
    BY <2>16, <2>0 DEF WakeUp
  <2>17. CASE Recheck
    <3>1. worker' \in {"exiting", "evaluate"} /\ UNCHANGED <<disk, indexed, missed>>
      BY <2>17, Zenon DEF Recheck
    <3> QED
      BY <3>1
  <2>18. CASE Exit
    BY <2>18, <2>0 DEF Exit
  <2>19. ASSUME NEW f \in File, LockTimesOut(f)
         PROVE  LedgerInv'
    BY <2>19, <2>0 DEF LockTimesOut
  <2>20. CASE QueueUnreadable
    <3>1. worker' \in {"recheck", "exiting"} /\ UNCHANGED <<disk, indexed, missed>>
      BY <2>20 DEF QueueUnreadable
    <3> QED
      BY <3>1
  <2>21. CASE RereadUnreadable
    <3>1. worker' = "rewrite" /\ UNCHANGED <<disk, indexed>>
      BY <2>21 DEF RereadUnreadable
    <3>2. \A f \in File : missed'[f] \in {disk[f], missed[f]}
      BY <2>21 DEF RereadUnreadable
    <3> QED
      BY <3>1, <3>2
  <2>22. CASE ReindexFails
    <3>1. worker = "commit" /\ worker' = "reread" /\ UNCHANGED <<disk, indexed>>
      BY <2>22 DEF ReindexFails
    <3>2. missed' = [missed EXCEPT ![cur] = IF got > @ THEN got ELSE @]
      BY <2>22 DEF ReindexFails, GiveUpOn
    <3> QED
      BY <3>1, <3>2
  <2>23. CASE RemoveFails
    BY <2>23 DEF RemoveFails
  <2>24. CASE WorkerDies
    BY <2>24 DEF WorkerDies
  <2>25. CASE Tick
    BY <2>25, <2>0 DEF Tick
  <2>26. CASE UNCHANGED vars
    BY <2>26, <2>0 DEF vars
  <2> QED
    BY <2>1, <2>2, <2>3, <2>4, <2>5, <2>6, <2>7, <2>8, <2>9, <2>10, <2>11, <2>12, <2>13, <2>14,
       <2>15, <2>16, <2>17, <2>18, <2>19, <2>20, <2>21, <2>22, <2>23, <2>24, <2>25, <2>26
       DEF Next, WorkerStep
<1> QED
  BY <1>1, <1>2, Typing, PTL DEF Spec

(* The queue and its worker implement the steps of the ledger of edits, for    *)
(* any files, sessions, windows and failures: the index of a file goes        *)
(* forward, to an edit that was made, and what is given up was made too.       *)
(* (The ledger's promise that every edit is served is TLC's.)                 *)
THEOREM ImplementsLedgerSteps == Spec => Ledger!Safely
<1>1. Init => Ledger!Init
  BY DEF Init, Ledger!Init
<1>2. TypeOK /\ LedgerInv /\ LedgerInv' /\ [Next]_vars => [Ledger!Next]_Ledger!ledger
  <2> SUFFICES ASSUME TypeOK, LedgerInv, LedgerInv', [Next]_vars
               PROVE  [Ledger!Next]_Ledger!ledger
    OBVIOUS
  <2> USE DEF Goto, environment, round
  <2>0. ASSUME UNCHANGED <<disk, indexed, missed>>, orphaned' \in BOOLEAN
        PROVE  [Ledger!Next]_Ledger!ledger
    <3>1. CASE orphaned' = TRUE
      BY <2>0, <3>1 DEF Ledger!Strand, Ledger!Next
    <3>2. CASE orphaned' = FALSE
      BY <2>0, <3>2 DEF Ledger!Rescue, Ledger!Next
    <3> QED
      BY <2>0, <3>1, <3>2
  <2>1. ASSUME UNCHANGED <<disk, indexed, missed, orphaned>>
        PROVE  [Ledger!Next]_Ledger!ledger
    BY <2>1 DEF Ledger!ledger
  <2>2. ASSUME UNCHANGED <<disk, indexed, orphaned>>,
               missed' \in [File -> Nat],
               \A f \in File : missed[f] <= missed'[f]
        PROVE  [Ledger!Next]_Ledger!ledger
    BY <2>2 DEF LedgerInv, Ledger!GiveUp, Ledger!Next
  <2>3. ASSUME NEW s \in Session, NEW f \in File, Edit(s, f)
        PROVE  [Ledger!Next]_Ledger!ledger
    BY <2>3 DEF Edit, Ledger!Edit, Ledger!Next
  <2>4. ASSUME NEW s \in Session, Append(s)
        PROVE  [Ledger!Next]_Ledger!ledger
    BY <2>4, <2>0 DEF Append, TypeOK
  <2>5. ASSUME NEW s \in Session, AppendFails(s)
        PROVE  [Ledger!Next]_Ledger!ledger
    <3> DEFINE f == hook[s].path
    <3>1. f \in File /\ hook[s].n \in Nat
      BY <2>5, DrainAssumption DEF AppendFails, TypeOK
    <3>2. missed' = [missed EXCEPT ![f] = IF hook[s].n > @ THEN hook[s].n ELSE @]
      BY <2>5 DEF AppendFails, GiveUpOn
    <3>3. UNCHANGED <<disk, indexed, orphaned>>
      BY <2>5 DEF AppendFails
    <3> HIDE DEF f
    <3>4. missed' \in [File -> Nat] /\ \A g \in File : missed[g] <= missed'[g]
      BY <3>1, <3>2 DEF TypeOK
    <3> QED
      BY <3>3, <3>4, <2>2
  <2>6. ASSUME NEW s \in Session, EnsureWorker(s)
        PROVE  [Ledger!Next]_Ledger!ledger
    <3>1. UNCHANGED <<disk, indexed, missed>> /\ orphaned' \in BOOLEAN
      BY <2>6 DEF EnsureWorker
    <3> QED
      BY <3>1, <2>0
  <2>7. ASSUME NEW s \in Session, SpawnFails(s)
        PROVE  [Ledger!Next]_Ledger!ledger
    BY <2>7, <2>0 DEF SpawnFails
  <2>8. CASE Reindex
    <3>1. cur \in File /\ indexed' = [indexed EXCEPT ![cur] = got]
      BY <2>8 DEF Reindex, TypeOK
    <3>2. UNCHANGED <<disk, missed, orphaned>> /\ got \in indexed[cur]..disk[cur]
      BY <2>8, <3>1 DEF Reindex, LedgerInv, TypeOK
    <3>3. Ledger!Index(cur)
      BY <3>1, <3>2 DEF Ledger!Index
    <3> QED
      BY <3>1, <3>3 DEF Ledger!Next
  <2>9. CASE QueueUnreadable
    <3>1. orphaned' = orphaned \/ orphaned' = (orphaned \/ queue # {})
      BY <2>9, Zenon DEF QueueUnreadable
    <3>2. orphaned' \in BOOLEAN
      BY <3>1, Zenon DEF TypeOK
    <3>3. UNCHANGED <<disk, indexed, missed>>
      BY <2>9 DEF QueueUnreadable
    <3> QED
      BY <3>2, <3>3, <2>0
  <2>10. CASE RereadUnreadable
    <3>1. UNCHANGED <<disk, indexed, orphaned>>
      BY <2>10 DEF RereadUnreadable
    <3>2. missed' = [f \in File |-> IF f \in Queued /\ ~LastPending(f) THEN disk[f] ELSE missed[f]]
      BY <2>10 DEF RereadUnreadable
    <3>3. missed' \in [File -> Nat]
      BY <3>2 DEF TypeOK
    <3>4. ASSUME NEW f \in File PROVE missed[f] <= missed'[f]
      <4>1. missed'[f] \in {disk[f], missed[f]} /\ missed[f] \in Nat /\ missed[f] <= disk[f]
        BY <3>2 DEF TypeOK, LedgerInv
      <4> QED
        BY <4>1
    <3> QED
      BY <3>1, <3>3, <3>4, <2>2
  <2>11. CASE ReindexFails
    <3>1. UNCHANGED <<disk, indexed, orphaned>> /\ cur \in File /\ got \in Nat
      BY <2>11 DEF ReindexFails, TypeOK
    <3>2. missed' = [missed EXCEPT ![cur] = IF got > @ THEN got ELSE @]
      BY <2>11 DEF ReindexFails, GiveUpOn
    <3>3. missed' \in [File -> Nat] /\ \A g \in File : missed[g] <= missed'[g]
      BY <3>1, <3>2 DEF TypeOK
    <3> QED
      BY <3>1, <3>3, <2>2
  <2>12. CASE WorkerDies
    BY <2>12, <2>0 DEF WorkerDies
  <2>13. CASE Boot \/ StartRound \/ SleepToDeadline \/ NothingQueued \/ Recheck \/ Exit
    BY <2>13, <2>1 DEF Boot, StartRound, SleepToDeadline, NothingQueued, Recheck, Exit
  <2>14. ASSUME NEW f \in File, LockPath(f) \/ LockTimesOut(f)
         PROVE  [Ledger!Next]_Ledger!ledger
    BY <2>14, <2>1 DEF LockPath, LockTimesOut
  <2>15. CASE ReadFile \/ Reread \/ Rewrite \/ EndRound \/ WakeUp \/ RemoveFails \/ Tick
    BY <2>15, <2>1 DEF ReadFile, Reread, Rewrite, EndRound, WakeUp, RemoveFails, Tick
  <2>16. CASE UNCHANGED vars
    BY <2>16, <2>1 DEF vars
  <2> QED
    BY <2>3, <2>4, <2>5, <2>6, <2>7, <2>8, <2>9, <2>10, <2>11, <2>12, <2>13, <2>14, <2>15, <2>16
       DEF Next, WorkerStep
<1> QED
  BY <1>1, <1>2, Typing, LedgerIsSound, PTL DEF Spec, Ledger!Safely


-----------------------------------------------------------------------------
(* When a path is due whose lines have the stamps S.                          *)
WindowEnd(S) == Min({Max(S) + Debounce, Min(S) + MaxWait})

LEMMA WindowEnds ==
  ASSUME NEW S \in SUBSET (1..MaxClock), S # {}
  PROVE  /\ Max(S) \in S /\ Min(S) \in S
         /\ \A y \in S : Min(S) <= y /\ y <= Max(S)
         /\ WindowEnd(S) \in Nat
         /\ WindowEnd(S) \in {Max(S) + Debounce, Min(S) + MaxWait}
         /\ WindowEnd(S) <= Max(S) + Debounce /\ WindowEnd(S) <= Min(S) + MaxWait
<1>1. MaxClock \in Nat /\ Debounce \in Nat /\ MaxWait \in Nat
  BY DrainAssumption
<1>2. Max(S) \in S /\ \A y \in S : Max(S) >= y
  <2>1. S \in SUBSET (0..MaxClock)
    BY <1>1
  <2> QED
    BY <1>1, <2>1, MaxOfBounded
<1>3. Min(S) \in S /\ \A y \in S : Min(S) <= y
  <2>1. S \in SUBSET Nat
    BY <1>1
  <2> QED
    BY <2>1, MinOfNaturals
<1> DEFINE E == {Max(S) + Debounce, Min(S) + MaxWait}
<1>4. E \in SUBSET Nat /\ E # {}
  <2>1. \A y \in S : y \in Nat
    BY <1>1
  <2>2. Max(S) \in Nat /\ Min(S) \in Nat
    BY <1>2, <1>3, <2>1
  <2> QED
    BY <1>1, <2>2
<1>5. Min(E) \in E /\ \A y \in E : Min(E) <= y
  <2> HIDE DEF E
  <2> QED
    BY <1>4, MinOfNaturals
<1>6. WindowEnd(S) = Min(E)
  BY DEF WindowEnd
<1> QED
  BY <1>1, <1>2, <1>3, <1>4, <1>5, <1>6

(* A line of now moves the end of a window back, if anything; and a path that had none   *)
(* is due a debounce from now.                                               *)
LEMMA WindowGrows ==
  ASSUME NEW S \in SUBSET (1..MaxClock), NEW c \in 1..MaxClock, \A y \in S : y <= c
  PROVE  /\ S # {} => WindowEnd(S) <= WindowEnd(S \cup {c})
         /\ S = {} => WindowEnd(S \cup {c}) = c + Debounce
<1> DEFINE T == S \cup {c}
<1>1. T \in SUBSET (1..MaxClock) /\ T # {} /\ c \in T /\ S \subseteq T /\ \A y \in T : y <= c
  BY DrainAssumption
<1>2. MaxClock \in Nat /\ Debounce \in Nat /\ MaxWait \in Nat /\ Debounce <= MaxWait
  BY DrainAssumption
<1>3. /\ Max(T) \in T /\ Min(T) \in T /\ \A y \in T : Min(T) <= y /\ y <= Max(T)
      /\ WindowEnd(T) \in {Max(T) + Debounce, Min(T) + MaxWait}
      /\ WindowEnd(T) <= Max(T) + Debounce /\ WindowEnd(T) <= Min(T) + MaxWait
  <2> HIDE DEF T
  <2> QED
    BY <1>1, WindowEnds
<1>4. Max(T) = c
  <2>1. Max(T) <= c /\ c <= Max(T) /\ Max(T) \in 1..MaxClock
    BY <1>1, <1>3
  <2> QED
    BY <2>1
<1>5. ASSUME S # {} PROVE WindowEnd(S) <= WindowEnd(T)
  <2>1. /\ Max(S) \in S /\ Min(S) \in S /\ \A y \in S : Min(S) <= y
        /\ WindowEnd(S) \in Nat
        /\ WindowEnd(S) <= Max(S) + Debounce /\ WindowEnd(S) <= Min(S) + MaxWait
    BY <1>5, WindowEnds
  <2>2. Max(S) <= c /\ Min(S) <= c
    BY <2>1
  <2>3. Min(S) <= Min(T)
    <3>1. Min(T) \in S \/ Min(T) = c
      BY <1>3
    <3> QED
      BY <2>1, <2>2, <3>1
  <2>4. Max(S) \in Nat /\ Min(S) \in Nat /\ Min(T) \in Nat /\ c \in Nat
    <3>1. \A y \in T : y \in Nat
      BY <1>2
    <3> QED
      BY <1>1, <1>3, <2>1, <3>1
  <2> HIDE DEF T
  <2>5. CASE WindowEnd(T) = Max(T) + Debounce
    BY <1>2, <1>4, <2>1, <2>2, <2>4, <2>5
  <2>6. CASE WindowEnd(T) = Min(T) + MaxWait
    BY <1>2, <2>1, <2>3, <2>4, <2>6
  <2> QED
    BY <1>3, <2>5, <2>6
<1>6. ASSUME S = {} PROVE WindowEnd(T) = c + Debounce
  <2>1. Min(T) = c
    BY <1>3, <1>6
  <2> HIDE DEF T
  <2> QED
    BY <1>2, <1>3, <1>4, <2>1
<1> QED
  BY <1>5, <1>6

LEMMA Shifting ==
  ASSUME NEW a \in Nat, NEW b \in Nat, NEW m \in Nat, NEW n \in Nat, a <= b
  PROVE  a + m + n <= b + m + n /\ a + m + n \in Nat /\ b + m + n \in Nat
OBVIOUS

(* The lines are of the past, and a sleep is not longer than a debounce, or the least     *)
(* sleep: so a path that is appended while the worker sleeps is not overslept either.     *)
SleepIsShort ==
  /\ \A l \in queue \cup kept : l.ts <= clock
  /\ worker = "sleep" => wake <= clock + Debounce + MinSleep

(* The worker never sleeps past the deadline of a path by more than the least sleep        *)
(* (drain.rs:23-25), whether or not two appends may share a millisecond.               *)
THEOREM DeadlinesAreKept == Spec => []NotSleptPast
<1>1. Init => SleepIsShort /\ NotSleptPast
  BY DEF Init, SleepIsShort, NotSleptPast
<1>2. TypeOK /\ TypeOK' /\ SleepIsShort /\ NotSleptPast /\ [Next]_vars => SleepIsShort' /\ NotSleptPast'
  <2> SUFFICES ASSUME TypeOK, TypeOK', SleepIsShort, NotSleptPast, [Next]_vars
               PROVE  SleepIsShort' /\ NotSleptPast'
    OBVIOUS
  <2>c. /\ MaxClock \in Nat /\ Debounce \in Nat /\ MaxWait \in Nat /\ MinSleep \in Nat /\ PollCap \in Nat
        /\ Debounce <= MaxWait /\ clock \in Nat
    BY DrainAssumption DEF TypeOK
  <2>d. \A f \in Queued : Deadline(f) = WindowEnd(Stamps(f))
    BY DEF Deadline, LastSeen, FirstSeen, WindowEnd
  <2>0. ASSUME UNCHANGED <<queue, kept, clock>>, worker' = "sleep" => worker = "sleep" /\ wake' = wake
        PROVE  SleepIsShort' /\ NotSleptPast'
    BY <2>0 DEF SleepIsShort, NotSleptPast, Queued, Deadline, LastSeen, FirstSeen, Stamps, LinesOf
  <2>00. ASSUME queue' \subseteq queue \cup kept, kept' \subseteq queue \cup kept, clock' = clock,
                worker' # "sleep"
         PROVE  SleepIsShort' /\ NotSleptPast'
    BY <2>00 DEF SleepIsShort, NotSleptPast
  <2> USE DEF Goto, environment, round
  <2>1. ASSUME NEW s \in Session, NEW f \in File, Edit(s, f) PROVE SleepIsShort' /\ NotSleptPast'
    BY <2>0, <2>1 DEF Edit
  <2>2. ASSUME NEW s \in Session, Append(s) PROVE SleepIsShort' /\ NotSleptPast'
    <3> DEFINE line == [ts |-> clock, path |-> hook[s].path, session |-> s]
    <3>1. queue' = queue \cup {line} /\ UNCHANGED <<kept, worker, wake>>
      BY <2>2 DEF Append
    <3>2. clock <= clock' /\ clock' \in Nat
      BY <2>2, <2>c DEF Append
    <3>3. SleepIsShort'
      <4>1. \A l \in queue' \cup kept' : l.ts <= clock
        BY <3>1, <2>c DEF SleepIsShort
      <4>2. \A l \in queue' \cup kept' : l.ts <= clock'
        BY <4>1, <3>2, <2>c DEF TypeOK, Line
      <4>3. worker' = "sleep" => wake <= clock' + Debounce + MinSleep
        <5>1. wake \in Nat
          BY <2>c DEF TypeOK
        <5>2. worker = "sleep" => wake <= clock + Debounce + MinSleep
          BY DEF SleepIsShort
        <5>3. clock + Debounce + MinSleep <= clock' + Debounce + MinSleep
          BY <3>2, <2>c, Shifting
        <5>4. clock + Debounce + MinSleep \in Nat /\ clock' + Debounce + MinSleep \in Nat
          BY <3>2, <2>c, Shifting
        <5>5. worker' = worker
          BY <3>1
        <5> QED
          BY <5>1, <5>2, <5>3, <5>4, <5>5
      <4> QED
        BY <4>2, <4>3, <3>1 DEF SleepIsShort
    <3>4. ASSUME worker = "sleep", NEW f \in Queued' PROVE wake <= Deadline(f)' + MinSleep
      <4> DEFINE S == Stamps(f)
      <4>1. S \in SUBSET (1..MaxClock) /\ \A y \in S : y <= clock
        BY DEF TypeOK, Stamps, LinesOf, Line, SleepIsShort
      <4>2. Deadline(f)' = WindowEnd(Stamps(f)')
        BY DEF Deadline, LastSeen, FirstSeen, WindowEnd
      <4>3. line.path = f => Stamps(f)' = S \cup {clock}
        <5>1. line.path = f => LinesOf(f)' = LinesOf(f) \cup {line}
          BY <3>1 DEF LinesOf
        <5>2. line.ts = clock
          OBVIOUS
        <5> HIDE DEF line
        <5> QED
          BY <5>1, <5>2 DEF Stamps
      <4>4. line.path # f => Stamps(f)' = S /\ f \in Queued
        BY <3>1, <3>4 DEF Stamps, LinesOf, Queued
      <4>5. S # {} <=> f \in Queued
        BY DEF Stamps, LinesOf, Queued
      <4>6. clock \in 1..MaxClock /\ wake \in Nat /\ wake <= clock + Debounce + MinSleep
        BY <3>4, <2>c DEF TypeOK, SleepIsShort
      <4>7. f \in Queued => wake <= WindowEnd(S) + MinSleep /\ WindowEnd(S) \in Nat
        BY <2>d, <3>4, <4>1, <4>5, WindowEnds DEF NotSleptPast
      <4>8. /\ S # {} => WindowEnd(S) <= WindowEnd(S \cup {clock})
            /\ S = {} => WindowEnd(S \cup {clock}) = clock + Debounce
            /\ WindowEnd(S \cup {clock}) \in Nat
        <5>1. S \cup {clock} \in SUBSET (1..MaxClock) /\ S \cup {clock} # {}
          BY <4>1, <4>6
        <5> HIDE DEF S
        <5> QED
          BY <4>1, <4>6, <5>1, WindowGrows, WindowEnds
      <4> HIDE DEF S, line
      <4>9. CASE line.path = f /\ f \in Queued
        <5>1. wake <= WindowEnd(S) + MinSleep /\ WindowEnd(S) \in Nat
          BY <4>7, <4>9
        <5>2. WindowEnd(S) <= WindowEnd(S \cup {clock}) /\ WindowEnd(S \cup {clock}) \in Nat
          BY <4>5, <4>8, <4>9
        <5>3. wake <= WindowEnd(S \cup {clock}) + MinSleep
          BY <2>c, <4>6, <5>1, <5>2
        <5>4. Deadline(f)' = WindowEnd(S \cup {clock})
          BY <4>2, <4>3, <4>9
        <5> QED
          BY <5>3, <5>4
      <4>10. CASE line.path = f /\ f \notin Queued
        BY <2>c, <4>2, <4>3, <4>5, <4>6, <4>8, <4>10
      <4>11. CASE line.path # f
        BY <4>2, <4>4, <4>7, <4>11
      <4> QED
        BY <4>9, <4>10, <4>11
    <3> QED
      BY <3>1, <3>3, <3>4 DEF NotSleptPast
  <2>3. ASSUME NEW s \in Session, AppendFails(s) PROVE SleepIsShort' /\ NotSleptPast'
    BY <2>0, <2>3 DEF AppendFails
  <2>4. ASSUME NEW s \in Session, EnsureWorker(s) PROVE SleepIsShort' /\ NotSleptPast'
    BY <2>0, <2>4 DEF EnsureWorker
  <2>5. ASSUME NEW s \in Session, SpawnFails(s) PROVE SleepIsShort' /\ NotSleptPast'
    BY <2>0, <2>5 DEF SpawnFails
  <2>6. CASE Boot
    BY <2>0, <2>6 DEF Boot
  <2>7. CASE StartRound
    BY <2>0, <2>7 DEF StartRound
  <2>8. CASE SleepToDeadline
    <3>1. /\ UNCHANGED <<queue, kept, clock>> /\ Due = {} /\ Queued # {}
          /\ wake' = Later(Clamp(NextDeadline - clock))
      BY <2>8 DEF SleepToDeadline
    <3>2. \A f \in Queued : Stamps(f) \in SUBSET (1..MaxClock) /\ Stamps(f) # {} /\ Max(Stamps(f)) <= clock
      <4> SUFFICES ASSUME NEW f \in Queued
                   PROVE  Stamps(f) \in SUBSET (1..MaxClock) /\ Stamps(f) # {} /\ Max(Stamps(f)) <= clock
        OBVIOUS
      <4>1. Stamps(f) \in SUBSET (1..MaxClock) /\ Stamps(f) # {} /\ \A y \in Stamps(f) : y <= clock
        BY DEF TypeOK, Stamps, LinesOf, Queued, Line, SleepIsShort
      <4> QED
        BY <4>1, WindowEnds
    <3>3. \A f \in Queued : /\ Deadline(f) \in Nat /\ clock < Deadline(f)
                           /\ Deadline(f) <= clock + Debounce
      <4> SUFFICES ASSUME NEW f \in Queued
                   PROVE  Deadline(f) \in Nat /\ clock < Deadline(f) /\ Deadline(f) <= clock + Debounce
        OBVIOUS
      <4>1. /\ Deadline(f) \in Nat /\ Deadline(f) <= Max(Stamps(f)) + Debounce
            /\ Max(Stamps(f)) \in 1..MaxClock /\ Max(Stamps(f)) <= clock
        BY <2>d, <3>2, WindowEnds
      <4>2. ~(clock >= Deadline(f))
        BY <3>1 DEF Due
      <4> QED
        BY <2>c, <4>1, <4>2
    <3> DEFINE D == {Deadline(f) : f \in Queued \ Due}
    <3>4. D \in SUBSET Nat /\ D # {}
      BY <3>1, <3>3
    <3>5. Min(D) \in D /\ \A d \in D : Min(D) <= d
      <4> HIDE DEF D
      <4> QED
        BY <3>4, MinOfNaturals
    <3>6. /\ NextDeadline \in Nat /\ clock < NextDeadline /\ NextDeadline <= clock + Debounce
          /\ \A f \in Queued : NextDeadline <= Deadline(f)
      BY <3>1, <3>3, <3>5 DEF NextDeadline
    <3>7. wake' <= NextDeadline + MinSleep /\ wake' \in Nat
      BY <2>c, <3>1, <3>6, DrainAssumption DEF Later, Clamp, TypeOK
    <3>8. \A f \in Queued : Deadline(f)' = Deadline(f)
      BY <3>1 DEF Deadline, LastSeen, FirstSeen, Stamps, LinesOf
    <3>9. Queued' = Queued
      BY <3>1 DEF Queued
    <3>10. NotSleptPast'
      BY <2>c, <3>3, <3>6, <3>7, <3>8, <3>9 DEF NotSleptPast
    <3>11. wake' <= clock' + Debounce + MinSleep
      BY <2>c, <3>1, <3>6, <3>7
    <3> QED
      BY <3>1, <3>10, <3>11 DEF SleepIsShort
  <2>9. CASE NothingQueued
    BY <2>0, <2>9 DEF NothingQueued
  <2>10. ASSUME NEW f \in File, LockPath(f) PROVE SleepIsShort' /\ NotSleptPast'
    BY <2>0, <2>10 DEF LockPath
  <2>11. CASE ReadFile
    BY <2>0, <2>11 DEF ReadFile
  <2>12. CASE Reindex
    BY <2>0, <2>12 DEF Reindex
  <2>13. CASE Reread
    BY <2>00, <2>13 DEF Reread
  <2>14. CASE Rewrite
    BY <2>00, <2>14 DEF Rewrite
  <2>15. CASE EndRound
    BY <2>0, <2>15 DEF EndRound
  <2>16. CASE WakeUp
    BY <2>0, <2>16 DEF WakeUp
  <2>17. CASE Recheck
    BY <2>0, <2>17 DEF Recheck
  <2>18. CASE Exit
    BY <2>0, <2>18 DEF Exit
  <2>19. ASSUME NEW f \in File, LockTimesOut(f) PROVE SleepIsShort' /\ NotSleptPast'
    BY <2>0, <2>19 DEF LockTimesOut
  <2>20. CASE ReindexFails
    BY <2>0, <2>20 DEF ReindexFails
  <2>21. CASE RemoveFails
    BY <2>00, <2>21 DEF RemoveFails
  <2>22. CASE WorkerDies
    BY <2>00, <2>22 DEF WorkerDies
  <2>23. CASE Tick
    <3>1. UNCHANGED <<queue, kept, worker, wake>> /\ clock' = clock + 1
      BY <2>23 DEF Tick
    <3>2. SleepIsShort'
      BY <2>c, <3>1 DEF SleepIsShort, TypeOK, Line
    <3> QED
      BY <3>1, <3>2 DEF NotSleptPast, Queued, Deadline, LastSeen, FirstSeen, Stamps, LinesOf
  <2>24. CASE UNCHANGED vars
    BY <2>0, <2>24 DEF vars
  <2>25. CASE QueueUnreadable
    BY <2>0, <2>25 DEF QueueUnreadable
  <2>26. CASE RereadUnreadable
    BY <2>00, <2>26 DEF RereadUnreadable
  <2> QED
    BY <2>1, <2>2, <2>3, <2>4, <2>5, <2>6, <2>7, <2>8, <2>9, <2>10, <2>11, <2>12, <2>13, <2>14,
       <2>15, <2>16, <2>17, <2>18, <2>19, <2>20, <2>21, <2>22, <2>23, <2>24, <2>25, <2>26
       DEF Next, WorkerStep
<1> QED
  BY <1>1, <1>2, Typing, PTL DEF Spec
=============================================================================
