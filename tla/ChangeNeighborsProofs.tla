------------------------ MODULE ChangeNeighborsProofs ------------------------
(***************************************************************************)
(* Theorems about the related-code hints, for any sessions, hooks, files and   *)
(* hints, and any windows.                                                   *)
(***************************************************************************)
EXTENDS ChangeNeighbors, FiniteSetTheorems, SequenceTheorems, TLAPS

(* What a hook holds where it is.                                               *)
LEMMA HookFields ==
  ASSUME NEW x \in HookState
  PROVE  /\ x.at \in {"idle", "ack", "remove", "filter", "scan", "append", "reap"}
         /\ x.at = "idle" <=> x = Idle
         /\ x.at # "idle" => x.by \in Anyone
         /\ x.at \in {"remove", "filter", "scan"} => x.got \in Taken
         /\ x.at = "append" => /\ x.of \in File \cup {None} /\ x.picked \subseteq Hint
                               /\ x.raced \in BOOLEAN
         /\ x.at = "reap" => x.stale \subseteq Ledger
BY DEF HookState, Idle

LEMMA HookMaking ==
  /\ Idle \in HookState
  /\ \A s \in Anyone : [at |-> "ack", by |-> s] \in HookState
  /\ \A s \in Anyone, g \in Taken, a \in {"remove", "filter", "scan"} :
       [at |-> a, by |-> s, got |-> g] \in HookState
  /\ \A s \in Anyone, o \in File \cup {None}, p \in SUBSET Hint, r \in BOOLEAN :
       [at |-> "append", by |-> s, picked |-> p, raced |-> r, of |-> o] \in HookState
  /\ \A s \in Anyone, l \in SUBSET Ledger : [at |-> "reap", by |-> s, stale |-> l] \in HookState
BY DEF HookState

(* A hook that filters keeps what it has got, and one that is raced its hints.         *)
LEMMA HookChanging ==
  ASSUME NEW x \in HookState
  PROVE  /\ x.at = "remove" =>
              LET y == [x EXCEPT !.at = "filter"] IN
                y \in HookState /\ y.at = "filter" /\ y.by = x.by /\ y.got = x.got
         /\ x.at = "append" =>
              LET y == [x EXCEPT !.raced = TRUE] IN
                y \in HookState /\ y.at = "append" /\ y.by = x.by /\ y.of = x.of /\ y.picked = x.picked /\ y.raced
<1>1. ASSUME x.at = "remove"
      PROVE  LET y == [x EXCEPT !.at = "filter"] IN
               y \in HookState /\ y.at = "filter" /\ y.by = x.by /\ y.got = x.got
  <2>1. x \in [at : {"remove", "filter", "scan"}, by : Anyone, got : Taken]
    BY <1>1 DEF HookState, Idle
  <2> QED
    BY <2>1 DEF HookState
<1>2. ASSUME x.at = "append"
      PROVE  LET y == [x EXCEPT !.raced = TRUE] IN
               y \in HookState /\ y.at = "append" /\ y.by = x.by /\ y.of = x.of /\ y.picked = x.picked /\ y.raced
  <2>1. x \in [at : {"append"}, by : Anyone, of : File \cup {None}, picked : SUBSET Hint, raced : BOOLEAN]
    BY <1>2 DEF HookState, Idle
  <2> QED
    BY <2>1 DEF HookState
<1> QED
  BY <1>1, <1>2

LEMMA PoolsAreSequences ==
  ASSUME NEW f, NEW n \in Nat, NEW p \in Pools(f, n)
  PROVE  p \in Seq(Hint)
<1>1. PICK m \in 1..n : p \in [1..m -> Hint]
  BY DEF Pools
<1> QED
  BY <1>1

LEMMA MinOfTwo ==
  ASSUME NEW a \in Nat, NEW b \in Nat
  PROVE  Min({a, b}) = IF a <= b THEN a ELSE b
BY DEF Min

(* The lines of a window, and those claimed for it.                                *)
LEMMA Windows ==
  ASSUME NEW w \in Window, NEW f \in File, length[f] \in Nat
  PROVE  /\ First(w) \in Nat \ {0}
         /\ ShownLines(w) \in Nat
         /\ w.limit # 0 => ShownLines(w) # 0
         /\ Displayed(f, w) \subseteq File \X Nat
         /\ Claimed(f, w) \in Stretch
         /\ \A l \in (Claimed(f, w).from)..(Claimed(f, w).to) :
              l <= length[f] => <<f, l>> \in Displayed(f, w)
<1>1. /\ w.offset \in (Nat \ {0}) \cup {None} /\ w.limit \in Nat \cup {None}
      /\ ReadCap \in Nat \ {0} /\ None \notin Nat
  BY HintsAssumption
<1>2. First(w) \in Nat \ {0}
  BY <1>1 DEF First
<1>3. ShownLines(w) \in Nat /\ (w.limit # 0 => ShownLines(w) # 0)
  BY <1>1, MinOfTwo DEF ShownLines
<1>4. Displayed(f, w) \subseteq File \X Nat
  BY <1>2, <1>3 DEF Displayed
<1>5. Claimed(f, w) \in Stretch
  BY <1>2, <1>3 DEF Claimed, Stretch
<1>6. \A l \in (Claimed(f, w).from)..(Claimed(f, w).to) :
        l <= length[f] => <<f, l>> \in Displayed(f, w)
  BY DEF Claimed, Displayed
<1> QED
  BY <1>2, <1>3, <1>4, <1>5, <1>6

LEMMA NoMarker == Absent \notin Marker /\ Torn \notin Marker
<1>1. \A m \in Marker : m.edited # None
  BY HintsAssumption DEF Marker
<1> QED
  BY <1>1 DEF Absent, Torn

(* Who answers was about to append what it has picked; only hooks change that are about  *)
(* to append for the same session.                                              *)
LEMMA Answering ==
  ASSUME TypeOK, NEW k \in Hook, Answer(k)
  PROVE  /\ hook[k].by \in Anyone /\ hook[k].picked \subseteq Hint
         /\ hook' \in [Hook -> HookState]
         /\ shown' \in [Session -> SUBSET Hint]
<1>1. hook[k].by \in Anyone /\ hook[k].picked \subseteq Hint
  BY HookFields DEF Answer, TypeOK
<1>2. hook' \in [Hook -> HookState]
  BY HookMaking, HookChanging DEF Answer, TypeOK
<1>3. shown' \in [Session -> SUBSET Hint]
  BY <1>1 DEF Answer, TypeOK
<1> QED
  BY <1>1, <1>2, <1>3

(* Whom an answer leaves about to append was so before it.                          *)
LEMMA StillAppending ==
  ASSUME TypeOK, NEW k \in Hook, Answer(k), NEW j \in Hook, hook'[j].at = "append"
  PROVE  /\ j # k /\ hook[j].at = "append" /\ hook'[j].by = hook[j].by
         /\ hook'[j].of = hook[j].of /\ hook'[j].picked = hook[j].picked
         /\ IF hook[j].by = hook[k].by THEN hook'[j].raced ELSE hook'[j] = hook[j]
<1>1. j # k
  BY DEF Answer, Idle
<1>2. hook'[j] = IF hook[j].at = "append" /\ hook[j].by = hook[k].by
                 THEN [hook[j] EXCEPT !.raced = TRUE] ELSE hook[j]
  BY <1>1 DEF Answer
<1>3. hook[j] \in HookState
  BY DEF TypeOK
<1>4. CASE hook[j].at = "append" /\ hook[j].by = hook[k].by
  BY <1>1, <1>2, <1>3, <1>4, HookChanging
<1>5. CASE ~(hook[j].at = "append" /\ hook[j].by = hook[k].by)
  BY <1>1, <1>2, <1>5
<1> QED
  BY <1>4, <1>5

-----------------------------------------------------------------------------
LEMMA TypesStep == ASSUME TypeOK, [Next]_vars PROVE TypeOK'
<1> USE HintsAssumption DEF TypeOK, files, ledgers, history, Event, Goto
<1>1. ASSUME NEW k \in Hook, NEW s \in Anyone, NEW f \in EditedFile, Edit(k, s, f) PROVE TypeOK'
  BY <1>1, HookMaking DEF Edit, Anyone
<1>2. ASSUME NEW k \in Hook, NEW s \in Anyone, NEW f \in ReadFile, NEW w \in Window, Read(k, s, f, w) PROVE TypeOK'
  <2>1. f \in File /\ Claimed(f, w) \in Stretch /\ Displayed(f, w) \subseteq File \X Nat
    BY Windows
  <2>2. displayed' \in [Session -> SUBSET (File \X Nat)]
    BY <1>2, <2>1 DEF Read, Anyone
  <2>3. /\ read' \in [Session -> SUBSET Stretch]
        /\ aged' \subseteq Ledger
    <3>1. CASE UNCHANGED <<read, aged>>
      BY <3>1
    <3>2. CASE AppendReadRange(s, Claimed(f, w)) /\ s \in Session
      BY <3>2, <2>1 DEF AppendReadRange
    <3> QED
      BY <1>2, <3>1, <3>2 DEF Read, Anyone
  <2>4. hook' \in [Hook -> HookState]
    <3>1. ASSUME NEW p \in Pools(f, TopK)
          PROVE  [at |-> "scan", by |-> s, got |-> [edited |-> f, session |-> s, pool |-> p]] \in HookState
      BY <2>1, PoolsAreSequences, HookMaking DEF Taken
    <3> QED
      BY <1>2, <3>1, HookMaking DEF Read
  <2> QED
    BY <1>2, <2>2, <2>3, <2>4 DEF Read
<1>3. ASSUME NEW k \in Hook, NEW s \in Anyone, Prompt(k, s) PROVE TypeOK'
  BY <1>3, HookMaking DEF Prompt
<1>4. ASSUME NEW k \in Hook, NEW s \in Anyone, Start(k, s) PROVE TypeOK'
  BY <1>4, HookMaking DEF Start, Ledger
<1>5. ASSUME NEW k \in Hook, TakeMarker(k) PROVE TypeOK'
  BY <1>5, HookMaking, HookFields DEF TakeMarker, Taken, Marker, Anyone
<1>6. ASSUME NEW k \in Hook, RemoveMarker(k) PROVE TypeOK'
  BY <1>6, HookMaking, HookFields, HookChanging DEF RemoveMarker, Absent, Torn
<1>7. ASSUME NEW k \in Hook, Filter(k) PROVE TypeOK'
  <2>1. hook[k].by \in Anyone /\ hook[k].got \in Taken
    BY <1>7, HookFields DEF Filter
  <2> DEFINE got == hook[k].got
             fresh == {i \in DOMAIN got.pool :
                         got.pool[i].file # got.edited /\ Surfaceable(hook[k].by, got.pool[i])}
             picked == {got.pool[i] : i \in {j \in fresh : Cardinality(fresh \cap 1..j) <= TopK}}
             of == IF hook[k].at = "filter" THEN got.edited ELSE None
  <2>2. picked \subseteq Hint
    <3>1. got.pool \in Seq(Hint)
      BY <2>1 DEF Taken
    <3>2. \A i \in DOMAIN got.pool : got.pool[i] \in Hint
      BY <3>1
    <3>3. \A j \in fresh : j \in DOMAIN got.pool
      OBVIOUS
    <3>4. ASSUME NEW h \in picked PROVE h \in Hint
      <4>1. PICK j \in fresh : h = got.pool[j]
        OBVIOUS
      <4> QED
        BY <3>2, <3>3, <4>1
    <3> QED
      BY <3>4
  <2>3. of \in File \cup {None}
    BY <2>1 DEF Taken
  <2>4. hook' = [hook EXCEPT ![k] = IF picked = {} THEN Idle
                                   ELSE [at |-> "append", by |-> hook[k].by, picked |-> picked,
                                         raced |-> FALSE, of |-> of]]
    BY <1>7 DEF Filter
  <2> HIDE DEF picked, of
  <2>5. hook' \in [Hook -> HookState]
    BY <2>1, <2>2, <2>3, <2>4, HookMaking
  <2> QED
    BY <1>7, <2>5 DEF Filter
<1>8. ASSUME NEW k \in Hook, Surface(k) PROVE TypeOK'
  BY <1>8, Answering DEF Surface, Recordable, Ledger
<1>9. ASSUME NEW k \in Hook, SurfaceUnrecorded(k) PROVE TypeOK'
  BY <1>9, Answering DEF SurfaceUnrecorded, Anyone
<1>10. ASSUME NEW k \in Hook, Reap(k) PROVE TypeOK'
  BY <1>10, HookMaking, HookFields DEF Reap
<1>11. ASSUME NEW f \in EditedFile, Reindex(f) PROVE TypeOK'
  BY <1>11, PoolsAreSequences DEF Reindex, Marker, Anyone, Absent, Torn
<1>12. ASSUME NEW f \in ReadFile, Delete(f) PROVE TypeOK'
  BY <1>12 DEF Delete
<1>13. ASSUME WriteMarker PROVE TypeOK'
  BY <1>13, NoMarker DEF WriteMarker
<1>14. ASSUME NEW l \in Ledger, Age(l) PROVE TypeOK'
  BY <1>14 DEF Age, Ledger
<1>15. CASE UNCHANGED vars
  BY <1>15 DEF vars, files, ledgers, history
<1> QED
  BY <1>1, <1>2, <1>3, <1>4, <1>5, <1>6, <1>7, <1>8, <1>9, <1>10, <1>11, <1>12, <1>13, <1>14, <1>15
     DEF Next, HookStep

(* The files, the marker, the ledgers and the hooks keep their types, and a marker is torn  *)
(* only while its payload is on its way.                                          *)
THEOREM Typing == Spec => []TypeOK
<1>1. Init => TypeOK
  <2> SUFFICES ASSUME Init PROVE TypeOK
    OBVIOUS
  <2>1. length \in [File -> Nat]
    BY HintsAssumption DEF Init
  <2>2. hook \in [Hook -> HookState]
    BY HookMaking DEF Init
  <2>3. Absent # Torn
    BY DOMAIN Absent # DOMAIN Torn DEF Absent, Torn
  <2> QED
    BY <2>1, <2>2, <2>3, HintsAssumption DEF Init, TypeOK
<1>2. TypeOK /\ [Next]_vars => TypeOK'
  BY TypesStep
<1> QED
  BY <1>1, <1>2, PTL DEF Spec

-----------------------------------------------------------------------------
(* An edit that is queued, in the marker, on its way there or taken from it is one that   *)
(* its session has made.                                                       *)
EditsHaveOwners ==
  /\ \A f \in File : pending[f] # None => <<pending[f], f>> \in edited
  /\ marker \in Marker => <<marker.session, marker.edited>> \in edited
  /\ writing \in Marker => <<writing.session, writing.edited>> \in edited
  /\ \A k \in Hook :
       /\ hook[k].at = "remove" => <<hook[k].got.session, hook[k].got.edited>> \in edited
       /\ hook[k].at = "filter" => <<hook[k].by, hook[k].got.edited>> \in edited

LEMMA OwnersStep == ASSUME TypeOK, EditsHaveOwners, OnlyOwnEdits, [Next]_vars
                    PROVE  EditsHaveOwners' /\ OnlyOwnEdits'
<1> USE HintsAssumption DEF EditsHaveOwners, OnlyOwnEdits, files, ledgers, history, Event, Goto
<1>1. ASSUME NEW k \in Hook, NEW s \in Anyone, NEW f \in EditedFile, Edit(k, s, f) PROVE EditsHaveOwners' /\ OnlyOwnEdits'
  BY <1>1 DEF Edit, TypeOK
<1>2. ASSUME NEW k \in Hook, NEW s \in Anyone, NEW f \in ReadFile, NEW w \in Window, Read(k, s, f, w) PROVE EditsHaveOwners' /\ OnlyOwnEdits'
  BY <1>2 DEF Read, TypeOK, Idle
<1>3. ASSUME NEW k \in Hook, NEW s \in Anyone, Prompt(k, s) PROVE EditsHaveOwners' /\ OnlyOwnEdits'
  BY <1>3 DEF Prompt, TypeOK, Idle
<1>4. ASSUME NEW k \in Hook, NEW s \in Anyone, Start(k, s) PROVE EditsHaveOwners' /\ OnlyOwnEdits'
  BY <1>4 DEF Start, TypeOK, Idle
<1>5. ASSUME NEW k \in Hook, TakeMarker(k) PROVE EditsHaveOwners' /\ OnlyOwnEdits'
  BY <1>5 DEF TakeMarker, TypeOK, Idle, Absent, Torn
<1>6. ASSUME NEW k \in Hook, RemoveMarker(k) PROVE EditsHaveOwners' /\ OnlyOwnEdits'
  BY <1>6, HookChanging, NoMarker DEF RemoveMarker, TypeOK, Idle
<1>7. ASSUME NEW k \in Hook, Filter(k) PROVE EditsHaveOwners' /\ OnlyOwnEdits'
  <2>1. /\ hook[k].at \in {"filter", "scan"} /\ hook[k] \in HookState
        /\ UNCHANGED <<pending, marker, writing, edited>>
    BY <1>7, SMTT(30) DEF Filter, TypeOK
  <2>2. hook'[k] = Idle \/ (hook'[k].at = "append" /\ hook'[k].by = hook[k].by
                            /\ hook'[k].of = (IF hook[k].at = "filter" THEN hook[k].got.edited ELSE None))
    BY <1>7 DEF Filter, TypeOK
  <2>3. \A j \in Hook \ {k} : hook'[j] = hook[j]
    BY <1>7 DEF Filter, TypeOK
  <2>4. EditsHaveOwners'
    BY <2>1, <2>2, <2>3 DEF Idle
  <2>5. ASSUME NEW j \in Hook, hook'[j].at = "append", hook'[j].of # None
        PROVE  <<hook'[j].by, hook'[j].of>> \in edited'
    <3>1. CASE j = k
      <4>1. hook'[k].by = hook[k].by /\ hook'[k].of = (IF hook[k].at = "filter" THEN hook[k].got.edited ELSE None)
        BY <2>2, <2>5, <3>1 DEF Idle
      <4>2. hook[k].at = "filter" /\ hook'[k].of = hook[k].got.edited
        BY <2>5, <3>1, <4>1
      <4> QED
        BY <2>1, <3>1, <4>1, <4>2
    <3>2. CASE j # k
      BY <2>1, <2>3, <2>5, <3>2
    <3> QED
      BY <3>1, <3>2
  <2> QED
    BY <2>4, <2>5
<1>8. ASSUME NEW k \in Hook, Surface(k) PROVE EditsHaveOwners' /\ OnlyOwnEdits'
  BY <1>8, HookChanging DEF Surface, TypeOK, Idle, Answer
<1>9. ASSUME NEW k \in Hook, SurfaceUnrecorded(k) PROVE EditsHaveOwners' /\ OnlyOwnEdits'
  BY <1>9, HookChanging DEF SurfaceUnrecorded, TypeOK, Idle, Answer
<1>10. ASSUME NEW k \in Hook, Reap(k) PROVE EditsHaveOwners' /\ OnlyOwnEdits'
  BY <1>10 DEF Reap, TypeOK, Idle
<1>11. ASSUME NEW f \in EditedFile, Reindex(f) PROVE EditsHaveOwners' /\ OnlyOwnEdits'
  <2>1. f \in File /\ pending[f] # None
    BY <1>11 DEF Reindex
  <2>2. /\ pending' = [pending EXCEPT ![f] = None]
        /\ UNCHANGED <<edited, hook>>
    BY <1>11 DEF Reindex
  <2>3. marker' \in Marker => <<marker'.session, marker'.edited>> \in edited'
    BY <1>11, NoMarker DEF Reindex
  <2>4. writing' \in Marker => <<writing'.session, writing'.edited>> \in edited'
    BY <1>11, <2>1 DEF Reindex
  <2> QED
    BY <2>1, <2>2, <2>3, <2>4 DEF TypeOK
<1>12. ASSUME NEW f \in ReadFile, Delete(f) PROVE EditsHaveOwners' /\ OnlyOwnEdits'
  BY <1>12 DEF Delete
<1>13. ASSUME WriteMarker PROVE EditsHaveOwners' /\ OnlyOwnEdits'
  BY <1>13, NoMarker DEF WriteMarker
<1>14. ASSUME NEW l \in Ledger, Age(l) PROVE EditsHaveOwners' /\ OnlyOwnEdits'
  BY <1>14 DEF Age
<1>15. CASE UNCHANGED vars
  BY <1>15 DEF vars, files, ledgers, history
<1> QED
  BY <1>1, <1>2, <1>3, <1>4, <1>5, <1>6, <1>7, <1>8, <1>9, <1>10, <1>11, <1>12, <1>13, <1>14, <1>15
     DEF Next, HookStep

(* A hint of an edit is for a session that has made that edit, whoever takes the marker     *)
(* first (post_tool_use.rs:493-501).                                               *)
THEOREM OwnEdits == Spec => []OnlyOwnEdits
<1>1. Init => EditsHaveOwners /\ OnlyOwnEdits
  BY NoMarker DEF Init, EditsHaveOwners, OnlyOwnEdits, Idle
<1>2. TypeOK /\ EditsHaveOwners /\ OnlyOwnEdits /\ [Next]_vars => EditsHaveOwners' /\ OnlyOwnEdits'
  BY OwnersStep
<1> QED
  BY <1>1, <1>2, Typing, PTL DEF Spec

-----------------------------------------------------------------------------
(* The seen ledger of a session holds nothing but what it was shown, and all of it that    *)
(* a ledger can hold, unless it was reaped or not written.                          *)
SeenIsShown ==
  \A s \in Session :
    /\ seen[s] \subseteq shown[s]
    /\ s \notin lost => Recordable(shown[s]) \subseteq seen[s]

LEMMA SeenStep == ASSUME TypeOK, SeenIsShown, [Next]_vars PROVE SeenIsShown'
<1> USE DEF SeenIsShown, Recordable, files, ledgers, history, Event
<1>1. ASSUME NEW k \in Hook, NEW s \in Anyone, NEW f \in EditedFile, Edit(k, s, f) PROVE SeenIsShown'
  BY <1>1 DEF Edit
<1>2. ASSUME NEW k \in Hook, NEW s \in Anyone, NEW f \in ReadFile, NEW w \in Window, Read(k, s, f, w) PROVE SeenIsShown'
  BY <1>2 DEF Read, AppendReadRange
<1>3. ASSUME NEW k \in Hook, NEW s \in Anyone, Prompt(k, s) PROVE SeenIsShown'
  BY <1>3 DEF Prompt
<1>4. ASSUME NEW k \in Hook, NEW s \in Anyone, Start(k, s) PROVE SeenIsShown'
  BY <1>4 DEF Start, TypeOK
<1>5. ASSUME NEW k \in Hook, TakeMarker(k) PROVE SeenIsShown'
  BY <1>5 DEF TakeMarker
<1>6. ASSUME NEW k \in Hook, RemoveMarker(k) PROVE SeenIsShown'
  BY <1>6, SMTT(30) DEF RemoveMarker
<1>7. ASSUME NEW k \in Hook, Filter(k) PROVE SeenIsShown'
  BY <1>7 DEF Filter
<1>8. ASSUME NEW k \in Hook, Surface(k) PROVE SeenIsShown'
  BY <1>8, Answering DEF Surface, TypeOK, Answer, Anyone
<1>9. ASSUME NEW k \in Hook, SurfaceUnrecorded(k) PROVE SeenIsShown'
  BY <1>9, Answering DEF SurfaceUnrecorded, TypeOK, Answer, Anyone
<1>10. ASSUME NEW k \in Hook, Reap(k) PROVE SeenIsShown'
  BY <1>10 DEF Reap, TypeOK
<1>11. ASSUME NEW f \in EditedFile, Reindex(f) PROVE SeenIsShown'
  BY <1>11 DEF Reindex
<1>12. ASSUME NEW f \in ReadFile, Delete(f) PROVE SeenIsShown'
  BY <1>12 DEF Delete
<1>13. ASSUME WriteMarker PROVE SeenIsShown'
  BY <1>13 DEF WriteMarker
<1>14. ASSUME NEW l \in Ledger, Age(l) PROVE SeenIsShown'
  BY <1>14 DEF Age
<1>15. CASE UNCHANGED vars
  BY <1>15 DEF vars, files, ledgers, history
<1> QED
  BY <1>1, <1>2, <1>3, <1>4, <1>5, <1>6, <1>7, <1>8, <1>9, <1>10, <1>11, <1>12, <1>13, <1>14, <1>15
     DEF Next, HookStep

(* What a hook is about to append for a session whose ledger is whole is new to it.          *)
LEMMA HintsStep == ASSUME TypeOK, SeenIsShown, HintsAreNotRepeated, [Next]_vars
                   PROVE  HintsAreNotRepeated'
<1> USE DEF HintsAreNotRepeated, files, ledgers, history, Event, Goto
<1>1. ASSUME NEW k \in Hook, NEW s \in Anyone, NEW f \in EditedFile, Edit(k, s, f) PROVE HintsAreNotRepeated'
  BY <1>1 DEF Edit, TypeOK, Idle
<1>2. ASSUME NEW k \in Hook, NEW s \in Anyone, NEW f \in ReadFile, NEW w \in Window, Read(k, s, f, w) PROVE HintsAreNotRepeated'
  <2>1. hook'[k].at # "append" /\ \A j \in Hook \ {k} : hook'[j] = hook[j]
    BY <1>2 DEF Read, TypeOK, Idle
  <2> QED
    BY <1>2, <2>1 DEF Read
<1>3. ASSUME NEW k \in Hook, NEW s \in Anyone, Prompt(k, s) PROVE HintsAreNotRepeated'
  BY <1>3 DEF Prompt, TypeOK, Idle
<1>4. ASSUME NEW k \in Hook, NEW s \in Anyone, Start(k, s) PROVE HintsAreNotRepeated'
  BY <1>4, HookFields DEF Start, TypeOK, Idle
<1>5. ASSUME NEW k \in Hook, TakeMarker(k) PROVE HintsAreNotRepeated'
  BY <1>5 DEF TakeMarker, TypeOK, Idle
<1>6. ASSUME NEW k \in Hook, RemoveMarker(k) PROVE HintsAreNotRepeated'
  BY <1>6, HookChanging DEF RemoveMarker, TypeOK, Idle
<1>7. ASSUME NEW k \in Hook, Filter(k) PROVE HintsAreNotRepeated'
  <2>1. \A j \in Hook \ {k} : hook'[j] = hook[j]
    BY <1>7 DEF Filter, TypeOK
  <2>2. UNCHANGED <<shown, lost>>
    BY <1>7 DEF Filter
  <2>3. ASSUME hook'[k].at = "append", hook'[k].by \in Session \ lost, NEW h \in Recordable(hook'[k].picked)
        PROVE  ~IsSeen(shown[hook'[k].by], h)
    <3>1. hook'[k].by = hook[k].by
      BY <1>7, <2>3 DEF Filter, TypeOK, Idle
    <3>2. Surfaceable(hook[k].by, h)
      BY <1>7, <2>3 DEF Filter, TypeOK, Idle, Recordable
    <3>3. hook[k].by # NoSession
      BY <2>3, <3>1, HintsAssumption
    <3>4. ~IsSeen(seen[hook[k].by], h)
      BY <3>2, <3>3 DEF Surfaceable
    <3>5. Recordable(shown[hook[k].by]) \subseteq seen[hook[k].by]
      BY <2>3, <3>1 DEF SeenIsShown
    <3> QED
      BY <2>3, <3>1, <3>4, <3>5, SMTT(30) DEF IsSeen, Covers, Recordable
  <2> QED
    BY <2>1, <2>2, <2>3
<1>8. ASSUME NEW k \in Hook, Surface(k) PROVE HintsAreNotRepeated'
  BY <1>8, HookChanging DEF Surface, TypeOK, Idle, Answer
<1>9. ASSUME NEW k \in Hook, SurfaceUnrecorded(k) PROVE HintsAreNotRepeated'
  <2>1. Answer(k) /\ lost' = lost \cup {hook[k].by}
    BY <1>9 DEF SurfaceUnrecorded
  <2>2. \A s \in Session : s # hook[k].by => shown'[s] = shown[s]
    BY <2>1 DEF Answer, TypeOK
  <2> SUFFICES ASSUME NEW j \in Hook, hook'[j].at = "append",
                      hook'[j].by \in Session \ lost', ~hook'[j].raced,
                      NEW h \in Recordable(hook'[j].picked)
               PROVE  ~IsSeen(shown'[hook'[j].by], h)
    OBVIOUS
  <2>3. hook[j].at = "append" /\ hook'[j] = hook[j] /\ hook[j].by # hook[k].by
    BY <2>1, StillAppending
  <2> QED
    BY <2>1, <2>2, <2>3
<1>10. ASSUME NEW k \in Hook, Reap(k) PROVE HintsAreNotRepeated'
  BY <1>10 DEF Reap, TypeOK, Idle
<1>11. ASSUME NEW f \in EditedFile, Reindex(f) PROVE HintsAreNotRepeated'
  BY <1>11 DEF Reindex
<1>12. ASSUME NEW f \in ReadFile, Delete(f) PROVE HintsAreNotRepeated'
  BY <1>12 DEF Delete
<1>13. ASSUME WriteMarker PROVE HintsAreNotRepeated'
  BY <1>13 DEF WriteMarker
<1>14. ASSUME NEW l \in Ledger, Age(l) PROVE HintsAreNotRepeated'
  BY <1>14 DEF Age
<1>15. CASE UNCHANGED vars
  BY <1>15 DEF vars, files, ledgers, history
<1> QED
  BY <1>1, <1>2, <1>3, <1>4, <1>5, <1>6, <1>7, <1>8, <1>9, <1>10, <1>11, <1>12, <1>13, <1>14, <1>15
     DEF Next, HookStep

(* A session is not shown the same lines of a symbol twice (change_neighbors.rs:8-13), unless *)
(* its ledger was reaped or not written, or two of its hooks are at it at once.              *)
THEOREM NotRepeated == Spec => []HintsAreNotRepeated
<1>1. Init => SeenIsShown /\ HintsAreNotRepeated
  BY DEF Init, SeenIsShown, HintsAreNotRepeated, Recordable, Idle
<1>2. TypeOK /\ SeenIsShown /\ [Next]_vars => SeenIsShown'
  BY SeenStep
<1>3. TypeOK /\ SeenIsShown /\ HintsAreNotRepeated /\ [Next]_vars => HintsAreNotRepeated'
  BY HintsStep
<1> QED
  BY <1>1, <1>2, <1>3, Typing, PTL DEF Spec

-----------------------------------------------------------------------------
(* No file is ever made longer or shorter, but it may be deleted and come back.             *)
FixedLengths == \A f \in File : \A m, n \in Lines[f] : m = n

(* What the read ledger claims of a file has been displayed, as far as the file goes.       *)
ClaimsAreDisplayed ==
  /\ \A f \in File : length[f] \in {0} \cup Lines[f]
  /\ \A s \in Session : \A r \in read[s] :
       /\ r.from # 0
       /\ \A n \in Lines[r.file] : \A l \in (r.from)..(r.to) : l <= n => <<r.file, l>> \in displayed[s]

LEMMA ClaimsStep == ASSUME FixedLengths, TypeOK, ClaimsAreDisplayed, [Next]_vars PROVE ClaimsAreDisplayed'
<1> USE DEF ClaimsAreDisplayed, files, ledgers, history, Event
<1>1. ASSUME NEW k \in Hook, NEW s \in Anyone, NEW f \in EditedFile, Edit(k, s, f) PROVE ClaimsAreDisplayed'
  BY <1>1, HintsAssumption DEF Edit, TypeOK
<1>2. ASSUME NEW k \in Hook, NEW s \in Anyone, NEW f \in ReadFile, NEW w \in Window, Read(k, s, f, w) PROVE ClaimsAreDisplayed'
  <2>1. f \in File /\ length[f] \in Lines[f] /\ length[f] \in Nat
    BY <1>2, HintsAssumption DEF Read, Exists, TypeOK
  <2>2. Claimed(f, w).from # 0 /\ Claimed(f, w).file = f
    BY <2>1, Windows DEF Claimed
  <2>3. \A n \in Lines[f] : \A l \in (Claimed(f, w).from)..(Claimed(f, w).to) :
          l <= n => <<f, l>> \in Displayed(f, w)
    BY <2>1, Windows DEF FixedLengths
  <2>4. UNCHANGED length
    BY <1>2 DEF Read
  <2>5. CASE s = NoSession
    BY <1>2, <2>5 DEF Read
  <2>6. CASE s \in Session
    <3>1. displayed' = [displayed EXCEPT ![s] = displayed[s] \cup Displayed(f, w)]
      BY <1>2, <2>6, HintsAssumption DEF Read
    <3>2. read' = read \/ read' = [read EXCEPT ![s] = read[s] \cup {Claimed(f, w)}]
      BY <1>2, <2>6, HintsAssumption DEF Read, AppendReadRange
    <3>3. ASSUME NEW t \in Session, NEW r \in read[t]
          PROVE  /\ r.from # 0
                 /\ \A n \in Lines[r.file] : \A l \in (r.from)..(r.to) :
                      l <= n => <<r.file, l>> \in displayed'[t]
      BY <3>1 DEF TypeOK
    <3>4. ASSUME NEW t \in Session, NEW r \in read'[t], r \notin read[t]
          PROVE  /\ r.from # 0
                 /\ \A n \in Lines[r.file] : \A l \in (r.from)..(r.to) :
                      l <= n => <<r.file, l>> \in displayed'[t]
      <4>1. t = s /\ r = Claimed(f, w)
        BY <3>2, <3>4 DEF TypeOK
      <4> QED
        BY <2>2, <2>3, <2>6, <3>1, <4>1 DEF TypeOK
    <3> QED
      BY <2>4, <3>3, <3>4
  <2> QED
    BY <2>5, <2>6 DEF Anyone
<1>3. ASSUME NEW k \in Hook, NEW s \in Anyone, Prompt(k, s) PROVE ClaimsAreDisplayed'
  BY <1>3 DEF Prompt
<1>4. ASSUME NEW k \in Hook, NEW s \in Anyone, Start(k, s) PROVE ClaimsAreDisplayed'
  BY <1>4 DEF Start, TypeOK
<1>5. ASSUME NEW k \in Hook, TakeMarker(k) PROVE ClaimsAreDisplayed'
  BY <1>5 DEF TakeMarker
<1>6. ASSUME NEW k \in Hook, RemoveMarker(k) PROVE ClaimsAreDisplayed'
  BY <1>6, SMTT(30) DEF RemoveMarker
<1>7. ASSUME NEW k \in Hook, Filter(k) PROVE ClaimsAreDisplayed'
  BY <1>7 DEF Filter
<1>8. ASSUME NEW k \in Hook, Surface(k) PROVE ClaimsAreDisplayed'
  BY <1>8 DEF Surface, TypeOK
<1>9. ASSUME NEW k \in Hook, SurfaceUnrecorded(k) PROVE ClaimsAreDisplayed'
  BY <1>9 DEF SurfaceUnrecorded, TypeOK
<1>10. ASSUME NEW k \in Hook, Reap(k) PROVE ClaimsAreDisplayed'
  BY <1>10 DEF Reap, TypeOK
<1>11. ASSUME NEW f \in EditedFile, Reindex(f) PROVE ClaimsAreDisplayed'
  BY <1>11 DEF Reindex
<1>12. ASSUME NEW f \in ReadFile, Delete(f) PROVE ClaimsAreDisplayed'
  BY <1>12, HintsAssumption DEF Delete, TypeOK
<1>13. ASSUME WriteMarker PROVE ClaimsAreDisplayed'
  BY <1>13 DEF WriteMarker
<1>14. ASSUME NEW l \in Ledger, Age(l) PROVE ClaimsAreDisplayed'
  BY <1>14 DEF Age
<1>15. CASE UNCHANGED vars
  BY <1>15 DEF vars, files, ledgers, history
<1> QED
  BY <1>1, <1>2, <1>3, <1>4, <1>5, <1>6, <1>7, <1>8, <1>9, <1>10, <1>11, <1>12, <1>13, <1>14, <1>15
     DEF Next, HookStep

(* What the ledgers of a session hold back it was shown, or it has read or written every line *)
(* of it (change_neighbors.rs:21-27), as long as files keep their lengths: a claim of a Read   *)
(* past the end of a file covers what another session adds to it later.                     *)
THEOREM Suppressed == ASSUME FixedLengths PROVE Spec => []SuppressedIsKnown
<1>1. Init => ClaimsAreDisplayed /\ SeenIsShown
  BY DEF Init, ClaimsAreDisplayed, SeenIsShown, Recordable
<1>2. TypeOK /\ ClaimsAreDisplayed /\ [Next]_vars => ClaimsAreDisplayed'
  BY ClaimsStep
<1>3. TypeOK /\ SeenIsShown /\ [Next]_vars => SeenIsShown'
  BY SeenStep
<1>4. TypeOK /\ ClaimsAreDisplayed /\ SeenIsShown => SuppressedIsKnown
  <2> SUFFICES ASSUME TypeOK, ClaimsAreDisplayed, SeenIsShown, NEW s \in Session, NEW h \in Hint,
                      h.to <= length[h.file], IsSeen(seen[s], h) \/ IsRead(read[s], h)
               PROVE  IsSeen(shown[s], h) \/ {h.file} \X (h.from..h.to) \subseteq displayed[s]
    BY DEF SuppressedIsKnown
  <2>1. CASE IsSeen(seen[s], h)
    BY <2>1 DEF SeenIsShown, IsSeen
  <2>2. CASE IsRead(read[s], h)
    <3>1. PICK r \in read[s] : r.file = h.file /\ r.from <= h.from /\ r.to >= h.to
      BY <2>2 DEF IsRead, Covers
    <3>2. h.file \in File /\ h.from \in Nat /\ h.to \in Nat /\ r.from \in Nat /\ r.to \in Nat
      BY HintsAssumption DEF TypeOK, Stretch
    <3>3. ASSUME NEW l \in h.from..h.to PROVE <<h.file, l>> \in displayed[s]
      <4>1. length[h.file] \in Nat /\ l <= length[h.file] /\ l \in (r.from)..(r.to) /\ r.from # 0
        BY <3>1, <3>2 DEF TypeOK, ClaimsAreDisplayed
      <4>2. length[h.file] \in Lines[r.file]
        BY <3>1, <3>2, <4>1 DEF ClaimsAreDisplayed
      <4> QED
        BY <3>1, <4>1, <4>2 DEF ClaimsAreDisplayed
    <3> QED
      BY <3>3
  <2> QED
    BY <2>1, <2>2
<1> QED
  BY <1>1, <1>2, <1>3, <1>4, Typing, PTL DEF Spec

(* What a claimed batch asks the model to check is its own session's edits, and no file   *)
(* it has been asked to check before (post_tool_use.rs:1079-1084).                      *)
THEOREM OwnAndNew == Spec => []HintsAreOwnAndNew
  BY OwnEdits, NotRepeated, PTL DEF HintsAreOwnAndNew
=============================================================================
