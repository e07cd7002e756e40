----------------------------- MODULE ServerProofs ------------------------------
(***************************************************************************)
(* Theorems about the MCP server: its calls and the advertisement of its    *)
(* embedding port, for any number of calls, any servers and any deaths.     *)
(***************************************************************************)
EXTENDS McpServer, SideChannel, FiniteSetTheorems, TLAPS

CallState ==
  {Idle}
    \cup [at : {"search", "clear", "drop", "reset", "claim", "compare"}]
    \cup [at : {"fill"}, todo : SUBSET File, snap : SUBSET File]
    \cup [at : {"file", "poll", "delete", "append", "tally"}, file : File]

WritingAt == {"compare", "fill", "delete", "append", "tally"}

(* Who writes holds the lock in the server's name, and nobody else of the server    *)
(* does; at most one call blocks the thread, and only then has it slept.            *)
CallsOwn ==
  /\ call \in [Call -> CallState]
  /\ lock \in {"server", "other", None}
  /\ polls \in 0..WaitPolls
  /\ \A c \in Call : call[c].at \in WritingAt => lock = "server"
  /\ \A c, d \in Call : call[c].at \in WritingAt /\ call[d].at \in WritingAt => c = d
  /\ \A c, d \in Call : call[c].at = "poll" /\ call[d].at = "poll" => c = d
  /\ (\A c \in Call : call[c].at # "poll") => polls = 0

DataTyped ==
  /\ rows \subseteq File
  /\ manifest \in [hashed : SUBSET File, count : 0..Cardinality(File)]
  /\ dirty \subseteq File
  /\ warned \in BOOLEAN
  /\ edits \in 0..MaxEdits
  /\ others \in 0..MaxOther

(* A set whose members are all one has a member or none. *)
LEMMA AtMostOne ==
  ASSUME NEW S, \A x, y \in S : x = y
  PROVE  /\ Cardinality(S) \in {0, 1}
         /\ S # {} => Cardinality(S) = 1
<1>1. CASE S = {}
  BY <1>1, FS_EmptySet
<1>2. CASE S # {}
  <2>1. PICK x \in S : TRUE
    BY <1>2
  <2>2. S = {x}
    BY <2>1
  <2> QED
    BY <2>2, FS_Singleton
<1> QED
  BY <1>1, <1>2

(* The table has at most as many files as there are. *)
LEMMA Counted ==
  ASSUME NEW R \in SUBSET File
  PROVE  Cardinality(R) \in 0..Cardinality(File)
BY ServerAssumption, FS_Subset, FS_CardinalityType

(* A call's place says which fields it has.                                     *)
LEMMA Reading ==
  ASSUME NEW x \in CallState
  PROVE  /\ x.at \in {"file", "poll", "delete", "append", "tally"} =>
              x \in [at : {"file", "poll", "delete", "append", "tally"}, file : File]
         /\ x.at = "fill" => x \in [at : {"fill"}, todo : SUBSET File, snap : SUBSET File]
BY DEF CallState, Idle

(* What the table and the manifest hold stays of the files.                    *)
LEMMA DataStep ==
  ASSUME CallsOwn, DataTyped, [Next]_vars
  PROVE  DataTyped'
<1> USE ServerAssumption, Counted DEF DataTyped
<1>1. ASSUME NEW f \in File, Edit(f) PROVE DataTyped'
  BY <1>1 DEF Edit
<1>2. CASE OtherClaims
  BY <1>2 DEF OtherClaims, store
<1>3. CASE OtherReleases
  BY <1>3 DEF OtherReleases, store
<1>4. ASSUME NEW c \in Call, Arrive(c) PROVE DataTyped'
  BY <1>4 DEF Arrive, store
<1>5. ASSUME NEW c \in Call,
             SearchCode(c) \/ ClaimOrPoll(c) \/ PollSucceeds(c) \/ Sleep(c) \/ PollTimesOut(c)
               \/ StopHolder(c) \/ ClaimIndex(c)
      PROVE  DataTyped'
  BY <1>5 DEF SearchCode, ClaimOrPoll, PollSucceeds, Sleep, PollTimesOut, StopHolder,
              ClaimIndex, store
<1>6. ASSUME NEW c \in Call, DeleteRows(c) \/ DropTable(c) PROVE DataTyped'
  BY <1>6 DEF DeleteRows, DropTable
<1>7. ASSUME NEW c \in Call, AppendRows(c) PROVE DataTyped'
  <2>1. call[c].file \in File
    BY <1>7, Reading DEF AppendRows, CallsOwn
  <2> QED
    BY <1>7, <2>1 DEF AppendRows
<1>8. ASSUME NEW c \in Call, Tally(c) PROVE DataTyped'
  BY <1>8 DEF Tally
<1>9. ASSUME NEW c \in Call, ResetManifest(c) PROVE DataTyped'
  BY <1>9, FS_EmptySet DEF ResetManifest, NoManifest
<1>10. ASSUME NEW c \in Call, Compare(c) PROVE DataTyped'
  BY <1>10 DEF Compare
<1>11. ASSUME NEW c \in Call, NEW f \in File, FlushWindow(c, f) PROVE DataTyped'
  BY <1>11 DEF FlushWindow
<1>12. ASSUME NEW c \in Call, FinishIndex(c) PROVE DataTyped'
  <2>1. call[c].snap \in SUBSET File
    BY <1>12, Reading DEF FinishIndex, CallsOwn
  <2> QED
    BY <1>12, <2>1 DEF FinishIndex
<1>13. CASE UNCHANGED vars
  BY <1>13 DEF vars, store
<1> QED
  BY <1>1, <1>2, <1>3, <1>4, <1>5, <1>6, <1>7, <1>8, <1>9, <1>10, <1>11, <1>12, <1>13
     DEF Next, CallStep

(* Only the holder of the lock writes, one call at a time, and one blocks at most. *)
THEOREM Owning == Spec => [](CallsOwn /\ DataTyped)
<1>1. Init => CallsOwn /\ DataTyped
  <2>1. Init => CallsOwn
    BY ServerAssumption DEF Init, CallsOwn, CallState, Idle, WritingAt
  <2>2. Init => DataTyped
    <3>1. Cardinality(File) \in Nat /\ 0 \in 0..Cardinality(File)
      BY ServerAssumption, FS_CardinalityType
    <3>2. [hashed |-> {}, count |-> 0] \in [hashed : SUBSET File, count : 0..Cardinality(File)]
      BY <3>1
    <3>3. [hashed |-> File, count |-> Cardinality(File)]
            \in [hashed : SUBSET File, count : 0..Cardinality(File)]
      BY <3>1
    <3> SUFFICES ASSUME Init PROVE DataTyped
      OBVIOUS
    <3>4. manifest \in [hashed : SUBSET File, count : 0..Cardinality(File)]
      BY <3>2, <3>3 DEF Init, NoManifest
    <3>5. 0 \in 0..MaxEdits /\ 0 \in 0..MaxOther
      BY ServerAssumption
    <3> QED
      BY <3>4, <3>5 DEF Init, DataTyped
  <2> QED
    BY <2>1, <2>2
<1>2. CallsOwn /\ DataTyped /\ [Next]_vars => CallsOwn'
  <2> SUFFICES ASSUME CallsOwn, DataTyped, [Next]_vars
               PROVE  CallsOwn'
    OBVIOUS
  <2> USE ServerAssumption DEF CallsOwn, WritingAt, Goto, At, Blocked
  <2>1. ASSUME NEW f \in File, Edit(f) PROVE CallsOwn'
    BY <2>1 DEF Edit
  <2>2. CASE OtherClaims
    BY <2>2 DEF OtherClaims
  <2>3. CASE OtherReleases
    BY <2>3 DEF OtherReleases
  <2>4. ASSUME NEW c \in Call, Arrive(c) PROVE CallsOwn'
    BY <2>4 DEF Arrive, CallState, Idle
  <2>5. ASSUME NEW c \in Call, SearchCode(c) PROVE CallsOwn'
    BY <2>5 DEF SearchCode, CallState, Idle
  <2>6. ASSUME NEW c \in Call, ClaimOrPoll(c) PROVE CallsOwn'
    BY <2>6, Reading DEF ClaimOrPoll, CallState, Idle
  <2>7. ASSUME NEW c \in Call, PollSucceeds(c) PROVE CallsOwn'
    BY <2>7, Reading DEF PollSucceeds, CallState, Idle
  <2>8. ASSUME NEW c \in Call, Sleep(c) PROVE CallsOwn'
    BY <2>8 DEF Sleep
  <2>9. ASSUME NEW c \in Call, PollTimesOut(c) PROVE CallsOwn'
    BY <2>9 DEF PollTimesOut, CallState, Idle
  <2>10. ASSUME NEW c \in Call, DeleteRows(c) PROVE CallsOwn'
    BY <2>10, Reading DEF DeleteRows, CallState, Idle
  <2>11. ASSUME NEW c \in Call, AppendRows(c) PROVE CallsOwn'
    BY <2>11, Reading DEF AppendRows, CallState, Idle
  <2>12. ASSUME NEW c \in Call, Tally(c) PROVE CallsOwn'
    BY <2>12 DEF Tally, CallState, Idle
  <2>13. ASSUME NEW c \in Call, StopHolder(c) PROVE CallsOwn'
    BY <2>13 DEF StopHolder, CallState, Idle
  <2>14. ASSUME NEW c \in Call, DropTable(c) PROVE CallsOwn'
    BY <2>14 DEF DropTable, CallState, Idle
  <2>15. ASSUME NEW c \in Call, ResetManifest(c) PROVE CallsOwn'
    BY <2>15 DEF ResetManifest, CallState, Idle
  <2>16. ASSUME NEW c \in Call, ClaimIndex(c) PROVE CallsOwn'
    BY <2>16 DEF ClaimIndex, CallState, Idle
  <2>17. ASSUME NEW c \in Call, Compare(c) PROVE CallsOwn'
    <3> DEFINE changed == (File \ Known) \cup dirty
               filling == [at |-> "fill", todo |-> changed, snap |-> File]
    <3>1. call[c].at = "compare" /\ lock = "server" /\ polls' = polls
      BY <2>17 DEF Compare
    <3>2. CASE lock' = None /\ call' = [call EXCEPT ![c] = Idle]
      BY <3>1, <3>2 DEF CallState, Idle
    <3>3. CASE lock' = lock /\ call' = [call EXCEPT ![c] = filling]
      <4>1. filling \in CallState /\ filling.at = "fill"
        BY DEF CallState, DataTyped
      <4> QED
        BY <3>1, <3>3, <4>1
    <3> QED
      BY <2>17, <3>2, <3>3 DEF Compare
  <2>18. ASSUME NEW c \in Call, NEW f \in File, FlushWindow(c, f) PROVE CallsOwn'
    BY <2>18, Reading DEF FlushWindow, CallState, Idle
  <2>19. ASSUME NEW c \in Call, FinishIndex(c) PROVE CallsOwn'
    BY <2>19 DEF FinishIndex, CallState, Idle
  <2>20. CASE UNCHANGED vars
    BY <2>20 DEF vars
  <2> QED
    BY <2>1, <2>2, <2>3, <2>4, <2>5, <2>6, <2>7, <2>8, <2>9, <2>10, <2>11, <2>12, <2>13,
       <2>14, <2>15, <2>16, <2>17, <2>18, <2>19, <2>20 DEF Next, CallStep
<1>3. CallsOwn /\ DataTyped /\ [Next]_vars => DataTyped'
  BY DataStep
<1> QED
  BY <1>1, <1>2, <1>3, PTL DEF Spec

(* Every call, the lock, the table and the manifest keep their types.              *)
THEOREM CallsTyping == Spec => []TypeOK
<1>1. CallsOwn /\ DataTyped => TypeOK
  <2> SUFFICES ASSUME CallsOwn, DataTyped PROVE TypeOK
    OBVIOUS
  <2>1. \A c, d \in At("poll") : c = d
    BY DEF CallsOwn, At
  <2>2. Blocked => Cardinality(At("poll")) = 1
    BY <2>1, AtMostOne DEF Blocked
  <2>3. ~Blocked => polls = 0
    BY DEF CallsOwn, Blocked, At
  <2>4. Writing # {} => lock = "server"
    BY DEF CallsOwn, Writing, WritingAt
  <2> QED
    BY <2>2, <2>3, <2>4 DEF TypeOK, CallsOwn, DataTyped, CallState
<1> QED
  BY <1>1, Owning, PTL

(* The lock file tells two calls of one server apart in no way, and yet one writes   *)
(* at a time: a claim is refused or waits while the server's own id is in the file.    *)
THEOREM OneCall == Spec => []OneCallWrites
<1>1. CallsOwn => OneCallWrites
  <2> SUFFICES ASSUME CallsOwn PROVE OneCallWrites
    OBVIOUS
  <2>1. \A c, d \in Writing : c = d
    BY DEF CallsOwn, Writing, WritingAt
  <2> QED
    BY <2>1, AtMostOne DEF OneCallWrites
<1> QED
  BY <1>1, Owning, PTL

-----------------------------------------------------------------------------
(* The advertisement of the embedding port.                                   *)

(* A look that found the marker orphaned is not of the server it names; so a server  *)
(* that finds the marker its own has no look under way, and once it has removed it     *)
(* none comes.                                                               *)
LooksAreOver ==
  \A s \in Server :
    /\ upkeep[s] \in {"orphaned", "emptied"} => marker # s
    /\ main[s] \in {"off", "bound", "emptied"} => upkeep[s] = "none"
    /\ main[s] = "leaving" => upkeep[s] # "waiting"
    /\ main[s] = "owner" => upkeep[s] = "none"
    /\ s \in cleared => main[s] \in {"withdrawn", "gone"} /\ upkeep[s] = "none" /\ marker # s

(* The marker, the tasks and the history keep their types, and a marker names a    *)
(* server that has started.                                                    *)
THEOREM ChannelTyping == ChannelSpec => []ChannelTypeOK
<1>1. ChannelInit => ChannelTypeOK
  BY ChannelAssumption DEF ChannelInit, ChannelTypeOK
<1>2. ChannelTypeOK /\ [ChannelNext]_channelVars => ChannelTypeOK'
  <2> SUFFICES ASSUME ChannelTypeOK, [ChannelNext]_channelVars
               PROVE  ChannelTypeOK'
    OBVIOUS
  <2> USE ChannelAssumption DEF ChannelTypeOK, MainGoto, UpkeepGoto, Running
  <2>1. ASSUME NEW s \in Server, Bind(s) PROVE ChannelTypeOK'
    BY <2>1 DEF Bind
  <2>2. ASSUME NEW s \in Server, Empty(s) PROVE ChannelTypeOK'
    BY <2>2 DEF Empty
  <2>3. ASSUME NEW s \in Server, Advertise(s) PROVE ChannelTypeOK'
    BY <2>3 DEF Advertise
  <2>4. ASSUME NEW s \in Server, Look(s) PROVE ChannelTypeOK'
    BY <2>4 DEF Look
  <2>5. ASSUME NEW s \in Server, EmptyAgain(s) PROVE ChannelTypeOK'
    BY <2>5 DEF EmptyAgain
  <2>6. ASSUME NEW s \in Server, Readvertise(s) PROVE ChannelTypeOK'
    BY <2>6 DEF Readvertise
  <2>7. ASSUME NEW s \in Server, Abort(s) PROVE ChannelTypeOK'
    BY <2>7 DEF Abort
  <2>8. ASSUME NEW s \in Server, FindOwned(s) PROVE ChannelTypeOK'
    BY <2>8 DEF FindOwned
  <2>9. ASSUME NEW s \in Server, Withdraw(s) PROVE ChannelTypeOK'
    BY <2>9 DEF Withdraw
  <2>10. ASSUME NEW s \in Server, Exit(s) PROVE ChannelTypeOK'
    BY <2>10 DEF Exit
  <2>11. ASSUME NEW s \in Server, Die(s) PROVE ChannelTypeOK'
    BY <2>11 DEF Die
  <2>12. CASE UNCHANGED channelVars
    BY <2>12 DEF channelVars
  <2> QED
    BY <2>1, <2>2, <2>3, <2>4, <2>5, <2>6, <2>7, <2>8, <2>9, <2>10, <2>11, <2>12
       DEF ChannelNext, Startup, Upkeep, Leave
<1> QED
  BY <1>1, <1>2, PTL DEF ChannelSpec

(* No look of a server outlasts its own withdrawal, although abort() does not wait    *)
(* for one that is under way.                                                  *)
THEOREM NoLateLook == ChannelSpec => []LooksAreOver
<1>1. ChannelInit => LooksAreOver
  BY DEF ChannelInit, LooksAreOver
<1>2. ChannelTypeOK /\ LooksAreOver /\ [ChannelNext]_channelVars => LooksAreOver'
  <2> SUFFICES ASSUME ChannelTypeOK, LooksAreOver, [ChannelNext]_channelVars
               PROVE  LooksAreOver'
    OBVIOUS
  <2> USE ChannelAssumption DEF ChannelTypeOK, LooksAreOver, MainGoto, UpkeepGoto, Running
  <2>1. ASSUME NEW s \in Server, Bind(s) PROVE LooksAreOver'
    BY <2>1 DEF Bind
  <2>2. ASSUME NEW s \in Server, Empty(s) PROVE LooksAreOver'
    BY <2>2 DEF Empty
  <2>3. ASSUME NEW s \in Server, Advertise(s) PROVE LooksAreOver'
    BY <2>3 DEF Advertise
  <2>4. ASSUME NEW s \in Server, Look(s) PROVE LooksAreOver'
    BY <2>4 DEF Look
  <2>5. ASSUME NEW s \in Server, EmptyAgain(s) PROVE LooksAreOver'
    BY <2>5 DEF EmptyAgain
  <2>6. ASSUME NEW s \in Server, Readvertise(s) PROVE LooksAreOver'
    BY <2>6 DEF Readvertise
  <2>7. ASSUME NEW s \in Server, Abort(s) PROVE LooksAreOver'
    BY <2>7 DEF Abort
  <2>8. ASSUME NEW s \in Server, FindOwned(s) PROVE LooksAreOver'
    BY <2>8 DEF FindOwned
  <2>9. ASSUME NEW s \in Server, Withdraw(s) PROVE LooksAreOver'
    BY <2>9 DEF Withdraw
  <2>10. ASSUME NEW s \in Server, Exit(s) PROVE LooksAreOver'
    BY <2>10 DEF Exit
  <2>11. ASSUME NEW s \in Server, Die(s) PROVE LooksAreOver'
    BY <2>11 DEF Die
  <2>12. CASE UNCHANGED channelVars
    BY <2>12 DEF channelVars
  <2> QED
    BY <2>1, <2>2, <2>3, <2>4, <2>5, <2>6, <2>7, <2>8, <2>9, <2>10, <2>11, <2>12
       DEF ChannelNext, Startup, Upkeep, Leave
<1> QED
  BY <1>1, <1>2, ChannelTyping, PTL DEF ChannelSpec

(* A marker that its server has withdrawn never names that server again.           *)
THEOREM StaysCleared == ChannelSpec => []ClearedStaysCleared
<1>1. LooksAreOver /\ ChannelTypeOK => ClearedStaysCleared
  BY DEF LooksAreOver, ChannelTypeOK, ClearedStaysCleared
<1> QED
  BY <1>1, NoLateLook, ChannelTyping, PTL
=============================================================================
