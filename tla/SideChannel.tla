----------------------------- MODULE SideChannel -----------------------------
(***************************************************************************)
(* The marker that advertises the embedding port of an MCP server.  Every      *)
(* server of a repository overwrites it when it starts, a task of it looks        *)
(* every READVERTISE_INTERVAL_SECS whether it is orphaned, and a server that      *)
(* leaves withdraws it (side_channel.rs, mcp::run).                            *)
(*                                                                         *)
(* A file is written in two steps, emptied and then filled, and a check and       *)
(* what follows from it are two steps: the tasks of a server run on different      *)
(* threads and abort() waits for an await, of which a look has none.             *)
(* A process that is gone does not come back under its id.                       *)
(***************************************************************************)
EXTENDS Naturals, FiniteSets

CONSTANTS Server, MaxFaults, Absent, Torn

ASSUME ChannelAssumption ==
  /\ MaxFaults \in Nat
  /\ Absent \notin Server
  /\ Torn \notin Server
  /\ Absent # Torn

VARIABLES
  marker,  \* whose marker it is
  main,    \* where the main task of each server is
  upkeep,  \* where its maintain_advertisement is
  cleared, \* history: the servers that removed their marker on leaving
  faults

channelVars == <<marker, main, upkeep, cleared, faults>>

Running(s) == main[s] \notin {"off", "gone"}

ChannelTypeOK ==
  /\ marker \in Server \cup {Absent, Torn}
  /\ main \in [Server -> {"off", "bound", "emptied", "serving", "leaving", "owner",
                          "withdrawn", "gone"}]
  /\ upkeep \in [Server -> {"none", "waiting", "orphaned", "emptied"}]
  /\ \A s \in Server : upkeep[s] # "none" => Running(s)
  /\ \A s \in Server : main[s] = "off" => marker # s
  /\ cleared \subseteq Server
  /\ faults \in 0..MaxFaults

ChannelInit ==
  /\ marker = Absent
  /\ main = [s \in Server |-> "off"]
  /\ upkeep = [s \in Server |-> "none"]
  /\ cleared = {}
  /\ faults = 0

MainGoto(s, from, to) == main[s] = from /\ main' = [main EXCEPT ![s] = to]
UpkeepGoto(s, from, to) == upkeep[s] = from /\ upkeep' = [upkeep EXCEPT ![s] = to]

-----------------------------------------------------------------------------
(* bind_and_advertise.                                                       *)
Bind(s) ==
  /\ MainGoto(s, "off", "bound")
  /\ UNCHANGED <<marker, upkeep, cleared, faults>>

Empty(s) ==
  /\ MainGoto(s, "bound", "emptied")
  /\ marker' = Torn
  /\ UNCHANGED <<upkeep, cleared, faults>>

Advertise(s) ==
  /\ MainGoto(s, "emptied", "serving")
  /\ marker' = s
  /\ upkeep' = [upkeep EXCEPT ![s] = "waiting"]
  /\ UNCHANGED <<cleared, faults>>

-----------------------------------------------------------------------------
(* Mutant: only a missing marker is claimed again. *)
LookForMissing(s) ==
  /\ marker = Absent
  /\ UpkeepGoto(s, "waiting", "orphaned")
  /\ UNCHANGED <<marker, main, cleared, faults>>

(* reclaim_if_orphaned: missing, unparseable, or of a dead process.               *)
Look(s) ==
  /\ \/ marker \in {Absent, Torn}
     \/ \E o \in Server : marker = o /\ ~Running(o)
  /\ UpkeepGoto(s, "waiting", "orphaned")
  /\ UNCHANGED <<marker, main, cleared, faults>>

EmptyAgain(s) ==
  /\ UpkeepGoto(s, "orphaned", "emptied")
  /\ marker' = Torn
  /\ UNCHANGED <<main, cleared, faults>>

(* After an abort a look is finished, and is the last.                            *)
Readvertise(s) ==
  /\ UpkeepGoto(s, "emptied", IF main[s] = "serving" THEN "waiting" ELSE "none")
  /\ marker' = s
  /\ UNCHANGED <<main, cleared, faults>>

-----------------------------------------------------------------------------
(* Mutant: the marker is withdrawn with the task still looking after it. *)
AbortNothing(s) ==
  /\ MainGoto(s, "serving", "leaving")
  /\ UNCHANGED <<marker, upkeep, cleared, faults>>

(* The end of mcp::run: the task is aborted, then the marker withdrawn.            *)
Abort(s) ==
  /\ MainGoto(s, "serving", "leaving")
  /\ upkeep' = [upkeep EXCEPT ![s] = IF @ = "waiting" THEN "none" ELSE @]
  /\ UNCHANGED <<marker, cleared, faults>>

(* withdraw.                                                                *)
FindOwned(s) ==
  /\ MainGoto(s, "leaving", IF marker = s THEN "owner" ELSE "withdrawn")
  /\ UNCHANGED <<marker, upkeep, cleared, faults>>

Withdraw(s) ==
  /\ MainGoto(s, "owner", "withdrawn")
  /\ marker' = Absent
  /\ cleared' = IF marker = s THEN cleared \cup {s} ELSE cleared
  /\ UNCHANGED <<upkeep, faults>>

(* The runtime goes down once its threads are through.                            *)
Exit(s) ==
  /\ MainGoto(s, "withdrawn", "gone")
  /\ upkeep[s] = "none"
  /\ UNCHANGED <<marker, upkeep, cleared, faults>>

Die(s) ==
  /\ faults < MaxFaults
  /\ faults' = faults + 1
  /\ Running(s)
  /\ main' = [main EXCEPT ![s] = "gone"]
  /\ upkeep' = [upkeep EXCEPT ![s] = "none"]
  /\ UNCHANGED <<marker, cleared>>

Upkeep(s) == Look(s) \/ EmptyAgain(s) \/ Readvertise(s)
Startup(s) == Empty(s) \/ Advertise(s)
Leave(s) == FindOwned(s) \/ Withdraw(s) \/ Exit(s)

ChannelNext == \E s \in Server : Bind(s) \/ Startup(s) \/ Upkeep(s) \/ Abort(s) \/ Leave(s) \/ Die(s)

ChannelSpec == ChannelInit /\ [][ChannelNext]_channelVars

(* A server that has started comes to serve; the interval of its task comes round  *)
(* again, at a moment when it finds what is there for good; one that leaves exits.  *)
ChannelFairSpec ==
  /\ ChannelSpec
  /\ \A s \in Server :
       WF_channelVars(Startup(s)) /\ WF_channelVars(Upkeep(s)) /\ WF_channelVars(Leave(s))

-----------------------------------------------------------------------------
Advertised == \E s \in Server : marker = s /\ main[s] = "serving"

(* While some server goes on serving, the marker again and again names one that      *)
(* serves, whatever the others withdrew, emptied or died holding (side_channel.rs:     *)
(* 110-120).  Two that look in step may overwrite each other, so it need not stay.     *)
MarkerHeals ==
  \A s \in Server : <>[](main[s] = "serving") => []<>Advertised

(* mcp/mod.rs:283-284, "so the marker isn't re-written for this exiting pid right     *)
(* after we clear it".                                                        *)
ClearedStaysCleared == \A s \in cleared : marker # s
=============================================================================
