------------------------------ MODULE MCServers ------------------------------
(* Instances of the long-lived processes: the calls of one MCP server, the      *)
(* marker several servers share, and the watcher.  `part` names the one that runs. *)
EXTENDS McpServer, SideChannel, Watcher

VARIABLE part

ServersInit ==
  /\ Init /\ ChannelInit /\ WatchInit
  /\ part \in {"calls", "channel", "watcher"}

CallsPart == part = "calls" /\ Next /\ UNCHANGED <<part, channelVars, watchVars>>
ChannelPart == part = "channel" /\ ChannelNext /\ UNCHANGED <<part, vars, watchVars>>
WatcherPart == part = "watcher" /\ WatchNext /\ UNCHANGED <<part, vars, channelVars>>

(* The fairness of each, while it is the one that runs.                          *)
ServersFairness ==
  /\ \A c \in Call : SF_vars(part = "calls" /\ CallStep(c))
  /\ \A s \in Server :
       /\ WF_channelVars(part = "channel" /\ Startup(s))
       /\ WF_channelVars(part = "channel" /\ Upkeep(s))
       /\ WF_channelVars(part = "channel" /\ Leave(s))
  /\ WF_watchVars(part = "watcher" /\ LoopStep)
  /\ WF_watchVars(part = "watcher" /\ TimePasses)
  /\ SF_watchVars(part = "watcher" /\ Deadline)
  /\ SF_watchVars(part = "watcher" /\ Receive)

ServersSpec ==
  /\ ServersInit
  /\ [][CallsPart \/ ChannelPart \/ WatcherPart]_<<part, vars, channelVars, watchVars>>
  /\ ServersFairness
==============================================================================
