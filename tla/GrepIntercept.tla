---------------------------- MODULE GrepIntercept ----------------------------
(* Which searches the PreToolUse hook answers itself (hooks/grep.rs,          *)
(* payload.rs, pre_tool_use.rs). A command is built token by token; what rg     *)
(* and grep make of its tokens is external.                                 *)
EXTENDS Naturals, Sequences

CONSTANTS
  Tool,         \* the search programs, of "rg" and "grep"
  MaxTokens     \* bound: tokens of a command besides the program

VARIABLES
  wrappers,     \* the tokens before the program
  tool,
  args          \* the arguments, by kind; a "word" is a pattern, a path or a value

grepVars == <<wrappers, tool, args>>

PlainFlag == {"--hidden", "-i"}
Disruptive == {"--count", "-l"}
Token == {"word", "--", "-", "--type", "--type=v", "--color", "--color=v", "--regexp",
          "--regexp=v", "--max-columns", "-e", "-ev", "-ie", "-t", "-T", "-rn", "-j"}
         \cup PlainFlag \cup Disruptive
Wrapper == {"time", "nice", "stdbuf", "-oL", "env", "A=1"}

GrepInit ==
  /\ tool \in Tool
  /\ wrappers = <<>>
  /\ args = <<>>

WrapCommand ==
  /\ args = <<>> /\ Len(wrappers) < MaxTokens
  /\ \E w \in Wrapper : wrappers' = Append(wrappers, w)
  /\ UNCHANGED <<tool, args>>

TypeArgument ==
  /\ Len(wrappers) + Len(args) < MaxTokens
  /\ \E t \in Token : args' = Append(args, t)
  /\ UNCHANGED <<tool, wrappers>>

GrepNext == WrapCommand \/ TypeArgument

GrepSpec == GrepInit /\ [][GrepNext]_grepVars

-----------------------------------------------------------------------------
(* strip_command_wrappers: a flag belongs to a stdbuf before it, an assignment     *)
(* to an env before it; any other token ends the wrappers, and is then no tool.        *)
Unwrapped ==
  \A i \in 1..Len(wrappers) :
    /\ wrappers[i] = "-oL" =>
         \E j \in 1..(i - 1) : wrappers[j] = "stdbuf" /\ \A k \in (j + 1)..i : wrappers[k] = "-oL"
    /\ wrappers[i] = "A=1" =>
         \E j \in 1..(i - 1) : wrappers[j] = "env" /\ \A k \in (j + 1)..i : wrappers[k] = "A=1"

(* The scan of the arguments. `next` is what the next token is to it: "any", "skip"  *)
(* (the value of a neutral flag), "pattern" (the value of -e) or "tail" (after --).     *)
ScanStart == [next |-> "any", gaveUp |-> FALSE, patterns |-> <<>>, positionals |-> <<>>]

SkipsNext == {"--type", "--color", "-t", "-T"}
PatternNext == {"--regexp", "-e"}
PatternGlued == {"--regexp=v", "-ev"}
Positional == {"word", "-"}

(* What a scan makes of an argument: it expects nothing of the next one, or the argument  *)
(* is a pattern or a positional.                                              *)
Resumed(scan) == [scan EXCEPT !.next = "any"]
WithPattern(scan, i) == [scan EXCEPT !.patterns = Append(@, i)]
WithPositional(scan, i) == [scan EXCEPT !.positionals = Append(@, i)]

(* An argument that is not the value of the one before it.                        *)
ScanNext(scan, i) ==
  CASE args[i] = "--" -> [scan EXCEPT !.next = "tail"]
    [] args[i] \in Disruptive -> [scan EXCEPT !.gaveUp = TRUE]
    [] args[i] \in PatternNext -> [scan EXCEPT !.next = "pattern"]
    [] args[i] \in PatternGlued -> WithPattern(scan, i)
    [] args[i] \in SkipsNext -> [scan EXCEPT !.next = "skip"]
    [] args[i] \in Positional -> WithPositional(scan, i)
    [] OTHER -> scan

(* Mutant: what follows -- is dropped. *)
ScanDropsTail(scan, i) ==
  IF scan.gaveUp \/ scan.next = "tail" THEN scan
  ELSE CASE scan.next = "skip" -> Resumed(scan)
         [] scan.next = "pattern" -> WithPattern(Resumed(scan), i)
         [] OTHER -> ScanNext(scan, i)

(* `gaveUp` is set when the scan gives the command up.                             *)
ScanArgument(scan, i) ==
  IF scan.gaveUp THEN scan
  ELSE CASE scan.next = "tail" -> WithPositional(scan, i)
         [] scan.next = "skip" -> Resumed(scan)
         [] scan.next = "pattern" -> WithPattern(Resumed(scan), i)
         [] OTHER -> ScanNext(scan, i)

(* The scan after each of the arguments.                                        *)
Scans[n \in 0..Len(args)] ==
  IF n = 0 THEN ScanStart ELSE ScanArgument(Scans[n - 1], n)

(* The index of the argument the hook searches for in the command's place, or 0.       *)
ExtractPattern ==
  LET scan == Scans[Len(args)] IN
    IF scan.gaveUp \/ scan.next = "pattern" \/ ~Unwrapped THEN 0
    ELSE CASE Len(scan.patterns) = 1 /\ scan.positionals = <<>> -> scan.patterns[1]
           [] Len(scan.positionals) = 1 /\ scan.patterns = <<>> -> scan.positionals[1]
           [] OTHER -> 0

-----------------------------------------------------------------------------
(* What the program itself reads: which flags take the next argument as a pattern    *)
(* or another value, and that a value is a word. `ok` is FALSE for a command it        *)
(* refuses.                                                                *)
TakesPattern(t) == t \in PatternNext \cup {"-ie"}
TakesValue(t) ==
  \/ t \in {"--type", "-t"}
  \/ tool = "rg" /\ t \in {"--color", "--max-columns", "-T", "-j"}

ToolStart == [next |-> "any", ok |-> TRUE, patterns |-> <<>>, positionals |-> <<>>]

(* A value is a word.                                                           *)
Valued(seen, i) == [Resumed(seen) EXCEPT !.ok = @ /\ args[i] = "word"]

ToolNext(seen, i) ==
  CASE args[i] = "--" -> [seen EXCEPT !.next = "tail"]
    [] TakesPattern(args[i]) -> [seen EXCEPT !.next = "pattern"]
    [] args[i] \in PatternGlued -> WithPattern(seen, i)
    [] TakesValue(args[i]) -> [seen EXCEPT !.next = "value"]
    [] args[i] \in Positional -> WithPositional(seen, i)
    [] OTHER -> seen

ToolStep(seen, i) ==
  CASE seen.next = "tail" -> WithPositional(seen, i)
    [] seen.next = "value" -> Valued(seen, i)
    [] seen.next = "pattern" -> WithPattern(Valued(seen, i), i)
    [] OTHER -> ToolNext(seen, i)

Readings[n \in 0..Len(args)] ==
  IF n = 0 THEN ToolStart ELSE ToolStep(Readings[n - 1], n)

Understood == Readings[Len(args)]

Runs == /\ Understood.ok /\ Understood.next \in {"any", "tail"}
        /\ Understood.patterns # <<>> \/ Understood.positionals # <<>>

ToolPatterns ==
  IF Understood.patterns # <<>> THEN Understood.patterns ELSE <<Understood.positionals[1]>>
ToolPaths ==
  IF Understood.patterns # <<>> THEN Understood.positionals ELSE Tail(Understood.positionals)

-----------------------------------------------------------------------------
GrepTypeOK ==
  /\ wrappers \in Seq(Wrapper) /\ tool \in Tool /\ args \in Seq(Token)
  /\ ExtractPattern \in 0..Len(args)

(* A command of rg that the hook answers names one pattern and no path, and the       *)
(* hook searches for that pattern (grep.rs:55-58), whichever of the flags it does        *)
(* not know take a value.                                                         *)
InterceptedIsThePattern ==
  (tool = "rg" /\ ExtractPattern # 0 /\ Runs) =>
    ToolPatterns = <<ExtractPattern>> /\ ToolPaths = <<>>

=============================================================================
