------------------------------ MODULE Commands ------------------------------
(***************************************************************************)
(* The command list the controller sends in its InitialCommands response  *)
(* (api.Command), the execution-behaviour table of the control loop, and  *)
(* BoundedCommands, the half-open resumption window [from, to).            *)
(* Source: src/internal/executor/vaultunboxer/vaultunboxer.go, which holds *)
(* the executor package (executor.go) after the vaultunboxer package.     *)
(***************************************************************************)
EXTENDS Naturals, Sequences

CONSTANTS
    Names,      \* command names (model values); "" is modelled by NoName
    NoName,     \* the empty name: an unset --command-from / --command-to
    MaxCmds     \* the longest command list a response carries

ASSUME NamesAssumption == NoName \notin Names
ASSUME MaxCmdsAssumption == MaxCmds \in Nat

\* api.Command_ExecutionBehaviour
Behaviours == {"ON_SUCCESS", "ON_FAILURE", "ALWAYS"}

(***************************************************************************)
(* Instruction variants, abstracted to what the control loop tells apart: *)
(* ExitInstruction ends RunBuild, BackgroundScriptInstruction outlives its *)
(* step, and every other variant (Clone, File, Script, Cache, UploadCache, *)
(* Artifacts, WaitForTerminal, unknown) is a foreground step whose log is  *)
(* finalised when performStep returns and whose success is its own.       *)
(***************************************************************************)
Kinds == {"Exit", "Foreground", "Background"}

Command == [name : Names, behaviour : Behaviours, kind : Kinds]

\* The lines 306-308 of RunBuild: should the command run, given whether a
\* step has failed before it.
ShouldRun(behaviour, failedAtLeastOnce) ==
    \/ behaviour = "ON_SUCCESS" /\ ~failedAtLeastOnce
    \/ behaviour = "ON_FAILURE" /\ failedAtLeastOnce
    \/ behaviour = "ALWAYS"

(***************************************************************************)
(* BoundedCommands: the loop over the commands that moves left to every   *)
(* index named fromName and right to every index named toName.  scan[i]   *)
(* is (left, right) after the first i iterations; Go indices are 0-based, *)
(* so the i-th command (1-based) sets a bound to i - 1.                    *)
(***************************************************************************)
\* Mutants of BoundedCommands (plausible slips, each must be caught by a
\* run): the lower bound one past the command named --command-from, and the
\* upper bound one past the command named --command-to.
BoundedCommandsBoundsLeftPast(cmds, fromName, toName) ==
    LET scan[i \in 0..Len(cmds)] ==
          IF i = 0 THEN [left |-> 0, right |-> Len(cmds)]
          ELSE [left  |-> IF fromName # NoName /\ cmds[i].name = fromName
                            THEN i ELSE scan[i - 1].left,
                right |-> IF toName # NoName /\ cmds[i].name = toName
                            THEN i - 1 ELSE scan[i - 1].right]
    IN  scan[Len(cmds)]

BoundedCommandsBoundsRightPast(cmds, fromName, toName) ==
    LET scan[i \in 0..Len(cmds)] ==
          IF i = 0 THEN [left |-> 0, right |-> Len(cmds)]
          ELSE [left  |-> IF fromName # NoName /\ cmds[i].name = fromName
                            THEN i - 1 ELSE scan[i - 1].left,
                right |-> IF toName # NoName /\ cmds[i].name = toName
                            THEN i ELSE scan[i - 1].right]
    IN  scan[Len(cmds)]

BoundedCommandsBounds(cmds, fromName, toName) ==
    LET scan[i \in 0..Len(cmds)] ==
          IF i = 0 THEN [left |-> 0, right |-> Len(cmds)]
          ELSE [left  |-> IF fromName # NoName /\ cmds[i].name = fromName
                            THEN i - 1 ELSE scan[i - 1].left,
                right |-> IF toName # NoName /\ cmds[i].name = toName
                            THEN i - 1 ELSE scan[i - 1].right]
    IN  scan[Len(cmds)]

\* commands[left:right] is evaluated only when 0 <= left <= right <= len;
\* otherwise the Go runtime panics with "slice bounds out of range".
SliceInRange(b, cmds) == b.left \in 0..Len(cmds) /\ b.right \in b.left..Len(cmds)

\* The commands commands[left:right] names, 1-based: left + 1 .. right.
SliceIndices(b) == (b.left + 1)..b.right
=============================================================================
