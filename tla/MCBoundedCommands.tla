-------------------------- MODULE MCBoundedCommands --------------------------
(***************************************************************************)
(* BoundedCommands checked against the definition of spec section 4.1     *)
(* over every command list of at most MaxCmds commands over Names         *)
(* (repeated names included) and every pair of launch flags.  Only names  *)
(* matter to BoundedCommands, so every command is ALWAYS/Foreground.      *)
(***************************************************************************)
EXTENDS Commands, FiniteSets

VARIABLES cmds, fromName, toName
vars == <<cmds, fromName, toName>>

Lists ==
    UNION {{[i \in 1..n |-> [name |-> ns[i], behaviour |-> "ALWAYS",
                            kind |-> "Foreground"]] : ns \in [1..n -> Names]} :
           n \in 0..MaxCmds}

Init ==
    /\ cmds \in Lists
    /\ fromName \in Names \cup {NoName}
    /\ toName \in Names \cup {NoName}

\* The inputs do not change: each initial state is one call.
Next == UNCHANGED vars

Spec == Init /\ [][Next]_vars

\* Go indices (0-based) of the commands named n.
Matches(n) == {i - 1 : i \in {j \in DOMAIN cmds : cmds[j].name = n}}
LeastOf(S) == CHOOSE m \in S : \A y \in S : m <= y
GreatestOf(S) == CHOOSE m \in S : \A y \in S : y <= m

\* Section 4.1: left is the first command named from, right the last one
\* named to; an absent name leaves the bound at 0 or len.
SpecBounds ==
    [left  |-> IF Matches(fromName) # {} THEN LeastOf(Matches(fromName)) ELSE 0,
     right |-> IF Matches(toName) # {} THEN GreatestOf(Matches(toName))
                                       ELSE Len(cmds)]

Code == BoundedCommandsBounds(cmds, fromName, toName)

UniqueNames == \A i, j \in DOMAIN cmds : i # j => cmds[i].name # cmds[j].name

(* BoundedCommands computes the bounds section 4.1 states: the upper bound *)
(* is the last command named --command-to, the lower bound some command    *)
(* named --command-from ("any match wins"), the first one when names are  *)
(* unique, and an absent name leaves its bound at 0 or len(commands).      *)
BoundsAgreeWithSpec ==
    /\ Code.right = SpecBounds.right
    /\ Matches(fromName) # {} => Code.left \in Matches(fromName)
    /\ Matches(fromName) = {} => Code.left = 0
    /\ UniqueNames => Code.left = SpecBounds.left

=============================================================================
