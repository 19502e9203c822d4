---------------------------- MODULE ControllerView ----------------------------
(***************************************************************************)
(* What the controller sees of a task run: the command list it handed    *)
(* out, the CommandResults ReportCommandUpdates has delivered, and whether *)
(* ReportAgentFinished has arrived.  This is the promise of RunBuild to   *)
(* the controller (spec sections 4.1, 4.5 and 8): results arrive in       *)
(* batches, in the order of the commands, each command's results follow  *)
(* its lifecycle (EXECUTING, then COMPLETED or FAILED; or SKIPPED; an     *)
(* EXECUTING the batcher coalesced away may be missing), and nothing      *)
(* arrives after ReportAgentFinished.                                      *)
(***************************************************************************)
EXTENDS Naturals, Sequences, Commands, UpdateBatcher

VARIABLES
    cmds,       \* the commands of the InitialCommands response
    reported,   \* the results delivered, in order
    done        \* ReportAgentFinished has been received

vars == <<cmds, reported, done>>

\* The position of the command named n in cs.
IndexIn(cs, n) == CHOOSE j \in DOMAIN cs : cs[j].name = n

\* The statuses delivered for the command named n, in order.
StatusesOf(seq, n) ==
    LET mine == SelectSeq(seq, LAMBDA r : r.name = n)
    IN  [k \in DOMAIN mine |-> mine[k].status]

\* The status sequences a command may show: its lifecycle, with the
\* EXECUTING result optional once the command has ended.
Lifecycles ==
    {<< >>, <<"SKIPPED">>, <<"EXECUTING">>,
     <<"EXECUTING", "COMPLETED">>, <<"EXECUTING", "FAILED">>,
     <<"COMPLETED">>, <<"FAILED">>}

\* The promise as the spec words it: every result names a command of cs,
\* each command's statuses form a lifecycle, and results come in command
\* order.
LifecycleWellFormed(cs, seq) ==
    /\ \A i \in DOMAIN seq : \E j \in DOMAIN cs : cs[j].name = seq[i].name
    /\ \A j \in DOMAIN cs : StatusesOf(seq, cs[j].name) \in Lifecycles
    /\ \A i, k \in DOMAIN seq : i < k => IndexIn(cs, seq[i].name) <= IndexIn(cs, seq[k].name)

\* The same promise pair by pair, for results of a known status: two
\* results of one command are its EXECUTING and then its end.  (A third
\* result of a command would have to be both.)  This form needs no
\* induction over the sequence.
WellFormedIn(cs, seq) ==
    /\ \A i \in DOMAIN seq : \E j \in DOMAIN cs : cs[j].name = seq[i].name
    /\ \A i, k \in DOMAIN seq : i < k =>
          /\ IndexIn(cs, seq[i].name) <= IndexIn(cs, seq[k].name)
          /\ seq[i].name = seq[k].name =>
                /\ seq[i].status = "EXECUTING"
                /\ seq[k].status \in {"COMPLETED", "FAILED"}

WellFormed(seq) == WellFormedIn(cmds, seq)

Init ==
    /\ cmds = << >>
    /\ reported = << >>
    /\ done = FALSE

\* The controller hands out the task's commands.
Assign ==
    /\ cmds = << >> /\ reported = << >> /\ ~done
    /\ cmds' \in Seq(Command)
    /\ UNCHANGED <<reported, done>>

\* A ReportCommandUpdates call delivers a non-empty batch of results.
Deliver ==
    /\ ~done
    /\ Len(reported') > Len(reported)
    /\ SubSeq(reported', 1, Len(reported)) = reported
    /\ WellFormed(reported')
    /\ UNCHANGED <<cmds, done>>

\* ReportAgentFinished is received.
Finish ==
    /\ ~done
    /\ done' = TRUE
    /\ UNCHANGED <<cmds, reported>>

Next == Assign \/ Deliver \/ Finish

Spec == Init /\ [][Next]_vars
=============================================================================
