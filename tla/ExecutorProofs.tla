--------------------------- MODULE ExecutorProofs ---------------------------
(***************************************************************************)
(* Proofs about Executor for every value of the constants.                 *)
(***************************************************************************)
EXTENDS Executor, SequenceTheorems, TLAPS

USE NamesAssumption, MaxCmdsAssumption, ValsAssumption, TokenAssumption,
    RetriesAssumption

(***************************************************************************)
(* Lemmas on the update batcher's operators.                                *)
(***************************************************************************)
\* Replacing an element of a sequence, at any index, keeps it a sequence
\* over the same set: outside the domain EXCEPT changes nothing.
LEMMA ReplaceSeq ==
    ASSUME NEW S, NEW s \in Seq(S), NEW j, NEW e \in S
    PROVE  [s EXCEPT ![j] = e] \in Seq(S)
<1>1. CASE j \in 1..Len(s)
  BY <1>1, ExceptSeq
<1>2. CASE j \notin 1..Len(s)
  <2>1. [s EXCEPT ![j] = e] = s
    BY <1>2, LenProperties
  <2>2. QED
    BY <2>1
<1>3. QED
  BY <1>1, <1>2

LEMMA QueueType ==
    ASSUME NEW buf \in Seq(ResultRecords), NEW r \in ResultRecords
    PROVE  Queue(buf, r) \in Seq(ResultRecords)
BY ReplaceSeq, AppendProperties DEF Queue

LEMMA FlushType ==
    ASSUME NEW buf \in Seq(ResultRecords), NEW sent0 \in Seq(ResultRecords),
           NEW ok \in BOOLEAN
    PROVE  /\ FlushedBuffer(buf, ok) \in Seq(ResultRecords)
           /\ Transmitted(sent0, buf, ok) \in Seq(ResultRecords)
BY DEF FlushedBuffer, Transmitted

LEMMA ResultType ==
    ASSUME NEW n \in Names, NEW s \in Statuses
    PROVE  CommandResult(n, s) \in ResultRecords
BY DEF CommandResult, ResultRecords

(***************************************************************************)
(* TypeOK is not inductive by itself: a step indexes the command list at  *)
(* pc + 1, the cleanup loop the registry at ci, and ReportAgentFinished   *)
(* counts its attempts (none before the report phase), so the invariant   *)
(* also bounds these.                                                      *)
(***************************************************************************)
TypeInv ==
    /\ TypeOK
    /\ Len(response.commands) <= MaxCmds
    /\ phase \in {"loop", "step"} => pc <= hi /\ hi <= Len(response.commands)
    /\ phase = "step" => pc < hi
    /\ phase \in {"fetch", "unbox", "loop", "step", "cleanup"} => attempts = 0
    /\ phase = "report" => attempts < 2
    /\ phase = "cleanup" => ci >= 1

LEMMA ResponsesType == Responses \subseteq ResponseType
BY DEF Responses, ResponseType, CommandLists, ResponseEnvs, Masks

LEMMA ResponsesLength ==
    \A r \in Responses : Len(r.commands) <= MaxCmds
BY DEF Responses, CommandLists

LEMMA InitTypeInv == Init => TypeInv
<1> SUFFICES ASSUME Init PROVE TypeInv
  OBVIOUS
<1>1. NoResponse \in ResponseType
  <2>1. << >> \in Seq(Command)
    BY EmptySeq
  <2>2. [k \in Keys |-> Unset] \in [Keys -> EnvValues \cup {Unset}]
    OBVIOUS
  <2>3. QED
    BY <2>1, <2>2 DEF NoResponse, ResponseType
<1>2. TypeOK
  <2>1. << >> \in Seq(ResultRecords) /\ << >> \in Seq(Steps)
    BY EmptySeq
  <2>2. /\ commandFrom \in Names \cup {NoName}
        /\ commandTo \in Names \cup {NoName}
        /\ phase \in Phases
        /\ numRetries \in 0..MaxFetchRetries
    BY DEF Init, LaunchFlags, Phases
  <2>3. /\ lo \in 0..MaxCmds /\ hi \in 0..MaxCmds /\ pc \in 0..MaxCmds
        /\ ci \in Nat /\ attempts \in 0..2
    BY DEF Init
  <2>4. /\ proc \in [Steps -> {"none", "running", "exited", "killed"}]
        /\ opened \in [Steps -> BOOLEAN]
        /\ fin \in [Steps -> Nat]
    BY DEF Init
  <2>5. QED
    BY <1>1, <2>1, <2>2, <2>3, <2>4 DEF Init, TypeOK
<1>3. QED
  BY <1>2 DEF Init, TypeInv, NoResponse

\* The command a loop or step state is at: commands[pc + 1] exists, and
\* its position is a step index.
LEMMA CurrentType ==
    ASSUME TypeInv, phase \in {"loop", "step"}, pc < hi
    PROVE  /\ pc + 1 \in Steps
           /\ pc + 1 \in 1..Len(response.commands)
           /\ Current \in Command
<1>1. response.commands \in Seq(Command)
  BY DEF TypeInv, TypeOK, ResponseType
<1>2. pc + 1 \in 1..Len(response.commands)
  BY <1>1 DEF TypeInv, TypeOK
<1>3. pc + 1 \in Steps
  BY <1>2 DEF TypeInv, TypeOK, Steps
<1>4. Current \in Command
  BY <1>1, <1>2 DEF Current
<1>5. QED
  BY <1>2, <1>3, <1>4

\* What FinishCommand leaves typed, for the steps that end a command.
LEMMA FinishCommandType ==
    ASSUME TypeInv, phase = "step", NEW success \in BOOLEAN,
           FinishCommand(success)
    PROVE  /\ failedAtLeastOnce' \in BOOLEAN
           /\ buffer' \in Seq(ResultRecords)
           /\ history' \in Seq(ResultRecords)
           /\ pc' \in 0..MaxCmds
           /\ pc' <= hi
           /\ phase' = "loop"
<1>1. pc < hi
  BY DEF TypeInv
<1>2. Current \in Command
  BY <1>1, CurrentType
<1>3. CommandResult(Current.name, IF success THEN "COMPLETED" ELSE "FAILED")
        \in ResultRecords
  BY <1>2, ResultType DEF Command, Statuses
<1>4. buffer' \in Seq(ResultRecords)
  BY <1>3, QueueType DEF FinishCommand, TypeInv, TypeOK
<1>5. history' \in Seq(ResultRecords)
  BY <1>3, AppendProperties DEF FinishCommand, TypeInv, TypeOK
<1>6. QED
  BY <1>1, <1>4, <1>5 DEF FinishCommand, TypeInv, TypeOK

\* MergeCirrusEnv keeps the environment and the sensitive values typed.
LEMMA MergeCirrusEnvType ==
    ASSUME TypeInv, MergeCirrusEnv
    PROVE  /\ env' \in [Keys -> EnvValues \cup {Unset}]
           /\ sensitive' \subseteq Vals
<1>1. PICK content \in FileContents :
        /\ env' = [k \in Keys |-> IF k \in DOMAIN content THEN content[k]
                                                           ELSE env[k]]
        /\ sensitive' = IF env[SensitiveKey] # Unset
                        THEN sensitive \cup ValuesOf(content) ELSE sensitive
  BY DEF MergeCirrusEnv
<1>2. /\ DOMAIN content \subseteq Keys
      /\ \A k \in DOMAIN content : content[k] \in Vals
  BY DEF FileContents, Keys
<1>3. ValuesOf(content) \subseteq Vals
  BY <1>2 DEF ValuesOf
<1>4. QED
  BY <1>1, <1>2, <1>3 DEF TypeInv, TypeOK, EnvValues

\* TypeInv is preserved by every step of Next, action by action.
LEMMA NextTypeInv == TypeInv /\ [Next]_vars => TypeInv'
<1> SUFFICES ASSUME TypeInv, [Next]_vars PROVE TypeInv'
  OBVIOUS
<1>1. CASE FetchFailed
  BY <1>1 DEF FetchFailed, TypeInv, TypeOK, batchVars, stepVars
<1>2. CASE FetchCancelled
  BY <1>2 DEF FetchCancelled, TypeInv, TypeOK, batchVars, stepVars, Phases
<1>3. CASE TokenMismatch
  BY <1>3, ResponsesType, ResponsesLength
  DEF TokenMismatch, TypeInv, TypeOK, batchVars, stepVars, Phases
<1>4. CASE FetchSucceeded
  <2>1. PICK r \in Responses : /\ response' = r /\ env' = r.environment
                               /\ pending' = {k \in Keys : r.environment[k] # Unset}
    BY <1>4 DEF FetchSucceeded
  <2>2. r \in ResponseType /\ Len(r.commands) <= MaxCmds
    BY ResponsesType, ResponsesLength
  <2>3. QED
    BY <1>4, <2>1, <2>2 DEF FetchSucceeded, TypeInv, TypeOK, batchVars,
       stepVars, Phases, ResponseType
<1>5. ASSUME NEW k \in Keys, UnboxFailed
      PROVE  TypeInv'
  BY <1>5 DEF UnboxFailed, TypeInv, TypeOK, batchVars, stepVars, Phases
<1>6. CASE \E k \in Keys : \/ UnboxParseError(k) \/ UnboxClientError(k)
                           \/ UnboxReadError(k)
  BY <1>5, <1>6 DEF UnboxParseError, UnboxClientError, UnboxReadError
<1>7. ASSUME NEW k \in Keys, UnboxSkip(k) PROVE TypeInv'
  BY <1>7 DEF UnboxSkip, TypeInv, TypeOK, batchVars, stepVars
<1>8. ASSUME NEW k \in Keys, UnboxValue(k) PROVE TypeInv'
  BY <1>8, ValsAssumption
  DEF UnboxValue, TypeInv, TypeOK, batchVars, stepVars, EnvValues
<1>9. CASE PrepareNoCommands \/ PreparePanic
  BY <1>9 DEF PrepareNoCommands, PreparePanic, TypeInv, TypeOK, batchVars,
     stepVars, Phases, ResponseType
<1>10. CASE PrepareLoop
  <2>1. /\ Window.left \in 0..Len(response.commands)
        /\ Window.right \in Window.left..Len(response.commands)
    BY <1>10 DEF PrepareLoop, SliceInRange
  <2>2. QED
    BY <1>10, <2>1 DEF PrepareLoop, TypeInv, TypeOK, batchVars, stepVars,
       Phases, ResponseType
<1>11. CASE SkipCommand
  <2>1. Current \in Command
    BY <1>11, CurrentType DEF SkipCommand
  <2>2. CommandResult(Current.name, "SKIPPED") \in ResultRecords
    BY <2>1, ResultType DEF Command, Statuses
  <2>3. /\ buffer' \in Seq(ResultRecords)
        /\ history' \in Seq(ResultRecords)
    BY <1>11, <2>2, QueueType, AppendProperties DEF SkipCommand, TypeInv, TypeOK
  <2>4. QED
    BY <1>11, <2>3 DEF SkipCommand, TypeInv, TypeOK, stepVars
<1>12. CASE StartCommand
  <2>1. Current \in Command
    BY <1>12, CurrentType DEF StartCommand
  <2> DEFINE r == CommandResult(Current.name, "EXECUTING")
  <2>2. r \in ResultRecords
    BY <2>1, ResultType DEF Command, Statuses
  <2>3. Queue(buffer, r) \in Seq(ResultRecords)
    BY <2>2, QueueType DEF TypeInv, TypeOK
  <2>4. PICK ok \in BOOLEAN :
          /\ buffer' = FlushedBuffer(Queue(buffer, r), ok)
          /\ sent' = Transmitted(sent, Queue(buffer, r), ok)
          /\ history' = Append(history, r)
    BY <1>12 DEF StartCommand
  <2>5. /\ buffer' \in Seq(ResultRecords)
        /\ sent' \in Seq(ResultRecords)
        /\ history' \in Seq(ResultRecords)
    BY <2>2, <2>3, <2>4, FlushType, AppendProperties DEF TypeInv, TypeOK
  <2>6. QED
    BY <1>12, <2>5 DEF StartCommand, TypeInv, TypeOK, stepVars, Phases

<1>13. ASSUME phase = "step"
       PROVE  /\ pc + 1 \in Steps
              /\ DeferredFinalize(pc + 1) \in [Steps -> Nat]
              /\ [opened EXCEPT ![pc + 1] = TRUE] \in [Steps -> BOOLEAN]
  <2>1. pc + 1 \in Steps
    BY <1>13, CurrentType DEF TypeInv
  <2>2. QED
    BY <2>1 DEF DeferredFinalize, TypeInv, TypeOK
<1>14. CASE StepUploaderFailed
  BY <1>14, FinishCommandType DEF StepUploaderFailed, TypeInv, TypeOK,
     stepVars, Phases
<1>15. CASE StepCirrusEnvFailed
  BY <1>13, <1>14, <1>15, FinishCommandType
  DEF StepCirrusEnvFailed, TypeInv, TypeOK, Phases
<1>16. CASE StepExit
  BY <1>13, <1>16 DEF StepExit, TypeInv, TypeOK, batchVars, Phases
<1>17. CASE StepForeground
  <2>1. PICK success \in BOOLEAN : FinishCommand(success)
    BY <1>17 DEF StepForeground
  <2>2. MergeCirrusEnv
    BY <1>17 DEF StepForeground
  <2>3. QED
    BY <1>13, <1>17, <2>1, <2>2, FinishCommandType, MergeCirrusEnvType
    DEF StepForeground, TypeInv, TypeOK, Phases
<1>18. CASE StepBackgroundStarted
  <2>1. pc + 1 \in Steps
    BY <1>13, <1>18 DEF StepBackgroundStarted
  <2>2. registry' \in Seq(Steps)
    BY <1>18, <2>1, AppendProperties DEF StepBackgroundStarted, TypeInv, TypeOK
  <2>3. proc' \in [Steps -> {"none", "running", "exited", "killed"}]
    BY <1>18, <2>1 DEF StepBackgroundStarted, TypeInv, TypeOK
  <2>4. QED
    BY <1>13, <1>18, <2>2, <2>3, FinishCommandType, MergeCirrusEnvType
    DEF StepBackgroundStarted, TypeInv, TypeOK, Phases
<1>19. CASE StepBackgroundFailed
  <2>1. pc + 1 \in Steps
    BY <1>13, <1>19 DEF StepBackgroundFailed
  <2>2. fin' \in [Steps -> Nat]
    BY <1>19, <2>1 DEF StepBackgroundFailed, TypeInv, TypeOK
  <2>3. QED
    BY <1>13, <1>19, <2>2, FinishCommandType, MergeCirrusEnvType
    DEF StepBackgroundFailed, TypeInv, TypeOK, Phases
<1>20. CASE LoopDone
  <2>1. PICK ok \in BOOLEAN : /\ buffer' = FlushedBuffer(buffer, ok)
                              /\ sent' = Transmitted(sent, buffer, ok)
    BY <1>20 DEF LoopDone
  <2>2. buffer' \in Seq(ResultRecords) /\ sent' \in Seq(ResultRecords)
    BY <2>1, FlushType DEF TypeInv, TypeOK
  <2>3. QED
    BY <1>20, <2>2 DEF LoopDone, TypeInv, TypeOK, stepVars, Phases
<1>21. CASE CleanupBackground
  <2>1. registry[ci] \in Steps
    BY <1>21 DEF CleanupBackground, TypeInv, TypeOK
  <2>2. /\ proc' \in [Steps -> {"none", "running", "exited", "killed"}]
        /\ fin' \in [Steps -> Nat]
    BY <1>21, <2>1 DEF CleanupBackground, TypeInv, TypeOK
  <2>3. QED
    BY <1>21, <2>2 DEF CleanupBackground, TypeInv, TypeOK, batchVars
<1>22. CASE CollectMetrics
  BY <1>22 DEF CollectMetrics, TypeInv, TypeOK, batchVars, stepVars, Phases
<1>23. CASE ReportFinished
  BY <1>23 DEF ReportFinished, TypeInv, TypeOK, batchVars, stepVars, Phases
<1>24. CASE ReportFailed
  BY <1>24 DEF ReportFailed, TypeInv, TypeOK, batchVars, stepVars, Phases
<1>25. CASE CancelContext
  BY <1>25 DEF CancelContext, TypeInv, TypeOK, batchVars, stepVars
<1>26. ASSUME NEW i \in Steps, BackgroundExits(i) PROVE TypeInv'
  BY <1>26 DEF BackgroundExits, TypeInv, TypeOK, batchVars
<1>27. CASE UNCHANGED vars
  BY <1>27 DEF vars, TypeInv, TypeOK
<1>28. CASE Returned
  BY <1>27, <1>28 DEF Returned
<1>29. QED
  BY <1>1, <1>2, <1>3, <1>4, <1>6, <1>7, <1>8, <1>9, <1>10, <1>11, <1>12,
     <1>14, <1>15, <1>16, <1>17, <1>18, <1>19, <1>20, <1>21, <1>22, <1>23,
     <1>24, <1>25, <1>26, <1>27, <1>28
  DEF Next, Agent, Environment

(* Type correctness of RunBuild's state: whatever the constants, every   *)
(* reachable state indexes the command list, the registry and the step    *)
(* positions within range, and ReportAgentFinished is tried at most twice.*)
THEOREM TypeCorrect == Spec => []TypeOK
<1>1. Init => TypeInv
  BY InitTypeInv
<1>2. TypeInv /\ [Next]_vars => TypeInv'
  BY NextTypeInv
<1>3. TypeInv => TypeOK
  BY DEF TypeInv
<1>4. QED
  BY <1>1, <1>2, <1>3, PTL DEF Spec

-----------------------------------------------------------------------------
(***************************************************************************)
(* Log uploaders and background commands.  LogFinalizedAtMostOnce and     *)
(* FinishedOnlyAfterCleanup rest on how the registry grows and is torn    *)
(* down: a step position above pc is untouched until the loop reaches it, *)
(* the registry lists, in increasing order, the positions of the started  *)
(* background scripts (every launched process is among them), and the    *)
(* cleanup index ci splits it into the entries killed and finalised and   *)
(* those still open.                                                       *)
(***************************************************************************)
Fresh(i) == ~opened[i] /\ fin[i] = 0 /\ proc[i] = "none"

Registered(i) == \E j \in 1..Len(registry) : registry[j] = i

TornDown(j) ==
    IF j < ci THEN proc[registry[j]] \in {"exited", "killed"} /\ fin[registry[j]] = 1
              ELSE proc[registry[j]] \in {"running", "exited"} /\ fin[registry[j]] = 0

\* The registry and the step positions.
RegInv ==
    /\ LogFinalizedAtMostOnce
    /\ \A j \in 1..Len(registry) : registry[j] <= pc /\ opened[registry[j]]
    /\ \A j, k \in 1..Len(registry) : j < k => registry[j] < registry[k]
    /\ \A i \in Steps : proc[i] # "none" => Registered(i)
    /\ \A j \in 1..Len(registry) : TornDown(j)

\* What each phase of RunBuild implies about them.
PhaseInv ==
    /\ phase \in {"fetch", "unbox"} => registry = << >> /\ pc = 0
    /\ phase \in {"fetch", "unbox", "loop", "step"} =>
           /\ ci = 0
           /\ \A i \in Steps : i > pc => Fresh(i)
    /\ phase = "report" \/ attempts > 0 => ci > Len(registry)

FinInv == TypeInv /\ RegInv /\ PhaseInv

\* Steps that leave the registry, the step positions, ci and pc alone.
LEMMA RegInvFrame ==
    ASSUME RegInv, UNCHANGED <<registry, proc, opened, fin, ci, pc>>
    PROVE  RegInv'
BY DEF RegInv, LogFinalizedAtMostOnce, Registered, TornDown

\* The registry holds step positions.
LEMMA RegistryEntries ==
    ASSUME TypeInv
    PROVE  /\ Len(registry) \in Nat
           /\ \A j \in 1..Len(registry) : registry[j] \in Steps
           /\ Steps \subseteq Nat \ {0}
<1>1. registry \in Seq(Steps)
  BY DEF TypeInv, TypeOK
<1>2. QED
  BY <1>1, ElementOfSeq, LenProperties DEF Steps

\* A step of the loop that only moves pc on (or not at all).
LEMMA AdvanceFrame ==
    ASSUME TypeInv, RegInv, PhaseInv,
           phase \in {"loop", "step"}, phase' \in {"loop", "step"},
           UNCHANGED <<registry, proc, opened, fin, ci, attempts>>,
           pc' = pc \/ pc' = pc + 1
    PROVE  RegInv' /\ PhaseInv'
<1>1. RegInv'
  <2>1. \A j \in 1..Len(registry) : registry[j] \in Nat
    BY RegistryEntries
  <2>2. QED
    BY <2>1 DEF RegInv, LogFinalizedAtMostOnce, Registered, TornDown, TypeInv,
       TypeOK
<1>2. PhaseInv'
  BY DEF PhaseInv, Fresh, Steps, TypeInv, TypeOK
<1>3. QED
  BY <1>1, <1>2

\* A step that creates the uploader of the current command and possibly
\* finalises it, and does not launch a process.
LEMMA OpenFrame ==
    ASSUME TypeInv, RegInv, PhaseInv, phase = "step",
           opened' = [opened EXCEPT ![pc + 1] = TRUE],
           fin' = fin \/ fin' = [fin EXCEPT ![pc + 1] = @ + 1],
           UNCHANGED <<registry, proc, ci, attempts>>,
           \/ pc' = pc + 1 /\ phase' = "loop"
           \/ pc' = pc /\ phase' = "done"
    PROVE  RegInv' /\ PhaseInv'
<1> DEFINE p == pc + 1
<1>1. pc \in Nat /\ pc < hi
  BY DEF TypeInv, TypeOK
<1>2. p \in Steps
  BY <1>1, CurrentType
<1>3. Fresh(p)
  BY <1>1, <1>2 DEF PhaseInv
<1>4. \A j \in 1..Len(registry) : registry[j] # p /\ registry[j] \in Steps
  BY <1>1, RegistryEntries DEF RegInv
<1>5. /\ opened' \in [Steps -> BOOLEAN] /\ opened'[p]
      /\ \A i \in Steps \ {p} : opened'[i] = opened[i]
  BY <1>2 DEF TypeInv, TypeOK
<1>6. /\ fin' \in [Steps -> Nat] /\ fin'[p] <= 1
      /\ \A i \in Steps \ {p} : fin'[i] = fin[i]
  BY <1>2, <1>3 DEF Fresh, TypeInv, TypeOK
<1>7. LogFinalizedAtMostOnce'
  BY <1>3, <1>5, <1>6 DEF LogFinalizedAtMostOnce, RegInv, Fresh
<1>8. RegInv'
  <2>1. \A j \in 1..Len(registry) : registry[j] <= pc' /\ opened'[registry[j]]
    BY <1>1, <1>4, <1>5, RegistryEntries DEF RegInv
  <2>2. \A j \in 1..Len(registry) : TornDown(j)'
    BY <1>4, <1>6 DEF RegInv, TornDown
  <2>3. QED
    BY <1>7, <2>1, <2>2 DEF RegInv, Registered
<1>9. PhaseInv'
  BY <1>1, <1>5, <1>6 DEF PhaseInv, Fresh, Steps, TypeInv, TypeOK
<1>10. QED
  BY <1>8, <1>9

\* FinInv is preserved by every step of Next, action by action.
LEMMA NextFinInv == FinInv /\ [Next]_vars => FinInv'
<1> SUFFICES ASSUME TypeInv, RegInv, PhaseInv, [Next]_vars
             PROVE  TypeInv' /\ RegInv' /\ PhaseInv'
  BY DEF FinInv
<1>1. TypeInv'
  BY NextTypeInv DEF FinInv
<1>2. CASE \/ FetchFailed \/ CancelContext
           \/ \E k \in Keys : UnboxSkip(k) \/ UnboxValue(k)
  <2>1. UNCHANGED <<registry, proc, opened, fin, ci, pc, attempts, phase>>
    BY <1>2 DEF FetchFailed, CancelContext, UnboxSkip, UnboxValue, stepVars
  <2>2. QED
    BY <1>1, <2>1, RegInvFrame DEF PhaseInv, Fresh
<1>3. CASE FetchSucceeded
  <2>1. UNCHANGED <<registry, proc, opened, fin, ci, pc, attempts>>
        /\ phase = "fetch" /\ phase' = "unbox"
    BY <1>3 DEF FetchSucceeded, stepVars
  <2>2. QED
    BY <1>1, <2>1, RegInvFrame DEF PhaseInv, Fresh
<1>4. CASE \/ FetchCancelled \/ TokenMismatch \/ PrepareNoCommands
           \/ PreparePanic
           \/ \E k \in Keys : \/ UnboxParseError(k) \/ UnboxClientError(k)
                              \/ UnboxReadError(k)
  <2>1. UNCHANGED <<registry, proc, opened, fin, ci, pc, attempts>>
        /\ phase \in {"fetch", "unbox"} /\ phase' = "done"
    BY <1>4 DEF FetchCancelled, TokenMismatch, PrepareNoCommands,
       PreparePanic, UnboxParseError, UnboxClientError, UnboxReadError,
       UnboxFailed, stepVars
  <2>2. attempts = 0
    BY <2>1 DEF TypeInv
  <2>3. QED
    BY <1>1, <2>1, <2>2, RegInvFrame DEF PhaseInv
<1>5. CASE PrepareLoop
  <2>1. /\ phase = "unbox" /\ phase' = "loop"
        /\ UNCHANGED <<registry, proc, opened, fin, ci, attempts>>
    BY <1>5 DEF PrepareLoop, stepVars
  <2>2. registry = << >> /\ pc = 0 /\ \A i \in Steps : i > 0 => Fresh(i)
    BY <2>1 DEF PhaseInv
  <2>3. /\ \A i \in Steps : Fresh(i)
        /\ Len(registry') = 0
    BY <2>1, <2>2, EmptySeq DEF Steps
  <2>4. pc' \in Nat
    BY <1>1 DEF TypeInv, TypeOK
  <2>5. LogFinalizedAtMostOnce'
    BY <2>1, <2>3 DEF LogFinalizedAtMostOnce, Fresh
  <2>6. \A i \in Steps : proc'[i] = "none"
    BY <2>1, <2>3 DEF Fresh
  <2>7. RegInv'
    BY <2>3, <2>5, <2>6 DEF RegInv
  <2>8. PhaseInv'
    BY <2>1, <2>3, <2>4 DEF PhaseInv, Fresh
  <2>9. QED
    BY <1>1, <2>7, <2>8
<1>6. CASE SkipCommand \/ StartCommand \/ StepUploaderFailed
  <2>1. /\ phase \in {"loop", "step"} /\ phase' \in {"loop", "step"}
        /\ UNCHANGED <<registry, proc, opened, fin, ci, attempts>>
        /\ pc' = pc \/ pc' = pc + 1
    BY <1>6 DEF SkipCommand, StartCommand, StepUploaderFailed, FinishCommand,
       stepVars
  <2>2. QED
    BY <1>1, <2>1, AdvanceFrame
<1>7. CASE StepCirrusEnvFailed \/ StepExit \/ StepForeground
           \/ StepBackgroundFailed
  <2>1. /\ phase = "step"
        /\ opened' = [opened EXCEPT ![pc + 1] = TRUE]
        /\ fin' = fin \/ fin' = [fin EXCEPT ![pc + 1] = @ + 1]
        /\ UNCHANGED <<registry, proc, ci, attempts>>
        /\ \/ pc' = pc + 1 /\ phase' = "loop"
           \/ pc' = pc /\ phase' = "done"
    BY <1>7 DEF StepCirrusEnvFailed, StepExit, StepForeground,
       StepBackgroundFailed, DeferredFinalize, FinishCommand
  <2>2. QED
    BY <1>1, <2>1, OpenFrame
<1>8. CASE StepBackgroundStarted
  <2> DEFINE p == pc + 1
  <2> DEFINE n == Len(registry)
  <2>1. /\ phase = "step" /\ phase' = "loop"
        /\ registry' = Append(registry, p)
        /\ proc' = [proc EXCEPT ![p] = "running"]
        /\ opened' = [opened EXCEPT ![p] = TRUE]
        /\ pc' = p
        /\ UNCHANGED <<fin, ci, attempts>>
    BY <1>8 DEF StepBackgroundStarted, FinishCommand
  <2>2. pc \in Nat /\ pc < hi
    BY <2>1 DEF TypeInv, TypeOK
  <2>3. p \in Steps /\ Fresh(p) /\ ci = 0
    BY <2>1, <2>2, CurrentType DEF PhaseInv
  <2>4. /\ n \in Nat
        /\ \A j \in 1..n : registry[j] \in Steps /\ registry[j] < p
    BY <2>2, RegistryEntries DEF RegInv
  <2>5. /\ Len(registry') = n + 1
        /\ \A j \in 1..n : registry'[j] = registry[j]
        /\ registry'[n + 1] = p
    BY <2>1, <2>3, AppendProperties DEF TypeInv, TypeOK
  <2>6. /\ \A i \in Steps \ {p} : proc'[i] = proc[i] /\ opened'[i] = opened[i]
        /\ proc'[p] = "running" /\ opened'[p]
    BY <2>1, <2>3 DEF TypeInv, TypeOK
  <2>7. LogFinalizedAtMostOnce'
    BY <2>1, <2>3, <2>6 DEF LogFinalizedAtMostOnce, RegInv, Fresh
  <2>8. \A j \in 1..(n + 1) :
          /\ registry'[j] <= pc' /\ opened'[registry'[j]]
          /\ TornDown(j)'
    BY <2>1, <2>3, <2>4, <2>5, <2>6 DEF RegInv, TornDown, Fresh, Steps
  <2>9. \A j, k \in 1..(n + 1) : j < k => registry'[j] < registry'[k]
    <3>1. SUFFICES ASSUME NEW j \in 1..(n + 1), NEW k \in 1..(n + 1), j < k
                   PROVE  registry'[j] < registry'[k]
      OBVIOUS
    <3>2. j \in 1..n
      BY <2>4, <3>1
    <3>3. CASE k \in 1..n
      BY <2>5, <3>2, <3>3, <3>1 DEF RegInv
    <3>4. CASE k = n + 1
      BY <2>4, <2>5, <3>2, <3>4
    <3>5. QED
      BY <2>4, <3>3, <3>4
  <2>10. \A i \in Steps : proc'[i] # "none" => Registered(i)'
    BY <2>4, <2>5, <2>6 DEF RegInv, Registered
  <2>11. PhaseInv'
    BY <2>1, <2>2, <2>3, <2>6 DEF PhaseInv, Fresh, Steps, TypeInv
  <2>12. QED
    BY <1>1, <2>5, <2>7, <2>8, <2>9, <2>10, <2>11 DEF RegInv
<1>9. CASE LoopDone
  <2>1. /\ phase = "loop" /\ phase' = "cleanup" /\ ci = 0 /\ ci' = 1
        /\ UNCHANGED <<registry, proc, opened, fin, pc, attempts>>
    BY <1>9 DEF LoopDone, stepVars, PhaseInv
  <2>2. \A j \in 1..Len(registry) : TornDown(j)' = TornDown(j)
    BY <2>1 DEF TornDown
  <2>3. RegInv'
    BY <2>1, <2>2 DEF RegInv, LogFinalizedAtMostOnce, Registered
  <2>4. PhaseInv'
    BY <2>1 DEF PhaseInv, TypeInv
  <2>5. QED
    BY <1>1, <2>3, <2>4
<1>10. CASE CollectMetrics \/ ReportFinished \/ ReportFailed
  <2>1. /\ phase \in {"cleanup", "report"} /\ phase' \in {"report", "done"}
        /\ ci > Len(registry)
        /\ UNCHANGED <<registry, proc, opened, fin, ci, pc>>
    BY <1>10 DEF CollectMetrics, ReportFinished, ReportFailed, stepVars,
       PhaseInv
  <2>2. QED
    BY <1>1, <2>1, RegInvFrame DEF PhaseInv
<1>11. CASE CleanupBackground
  <2> DEFINE i == registry[ci]
  <2>1. /\ phase = "cleanup" /\ phase' = "cleanup"
        /\ ci \in 1..Len(registry) /\ ci' = ci + 1
        /\ proc' = [proc EXCEPT ![i] = IF @ = "running" THEN "killed" ELSE @]
        /\ fin' = [fin EXCEPT ![i] = @ + 1]
        /\ UNCHANGED <<registry, opened, pc, attempts>>
    BY <1>11 DEF CleanupBackground, TypeInv, TypeOK
  <2>2. /\ i \in Steps
        /\ \A j \in 1..Len(registry) : registry[j] \in Steps
        /\ \A j \in 1..Len(registry) : j # ci => registry[j] # i
    <3>1. \A j \in 1..Len(registry) : registry[j] \in Steps \cap Nat
      BY RegistryEntries
    <3>2. QED
      BY <2>1, <3>1 DEF RegInv
  <2>3. /\ proc[i] \in {"running", "exited"} /\ fin[i] = 0 /\ opened[i]
    BY <2>1 DEF RegInv, TornDown
  <2>4. /\ proc'[i] \in {"exited", "killed"} /\ fin'[i] = 1
        /\ \A k \in Steps \ {i} : proc'[k] = proc[k] /\ fin'[k] = fin[k]
    BY <2>1, <2>2, <2>3 DEF TypeInv, TypeOK
  <2>5. LogFinalizedAtMostOnce'
    BY <2>1, <2>3, <2>4 DEF LogFinalizedAtMostOnce, RegInv
  <2>6. \A j \in 1..Len(registry) : TornDown(j)'
    <3>1. ASSUME NEW j \in 1..Len(registry), j = ci PROVE TornDown(j)'
      BY <2>1, <2>4, <3>1 DEF TornDown
    <3>2. ASSUME NEW j \in 1..Len(registry), j # ci PROVE TornDown(j)'
      <4>1. /\ proc'[registry'[j]] = proc[registry[j]]
            /\ fin'[registry'[j]] = fin[registry[j]]
        BY <2>1, <2>2, <2>4, <3>2
      <4>2. (j < ci') = (j < ci)
        BY <2>1, <3>2
      <4>3. TornDown(j)
        BY DEF RegInv
      <4>4. QED
        BY <4>1, <4>2, <4>3 DEF TornDown
    <3>3. QED
      BY <3>1, <3>2
  <2>7. \A k \in Steps : proc'[k] # "none" => Registered(k)'
    BY <2>1, <2>2, <2>4 DEF RegInv, Registered
  <2>8. PhaseInv'
    BY <2>1 DEF PhaseInv, TypeInv
  <2>9. QED
    BY <1>1, <2>1, <2>5, <2>6, <2>7, <2>8 DEF RegInv
<1>12. ASSUME NEW k \in Steps, BackgroundExits(k) PROVE RegInv' /\ PhaseInv'
  <2>1. /\ proc[k] = "running"
        /\ proc' = [proc EXCEPT ![k] = "exited"]
        /\ UNCHANGED <<phase, registry, opened, fin, ci, pc, attempts>>
    BY <1>12 DEF BackgroundExits
  <2>2. /\ proc'[k] = "exited"
        /\ \A i \in Steps \ {k} : proc'[i] = proc[i]
    BY <2>1 DEF TypeInv, TypeOK
  <2>3. PICK j0 \in 1..Len(registry) : registry[j0] = k
    BY <2>1 DEF RegInv, Registered
  <2>4. k <= pc /\ k \in Nat
    BY <2>3, RegistryEntries DEF RegInv
  <2>5. LogFinalizedAtMostOnce'
    BY <2>1, <2>2 DEF LogFinalizedAtMostOnce, RegInv
  <2>6. \A j \in 1..Len(registry) : TornDown(j)'
    BY <2>1, <2>2, RegistryEntries DEF RegInv, TornDown
  <2>7. \A i \in Steps : proc'[i] # "none" => Registered(i)'
    BY <2>1, <2>2 DEF RegInv, Registered
  <2>8. PhaseInv'
    BY <2>1, <2>2, <2>4 DEF PhaseInv, Fresh, Steps
  <2>9. QED
    BY <2>1, <2>5, <2>6, <2>7, <2>8 DEF RegInv
<1>13. CASE UNCHANGED vars \/ Returned
  <2>1. UNCHANGED vars
    BY <1>13 DEF Returned
  <2>2. QED
    BY <1>1, <2>1, RegInvFrame DEF vars, PhaseInv, Fresh
<1>14. QED
  BY <1>1, <1>2, <1>3, <1>4, <1>5, <1>6, <1>7, <1>8, <1>9, <1>10, <1>11,
     <1>12, <1>13 DEF Next, Agent, Environment

LEMMA InitFinInv == Init => FinInv
<1> SUFFICES ASSUME Init PROVE FinInv
  OBVIOUS
<1>1. TypeInv
  BY InitTypeInv
<1>2. registry = << >> /\ Len(registry) = 0
  BY EmptySeq DEF Init
<1>3. \A i \in Steps : Fresh(i)
  BY DEF Init, Fresh
<1>4. RegInv
  BY <1>2, <1>3 DEF RegInv, LogFinalizedAtMostOnce, Fresh, Registered
<1>5. PhaseInv
  BY <1>2, <1>3 DEF Init, PhaseInv
<1>6. QED
  BY <1>1, <1>4, <1>5 DEF FinInv

(* No step's log uploader is finalised twice, or before it was created,   *)
(* and a running background script's log stays open: performStep's        *)
(* deferred Finalize, the launch-failure Finalize and the cleanup loop    *)
(* never close the same uploader twice, for any number of commands.        *)
THEOREM LogsFinalizedOnce == Spec => []LogFinalizedAtMostOnce
<1>1. Init => FinInv
  BY InitFinInv
<1>2. FinInv /\ [Next]_vars => FinInv'
  BY NextFinInv
<1>3. FinInv => LogFinalizedAtMostOnce
  BY DEF FinInv, RegInv
<1>4. QED
  BY <1>1, <1>2, <1>3, PTL DEF Spec

(* ReportAgentFinished is attempted only once the cleanup loop has killed *)
(* (or found exited) every background command and finalised its log, for *)
(* any number of commands and background scripts.                          *)
THEOREM FinishedAfterCleanup == Spec => []FinishedOnlyAfterCleanup
<1>1. FinInv => FinishedOnlyAfterCleanup
  <2> SUFFICES ASSUME FinInv, attempts > 0,
                      NEW j \in 1..Len(registry)
               PROVE  /\ proc[registry[j]] \in {"exited", "killed"}
                      /\ fin[registry[j]] = 1
    BY DEF FinishedOnlyAfterCleanup
  <2>1. j < ci
    BY RegistryEntries DEF FinInv, PhaseInv, TypeInv, TypeOK
  <2>2. TornDown(j)
    BY DEF FinInv, RegInv
  <2>3. QED
    BY <2>1, <2>2 DEF TornDown
<1>2. QED
  BY <1>1, InitFinInv, NextFinInv, PTL DEF Spec

=============================================================================
