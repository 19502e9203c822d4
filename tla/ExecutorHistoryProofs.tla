------------------------ MODULE ExecutorHistoryProofs ------------------------
(***************************************************************************)
(* Proofs about the results RunBuild queues and about its error returns,  *)
(* for every value of the constants: the execution-behaviour table, and   *)
(* that a task ended by ReportAgentError made no progress.                *)
(***************************************************************************)
EXTENDS ExecutorProofs

(***************************************************************************)
(* The table over an arbitrary history h of results, command list cmds    *)
(* and response flag rf, so that lemmas can speak of Append(h, r).        *)
(***************************************************************************)
\* Did the response, or one of the first j - 1 results of h, fail?
FailedIn(h, rf, j) == rf \/ \E k \in 1..(j - 1) : h[k].status = "FAILED"

\* The position of the command named n in cmds.
PosIn(cmds, n) == CHOOSE i \in DOMAIN cmds : cmds[i].name = n

\* The j-th result of h is SKIPPED exactly when the table says its command
\* must not run.
TableAt(h, cmds, rf, j) ==
    (h[j].status = "SKIPPED")
        <=> ~TableRuns(cmds[PosIn(cmds, h[j].name)].behaviour, FailedIn(h, rf, j))

TableHolds(h, cmds, rf) == \A j \in 1..Len(h) : TableAt(h, cmds, rf, j)

\* No two commands of the list share a name.
UniqueNames(cmds) ==
    \A i, j \in DOMAIN cmds : i # j => cmds[i].name # cmds[j].name

(***************************************************************************)
(* The inductive invariant.  ExecutionBehaviourTable is not inductive: a  *)
(* result is judged against the failures before it, while RunBuild       *)
(* decides with failedAtLeastOnce, so the invariant says that in the loop *)
(* failedAtLeastOnce is exactly "the response or a queued result failed", *)
(* and that the command of a step state was allowed to run.  Results name *)
(* commands by name, so the names of the response must be unique.  For    *)
(* ErrorExcludesProgress it says that nothing is queued, sent or opened   *)
(* before the loop, and that an error report ends RunBuild.               *)
(***************************************************************************)
HistInv ==
    /\ TypeInv
    /\ UniqueNames(response.commands)
    /\ phase \in {"fetch", "unbox"} =>
           /\ history = << >> /\ sent = << >>
           /\ \A i \in Steps : ~opened[i]
    /\ phase \in {"loop", "step"} =>
           (failedAtLeastOnce
              <=> FailedIn(history, response.failedAtLeastOnce, Len(history) + 1))
    /\ phase = "step" => ShouldRun(Current.behaviour, failedAtLeastOnce)
    /\ TableHolds(history, response.commands, response.failedAtLeastOnce)
    /\ agentError => phase = "done" /\ ErrorExcludesProgress

(***************************************************************************)
(* Lemmas on the table's operators.                                         *)
(***************************************************************************)
\* Appending a result leaves what the earlier results see unchanged, and
\* the next result sees the appended one.
LEMMA FailedAppend ==
    ASSUME NEW h \in Seq(ResultRecords), NEW r \in ResultRecords, NEW rf
    PROVE  /\ \A j \in 1..(Len(h) + 1) :
                 FailedIn(Append(h, r), rf, j) = FailedIn(h, rf, j)
           /\ FailedIn(Append(h, r), rf, Len(h) + 2)
                 = (FailedIn(h, rf, Len(h) + 1) \/ r.status = "FAILED")
<1>1. /\ Len(Append(h, r)) = Len(h) + 1
      /\ \A k \in 1..Len(h) : Append(h, r)[k] = h[k]
      /\ Append(h, r)[Len(h) + 1] = r
  BY AppendProperties
<1>2. QED
  BY <1>1 DEF FailedIn

\* Appending a result that agrees with the table keeps the table.
LEMMA TableAppend ==
    ASSUME NEW h \in Seq(ResultRecords), NEW r \in ResultRecords,
           NEW cmds, NEW rf,
           TableHolds(h, cmds, rf),
           (r.status = "SKIPPED")
              <=> ~TableRuns(cmds[PosIn(cmds, r.name)].behaviour,
                             FailedIn(h, rf, Len(h) + 1))
    PROVE  TableHolds(Append(h, r), cmds, rf)
<1> DEFINE h2 == Append(h, r)
<1>1. /\ Len(h2) = Len(h) + 1
      /\ \A k \in 1..Len(h) : h2[k] = h[k]
      /\ h2[Len(h) + 1] = r
  BY AppendProperties
<1>2. \A j \in 1..(Len(h) + 1) : FailedIn(h2, rf, j) = FailedIn(h, rf, j)
  BY FailedAppend
<1>3. \A j \in 1..Len(h) : TableAt(h2, cmds, rf, j)
  BY <1>1, <1>2 DEF TableHolds, TableAt
<1>4. TableAt(h2, cmds, rf, Len(h) + 1)
  BY <1>1, <1>2 DEF TableAt
<1>5. QED
  BY <1>1, <1>3, <1>4 DEF TableHolds

\* With unique names, a command's name finds its own position.
LEMMA PosUnique ==
    ASSUME NEW cmds, UniqueNames(cmds), NEW i \in DOMAIN cmds
    PROVE  PosIn(cmds, cmds[i].name) = i
BY DEF UniqueNames, PosIn

\* Section 8's table and the code's shouldRun agree.
LEMMA TableIsShouldRun ==
    ASSUME NEW b \in Behaviours, NEW f \in BOOLEAN
    PROVE  TableRuns(b, f) <=> ShouldRun(b, f)
BY DEF TableRuns, ShouldRun, Behaviours

\* Every response the controller may send names its commands uniquely.
LEMMA ResponsesUnique ==
    \A r \in Responses : UniqueNames(r.commands)
BY DEF Responses, CommandLists, UniqueNames

\* The property is the table over RunBuild's own history.
LEMMA TableIsProperty ==
    ExecutionBehaviourTable
        <=> TableHolds(history, response.commands, response.failedAtLeastOnce)
BY DEF ExecutionBehaviourTable, TableHolds, TableAt, Pos, PosIn, FailedBefore,
       FailedIn

(***************************************************************************)
(* The steps of RunBuild, grouped by what they do to the history.          *)
(***************************************************************************)
LEMMA HistInit == Init => HistInv
<1> SUFFICES ASSUME Init PROVE HistInv
  OBVIOUS
<1>1. TypeInv
  BY InitTypeInv
<1>2. UniqueNames(response.commands)
  BY DEF Init, NoResponse, UniqueNames
<1>3. QED
  BY <1>1, <1>2 DEF Init, HistInv, TableHolds

\* Steps that change none of the variables the invariant reads.
LEMMA HistFrame ==
    ASSUME HistInv, TypeInv',
           UNCHANGED <<response, history, failedAtLeastOnce, sent, opened,
                       agentError, pc, attempts, phase>>
    PROVE  HistInv'
BY DEF HistInv, Current, ErrorExcludesProgress

\* Steps after the loop, or returns without an error, that queue nothing.
LEMMA QuietEnd ==
    ASSUME HistInv, TypeInv', phase # "done",
           phase' \notin {"fetch", "unbox", "loop", "step"},
           UNCHANGED <<response, history, agentError>>
    PROVE  HistInv'
<1>1. ~agentError
  BY DEF HistInv
<1>2. QED
  BY <1>1 DEF HistInv

\* The returns that report an error happen before anything was queued.
LEMMA ErrorStep ==
    ASSUME HistInv, TypeInv', phase \in {"fetch", "unbox"},
           phase' = "done", agentError',
           UNCHANGED <<history, sent, opened, attempts>>,
           UniqueNames(response'.commands)
    PROVE  HistInv'
<1>1. history = << >> /\ sent = << >> /\ attempts = 0 /\ \A i \in Steps : ~opened[i]
  BY DEF HistInv, TypeInv
<1>2. TableHolds(history, response.commands, response.failedAtLeastOnce)'
  BY <1>1 DEF TableHolds
<1>3. QED
  BY <1>1, <1>2 DEF HistInv, ErrorExcludesProgress

\* The command a loop or step state is at is found by its name.
LEMMA CurrentPos ==
    ASSUME HistInv, phase \in {"loop", "step"}, pc < hi
    PROVE  /\ PosIn(response.commands, Current.name) = pc + 1
           /\ response.commands[pc + 1] = Current
           /\ Current.behaviour \in Behaviours
           /\ Current.name \in Names
<1>1. pc + 1 \in 1..Len(response.commands) /\ Current \in Command
  BY CurrentType DEF HistInv
<1>2. response.commands \in Seq(Command)
  BY DEF HistInv, TypeInv, TypeOK, ResponseType
<1>3. pc + 1 \in DOMAIN response.commands
  BY <1>1, <1>2
<1>4. QED
  BY <1>1, <1>3, PosUnique DEF HistInv, Current, Command

\* A step of the loop that queues the result r of the current command
\* and goes on with failedAtLeastOnce'.
LEMMA QueueStep ==
    ASSUME HistInv, TypeInv', phase \in {"loop", "step"}, pc < hi,
           NEW r \in ResultRecords, r.name = Current.name,
           history' = Append(history, r),
           (r.status = "SKIPPED") <=> ~ShouldRun(Current.behaviour, failedAtLeastOnce),
           phase' \in {"loop", "step"},
           failedAtLeastOnce' = (failedAtLeastOnce \/ r.status = "FAILED"),
           phase' = "step" => ShouldRun(Current.behaviour, failedAtLeastOnce)'
                              /\ r.status # "FAILED",
           UNCHANGED <<response, agentError>>
    PROVE  HistInv'
<1> DEFINE rf == response.failedAtLeastOnce
           cmds == response.commands
<1>1. history \in Seq(ResultRecords) /\ failedAtLeastOnce \in BOOLEAN
  BY DEF HistInv, TypeInv, TypeOK
<1>2. failedAtLeastOnce <=> FailedIn(history, rf, Len(history) + 1)
  BY DEF HistInv
<1>3. /\ PosIn(cmds, r.name) = pc + 1
      /\ cmds[pc + 1].behaviour = Current.behaviour
      /\ Current.behaviour \in Behaviours
  BY CurrentPos
<1>4. TableRuns(Current.behaviour, failedAtLeastOnce)
        <=> ShouldRun(Current.behaviour, failedAtLeastOnce)
  BY <1>1, <1>3, TableIsShouldRun
<1>5. TableHolds(history', cmds, rf)
  <2>1. (r.status = "SKIPPED")
           <=> ~TableRuns(cmds[PosIn(cmds, r.name)].behaviour,
                          FailedIn(history, rf, Len(history) + 1))
    <3>1. failedAtLeastOnce = FailedIn(history, rf, Len(history) + 1)
      BY <1>1, <1>2 DEF FailedIn
    <3>2. QED
      BY <1>3, <1>4, <3>1
  <2>2. TableHolds(history, cmds, rf)
    BY DEF HistInv
  <2>3. QED
    BY <1>1, <2>1, <2>2, TableAppend
<1>6. FailedIn(history', rf, Len(history') + 1) <=> (failedAtLeastOnce \/ r.status = "FAILED")
  <2>1. Len(history') + 1 = Len(history) + 2
    BY <1>1, AppendProperties
  <2>2. FailedIn(Append(history, r), rf, Len(history) + 2)
           = (FailedIn(history, rf, Len(history) + 1) \/ r.status = "FAILED")
    BY <1>1, FailedAppend
  <2>3. QED
    BY <1>2, <2>1, <2>2
<1>7. ~agentError
  BY DEF HistInv
<1>8. QED
  BY <1>5, <1>6, <1>7 DEF HistInv

\* The end of a command: its COMPLETED or FAILED result, after the step
\* state was entered with a command allowed to run.
LEMMA FinishStep ==
    ASSUME HistInv, TypeInv', phase = "step", NEW success \in BOOLEAN,
           FinishCommand(success), UNCHANGED <<response, agentError>>
    PROVE  HistInv'
<1> DEFINE r == CommandResult(Current.name, IF success THEN "COMPLETED" ELSE "FAILED")
<1>1. pc < hi
  BY DEF HistInv, TypeInv
<1>2. r \in ResultRecords /\ r.name = Current.name
      /\ r.status = IF success THEN "COMPLETED" ELSE "FAILED"
  BY <1>1, CurrentPos, ResultType DEF Statuses, CommandResult
<1>3. ShouldRun(Current.behaviour, failedAtLeastOnce)
  BY DEF HistInv
<1>4. /\ history' = Append(history, r)
      /\ failedAtLeastOnce' = (failedAtLeastOnce \/ r.status = "FAILED")
      /\ phase' = "loop"
  BY <1>2 DEF FinishCommand
<1>5. QED
  BY <1>1, <1>2, <1>3, <1>4, QueueStep

LEMMA HistStep == HistInv /\ [Next]_vars => HistInv'
<1> SUFFICES ASSUME HistInv, [Next]_vars PROVE HistInv'
  OBVIOUS
<1>0. TypeInv'
  BY NextTypeInv DEF HistInv
<1>1. CASE \/ FetchFailed \/ CleanupBackground \/ CancelContext
           \/ \E k \in Keys : UnboxSkip(k) \/ UnboxValue(k)
           \/ \E i \in Steps : BackgroundExits(i)
           \/ Returned \/ UNCHANGED vars
  <2>1. UNCHANGED <<response, history, failedAtLeastOnce, sent, opened,
                   agentError, pc, attempts, phase>>
    BY <1>1 DEF FetchFailed, CleanupBackground, CancelContext, UnboxSkip,
                UnboxValue, BackgroundExits, Returned, vars, batchVars, stepVars
  <2>2. QED
    BY <1>0, <2>1, HistFrame
<1>2. CASE \/ FetchCancelled \/ PrepareNoCommands \/ StepExit \/ LoopDone
           \/ CollectMetrics \/ ReportFinished \/ ReportFailed
  <2>1. phase' \notin {"fetch", "unbox", "loop", "step"}
    BY <1>2 DEF FetchCancelled, PrepareNoCommands, StepExit, LoopDone,
                CollectMetrics, ReportFinished, ReportFailed
  <2>2. phase # "done" /\ UNCHANGED <<response, history, agentError>>
    BY <1>2 DEF FetchCancelled, PrepareNoCommands, StepExit, LoopDone,
                CollectMetrics, ReportFinished, ReportFailed, batchVars
  <2>3. QED
    BY <1>0, <2>1, <2>2, QuietEnd
<1>3. CASE TokenMismatch
  <2>1. UniqueNames(response'.commands)
    BY <1>3, ResponsesUnique DEF TokenMismatch
  <2>2. QED
    BY <1>0, <1>3, <2>1, ErrorStep DEF TokenMismatch, batchVars, stepVars
<1>4. CASE \E k \in Keys : UnboxParseError(k) \/ UnboxClientError(k) \/ UnboxReadError(k)
  <2>1. phase = "unbox" /\ UnboxFailed
    BY <1>4 DEF UnboxParseError, UnboxClientError, UnboxReadError
  <2>2. UniqueNames(response'.commands)
    BY <2>1 DEF HistInv, UnboxFailed
  <2>3. QED
    BY <1>0, <2>1, <2>2, ErrorStep DEF UnboxFailed, batchVars, stepVars
<1>5. CASE PreparePanic
  BY <1>0, <1>5, ErrorStep DEF PreparePanic, HistInv, batchVars, stepVars
<1>6. CASE FetchSucceeded
  <2>1. UniqueNames(response'.commands)
    BY <1>6, ResponsesUnique DEF FetchSucceeded
  <2>2. /\ phase' = "unbox"
        /\ UNCHANGED <<history, sent, opened, agentError>>
    BY <1>6 DEF FetchSucceeded, batchVars, stepVars
  <2>3. /\ history = << >> /\ sent = << >> /\ \A i \in Steps : ~opened[i]
        /\ ~agentError
    BY <1>6 DEF HistInv, FetchSucceeded
  <2>4. TableHolds(history, response.commands, response.failedAtLeastOnce)'
    BY <2>2, <2>3 DEF TableHolds
  <2>5. QED
    BY <1>0, <2>1, <2>2, <2>3, <2>4 DEF HistInv
<1>7. CASE PrepareLoop
  <2>1. history = << >> /\ ~agentError
    BY <1>7 DEF HistInv, PrepareLoop
  <2>2. /\ phase' = "loop"
        /\ failedAtLeastOnce' = response.failedAtLeastOnce
        /\ UNCHANGED <<response, history, agentError>>
    BY <1>7 DEF PrepareLoop, batchVars
  <2>3. FailedIn(history, response.failedAtLeastOnce, Len(history) + 1)
           <=> response.failedAtLeastOnce
    BY <2>1 DEF FailedIn
  <2>4. QED
    BY <1>0, <2>1, <2>2, <2>3 DEF HistInv, TableHolds
<1>8. CASE SkipCommand
  <2> DEFINE r == CommandResult(Current.name, "SKIPPED")
  <2>1. r \in ResultRecords /\ r.name = Current.name /\ r.status = "SKIPPED"
    BY <1>8, CurrentPos, ResultType DEF SkipCommand, Statuses, CommandResult
  <2>2. /\ history' = Append(history, r)
        /\ phase' = "loop"
        /\ failedAtLeastOnce' = failedAtLeastOnce
        /\ UNCHANGED <<response, agentError>>
    BY <1>8 DEF SkipCommand
  <2>3. /\ phase = "loop" /\ pc < hi
        /\ ~ShouldRun(Current.behaviour, failedAtLeastOnce)
    BY <1>8 DEF SkipCommand
  <2>4. failedAtLeastOnce' = (failedAtLeastOnce \/ r.status = "FAILED")
    BY <2>1, <2>2 DEF HistInv, TypeInv, TypeOK
  <2>5. (r.status = "SKIPPED") <=> ~ShouldRun(Current.behaviour, failedAtLeastOnce)
    BY <2>1, <2>3
  <2>6. QED
    BY <1>0, <2>1, <2>2, <2>3, <2>4, <2>5, QueueStep
<1>9. CASE StartCommand
  <2> DEFINE r == CommandResult(Current.name, "EXECUTING")
  <2>1. r \in ResultRecords /\ r.name = Current.name /\ r.status = "EXECUTING"
    BY <1>9, CurrentPos, ResultType DEF StartCommand, Statuses, CommandResult
  <2>2. /\ history' = Append(history, r)
        /\ phase' = "step"
        /\ failedAtLeastOnce' = failedAtLeastOnce
        /\ UNCHANGED <<response, agentError, pc>>
    BY <1>9 DEF StartCommand
  <2>3. ShouldRun(Current.behaviour, failedAtLeastOnce)'
    BY <1>9, <2>2 DEF StartCommand, Current
  <2>4. /\ phase = "loop" /\ pc < hi
        /\ ShouldRun(Current.behaviour, failedAtLeastOnce)
    BY <1>9 DEF StartCommand
  <2>5. failedAtLeastOnce' = (failedAtLeastOnce \/ r.status = "FAILED")
    BY <2>1, <2>2 DEF HistInv, TypeInv, TypeOK
  <2>6. (r.status = "SKIPPED") <=> ~ShouldRun(Current.behaviour, failedAtLeastOnce)
    BY <2>1, <2>4
  <2>7. phase' = "step" => ShouldRun(Current.behaviour, failedAtLeastOnce)'
                           /\ r.status # "FAILED"
    BY <2>1, <2>3
  <2>8. QED
    BY <1>0, <2>1, <2>2, <2>4, <2>5, <2>6, <2>7, QueueStep
<1>10. CASE \/ StepUploaderFailed \/ StepCirrusEnvFailed \/ StepForeground
            \/ StepBackgroundStarted \/ StepBackgroundFailed
  <2>1. /\ phase = "step"
        /\ UNCHANGED <<response, agentError>>
        /\ \E success \in BOOLEAN : FinishCommand(success)
    BY <1>10 DEF StepUploaderFailed, StepCirrusEnvFailed, StepForeground,
                 StepBackgroundStarted, StepBackgroundFailed
  <2>2. QED
    BY <1>0, <2>1, FinishStep
<1>11. QED
  BY <1>1, <1>2, <1>3, <1>4, <1>5, <1>6, <1>7, <1>8, <1>9, <1>10
     DEF Next, Agent, Environment

LEMMA HistInvariant == Spec => []HistInv
BY HistInit, HistStep, PTL DEF Spec

(* Section 8's execution-behaviour table holds of every result RunBuild    *)
(* queues, for every command list and every --command-from/--command-to: *)
(* shouldRun, fed with the running failedAtLeastOnce, agrees with the     *)
(* table judged on the results before it.                                  *)
THEOREM BehaviourTableHolds == Spec => []ExecutionBehaviourTable
<1>1. HistInv => ExecutionBehaviourTable
  BY TableIsProperty DEF HistInv
<1>2. QED
  BY <1>1, HistInvariant, PTL

(* A task that RunBuild ends with ReportAgentError (a wrong server token, *)
(* a failed vault unboxing, a panic on the command window) has queued,    *)
(* sent and opened nothing and reported no finish attempt.                 *)
THEOREM ErrorExcludesProgressHolds == Spec => []ErrorExcludesProgress
<1>1. HistInv => ErrorExcludesProgress
  BY DEF HistInv, ErrorExcludesProgress
<1>2. QED
  BY <1>1, HistInvariant, PTL

(***************************************************************************)
(* The controller's received results.  ViewSpec (checked by TLC) also     *)
(* asks that every delivery is well formed, a statement about SelectSeq   *)
(* that needs induction over sequences; what is proved here is the rest   *)
(* of its Deliver and Finish steps.                                         *)
(***************************************************************************)
(* ReportCommandUpdates only ever adds results after those the controller *)
(* already has (a failed flush sends nothing, a successful one sends the  *)
(* whole buffer after them), and no results are sent once                 *)
(* ReportAgentFinished has succeeded.                                       *)
DeliveredOnlyGrows ==
    [][/\ Len(sent) <= Len(sent')
       /\ SubSeq(sent', 1, Len(sent)) = sent
       /\ finished => sent' = sent]_vars

\* A flush extends what was sent.
LEMMA TransmittedExtends ==
    ASSUME NEW s \in Seq(ResultRecords), NEW b \in Seq(ResultRecords),
           NEW ok \in BOOLEAN
    PROVE  /\ Len(s) <= Len(Transmitted(s, b, ok))
           /\ SubSeq(Transmitted(s, b, ok), 1, Len(s)) = s
<1>1. CASE ok
  <2>1. /\ Len(s \o b) = Len(s) + Len(b)
        /\ \A i \in 1..Len(s) : (s \o b)[i] = s[i]
    BY ConcatProperties
  <2>2. SubSeq(s \o b, 1, Len(s)) = s
    BY <2>1
  <2>3. QED
    BY <1>1, <2>1, <2>2 DEF Transmitted
<1>2. CASE ~ok
  BY <1>2, SubSeqFull DEF Transmitted
<1>3. QED
  BY <1>1, <1>2

\* Once RunBuild has returned, nothing it sends or reports changes.
LEMMA DoneStable ==
    ASSUME phase = "done", [Next]_vars
    PROVE  phase' = "done" /\ sent' = sent /\ finished' = finished
<1>1. ~Agent
  <2>1. ~FetchFailed /\ ~FetchCancelled /\ ~TokenMismatch /\ ~FetchSucceeded
    BY DEF FetchFailed, FetchCancelled, TokenMismatch, FetchSucceeded
  <2>2. \A k \in Keys : /\ ~UnboxSkip(k) /\ ~UnboxParseError(k)
                       /\ ~UnboxClientError(k) /\ ~UnboxReadError(k)
                       /\ ~UnboxValue(k)
    BY DEF UnboxSkip, UnboxParseError, UnboxClientError, UnboxReadError,
           UnboxValue
  <2>3. ~PrepareNoCommands /\ ~PreparePanic /\ ~PrepareLoop
        /\ ~SkipCommand /\ ~StartCommand
    BY DEF PrepareNoCommands, PreparePanic, PrepareLoop, SkipCommand,
           StartCommand
  <2>4. /\ ~StepUploaderFailed /\ ~StepCirrusEnvFailed /\ ~StepExit
        /\ ~StepForeground /\ ~StepBackgroundStarted /\ ~StepBackgroundFailed
    BY DEF StepUploaderFailed, StepCirrusEnvFailed, StepExit, StepForeground,
           StepBackgroundStarted, StepBackgroundFailed
  <2>5. /\ ~LoopDone /\ ~CleanupBackground /\ ~CollectMetrics
        /\ ~ReportFinished /\ ~ReportFailed
    BY DEF LoopDone, CleanupBackground, CollectMetrics, ReportFinished,
           ReportFailed
  <2>6. QED
    BY <2>1, <2>2, <2>3, <2>4, <2>5 DEF Agent
<1>2. ~CancelContext
  BY DEF CancelContext
<1>3. CASE \E i \in Steps : BackgroundExits(i)
  BY <1>3 DEF BackgroundExits, batchVars
<1>4. CASE Returned \/ UNCHANGED vars
  BY <1>4 DEF Returned, vars
<1>5. QED
  BY <1>1, <1>2, <1>3, <1>4 DEF Next, Environment

\* Only a successful ReportAgentFinished sets finished.
LEMMA FinishedFrame ==
    ASSUME [Next]_vars, ~ReportFinished
    PROVE  finished' = finished
<1>1. CASE FetchFailed \/ FetchCancelled \/ TokenMismatch \/ FetchSucceeded
  BY <1>1 DEF FetchFailed, FetchCancelled, TokenMismatch, FetchSucceeded
<1>2. CASE \E k \in Keys : \/ UnboxSkip(k) \/ UnboxParseError(k)
                          \/ UnboxClientError(k) \/ UnboxReadError(k)
                          \/ UnboxValue(k)
  BY <1>2 DEF UnboxSkip, UnboxParseError, UnboxClientError, UnboxReadError,
              UnboxValue, UnboxFailed
<1>3. CASE PrepareNoCommands \/ PreparePanic \/ PrepareLoop
           \/ SkipCommand \/ StartCommand
  BY <1>3 DEF PrepareNoCommands, PreparePanic, PrepareLoop, SkipCommand,
              StartCommand
<1>4. CASE \/ StepUploaderFailed \/ StepCirrusEnvFailed \/ StepExit
           \/ StepForeground \/ StepBackgroundStarted \/ StepBackgroundFailed
  BY <1>4 DEF StepUploaderFailed, StepCirrusEnvFailed, StepExit, StepForeground,
              StepBackgroundStarted, StepBackgroundFailed
<1>5. CASE LoopDone \/ CleanupBackground \/ CollectMetrics \/ ReportFailed
  BY <1>5 DEF LoopDone, CleanupBackground, CollectMetrics, ReportFailed
<1>6. CASE CancelContext \/ (\E i \in Steps : BackgroundExits(i))
           \/ Returned \/ UNCHANGED vars
  BY <1>6 DEF CancelContext, BackgroundExits, Returned, vars
<1>7. QED
  BY <1>1, <1>2, <1>3, <1>4, <1>5, <1>6 DEF Next, Agent, Environment

\* ReportAgentFinished succeeds only as RunBuild's last step.
ReportedInv == TypeInv /\ (finished => phase = "done")

LEMMA ReportedStep == ReportedInv /\ [Next]_vars => ReportedInv'
<1> SUFFICES ASSUME ReportedInv, [Next]_vars PROVE ReportedInv'
  OBVIOUS
<1>1. TypeInv'
  BY NextTypeInv DEF ReportedInv
<1>2. CASE phase = "done"
  BY <1>1, <1>2, DoneStable DEF ReportedInv
<1>3. CASE phase # "done"
  <2>1. ~finished
    BY <1>3 DEF ReportedInv
  <2>2. finished' => phase' = "done"
    <3>1. CASE ReportFinished
      BY <3>1 DEF ReportFinished
    <3>2. CASE ~ReportFinished
      BY <2>1, <3>2, FinishedFrame
    <3>3. QED
      BY <3>1, <3>2
  <2>3. QED
    BY <1>1, <2>2 DEF ReportedInv
<1>4. QED
  BY <1>2, <1>3

LEMMA ReportedInvariant == Spec => []ReportedInv
<1>1. Init => ReportedInv
  BY InitTypeInv DEF Init, ReportedInv
<1>2. ReportedInv /\ [Next]_vars => ReportedInv'
  BY ReportedStep
<1>3. QED
  BY <1>1, <1>2, PTL DEF Spec

\* Only the two flushes of RunBuild's loop send results.
LEMMA SentFrame ==
    ASSUME [Next]_vars, ~StartCommand, ~LoopDone
    PROVE  sent' = sent
<1>1. CASE FetchFailed \/ FetchCancelled \/ TokenMismatch \/ FetchSucceeded
  BY <1>1 DEF FetchFailed, FetchCancelled, TokenMismatch, FetchSucceeded,
              batchVars
<1>2. CASE \E k \in Keys : \/ UnboxSkip(k) \/ UnboxParseError(k)
                          \/ UnboxClientError(k) \/ UnboxReadError(k)
                          \/ UnboxValue(k)
  BY <1>2 DEF UnboxSkip, UnboxParseError, UnboxClientError, UnboxReadError,
              UnboxValue, UnboxFailed, batchVars
<1>3. CASE PrepareNoCommands \/ PreparePanic \/ PrepareLoop \/ SkipCommand
  BY <1>3 DEF PrepareNoCommands, PreparePanic, PrepareLoop, SkipCommand,
              batchVars
<1>4. CASE \/ StepUploaderFailed \/ StepCirrusEnvFailed \/ StepExit
           \/ StepForeground \/ StepBackgroundStarted \/ StepBackgroundFailed
  BY <1>4 DEF StepUploaderFailed, StepCirrusEnvFailed, StepExit, StepForeground,
              StepBackgroundStarted, StepBackgroundFailed, batchVars
<1>5. CASE CleanupBackground \/ CollectMetrics \/ ReportFinished \/ ReportFailed
  BY <1>5 DEF CleanupBackground, CollectMetrics, ReportFinished, ReportFailed,
              batchVars
<1>6. CASE CancelContext \/ (\E i \in Steps : BackgroundExits(i))
           \/ Returned \/ UNCHANGED vars
  BY <1>6 DEF CancelContext, BackgroundExits, Returned, vars, batchVars
<1>7. QED
  BY <1>1, <1>2, <1>3, <1>4, <1>5, <1>6 DEF Next, Agent, Environment

LEMMA DeliveredStep ==
    ASSUME ReportedInv, [Next]_vars
    PROVE  /\ Len(sent) <= Len(sent')
           /\ SubSeq(sent', 1, Len(sent)) = sent
           /\ finished => sent' = sent
<1>1. sent \in Seq(ResultRecords) /\ buffer \in Seq(ResultRecords)
  BY DEF ReportedInv, TypeInv, TypeOK
<1>2. CASE StartCommand
  <2>1. pc < hi /\ phase = "loop" /\ ~finished
    BY <1>2 DEF StartCommand, ReportedInv
  <2>2. CommandResult(Current.name, "EXECUTING") \in ResultRecords
    BY <2>1, CurrentType, ResultType DEF ReportedInv, Command, Statuses
  <2>3. Queue(buffer, CommandResult(Current.name, "EXECUTING")) \in Seq(ResultRecords)
    BY <1>1, <2>2, QueueType
  <2>4. PICK ok \in BOOLEAN :
          sent' = Transmitted(sent, Queue(buffer, CommandResult(Current.name, "EXECUTING")), ok)
    BY <1>2 DEF StartCommand
  <2>5. QED
    BY <1>1, <2>1, <2>3, <2>4, TransmittedExtends
<1>3. CASE LoopDone
  <2>1. phase = "loop" /\ ~finished
    BY <1>3 DEF LoopDone, ReportedInv
  <2>2. PICK ok \in BOOLEAN : sent' = Transmitted(sent, buffer, ok)
    BY <1>3 DEF LoopDone
  <2>3. QED
    BY <1>1, <2>1, <2>2, TransmittedExtends
<1>4. CASE ~StartCommand /\ ~LoopDone
  BY <1>1, <1>4, SentFrame, SubSeqFull
<1>5. QED
  BY <1>2, <1>3, <1>4

(* Proved: DeliveredOnlyGrows holds of every behaviour of RunBuild, for     *)
(* every command list: the controller's results are never taken back or   *)
(* reordered by a failed or retried flush, and none arrives after          *)
(* ReportAgentFinished.                                                     *)
THEOREM DeliveriesOnlyGrow == Spec => DeliveredOnlyGrows
<1>1. ReportedInv /\ [Next]_vars
        => /\ Len(sent) <= Len(sent')
           /\ SubSeq(sent', 1, Len(sent)) = sent
           /\ finished => sent' = sent
  BY DeliveredStep
<1>2. QED
  BY <1>1, ReportedInvariant, PTL DEF Spec, DeliveredOnlyGrows
=============================================================================
