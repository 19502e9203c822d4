------------------------------ MODULE Executor ------------------------------
(***************************************************************************)
(* Executor.RunBuild and performStep: the control loop of the agent.       *)
(* It fetches the InitialCommands response (retrying until the parent     *)
(* context is cancelled), checks the server token, merges the response    *)
(* environment and unboxes VAULT[...] values, runs the commands of the    *)
(* resumption window [commandFrom, commandTo) under the execution-         *)
(* behaviour table, streams CommandResults through the update batcher,    *)
(* and at teardown kills the background scripts, finalises their logs and *)
(* calls ReportAgentFinished (two attempts).                               *)
(*                                                                         *)
(* One step of the model is one uninterrupted stretch of the control      *)
(* thread between two blocking points (an RPC, a step).  The environment  *)
(* of the agent acts in between: the parent context may be cancelled and  *)
(* a background script may exit by itself.                                 *)
(***************************************************************************)
EXTENDS Naturals, Sequences, FiniteSets, Commands, UpdateBatcher

CONSTANTS
    Vars,             \* user variable names of the task environment
    Vals,             \* plain variable values
    VaultSecret,      \* the value Vault holds at the boxed path
    Unset,            \* an absent environment variable
    Tokens,           \* server tokens a response may carry
    LaunchToken,      \* the --server-token flag
    MaxFetchRetries   \* bound on failed InitialCommands attempts

ASSUME ValsAssumption == VaultSecret \in Vals /\ Unset \notin Vals
ASSUME TokenAssumption == LaunchToken \in Tokens
ASSUME RetriesAssumption == MaxFetchRetries \in Nat

\* Variables the properties need by name.
VaultURLKey == "CIRRUS_VAULT_URL"
SensitiveKey == "CIRRUS_ENV_SENSITIVE"
Keys == Vars \cup {VaultURLKey, SensitiveKey}

\* A value NewBoxedValue parses, and one it rejects with a parse error.
Box == "VAULT[secret/data/task key]"
BadBox == "VAULT[secret/data/task"
EnvValues == Vals \cup {Box, BadBox}

\* The positions of a command list; performStep's log uploader and the
\* process of a background script are identified by the step's position.
Steps == 1..MaxCmds

(***************************************************************************)
(* Inputs.  The MC modules substitute smaller sets for these.              *)
(***************************************************************************)
CommandLists ==
    UNION {{cs \in [1..n -> Command] :
              \A i, j \in 1..n : i # j => cs[i].name # cs[j].name} :
           n \in 0..MaxCmds}
ResponseEnvs == [Keys -> EnvValues \cup {Unset}]
Masks == SUBSET Vals
\* What a step appends to its CIRRUS_ENV file, as parsed by Consume.
FileContents == UNION {[ks -> Vals] : ks \in SUBSET (Vars \cup {SensitiveKey})}

\* Values of --command-from and --command-to.
LaunchFlags == Names \cup {NoName}

Responses == [commands : CommandLists, environment : ResponseEnvs,
              failedAtLeastOnce : BOOLEAN, serverToken : Tokens,
              secretsToMask : Masks]

\* RunBuild's response before InitialCommands has answered (nil in Go).
NoResponse == [commands |-> <<>>, environment |-> [k \in Keys |-> Unset],
               failedAtLeastOnce |-> FALSE, serverToken |-> LaunchToken,
               secretsToMask |-> {}]

ResponseType == [commands : Seq(Command),
                 environment : [Keys -> EnvValues \cup {Unset}],
                 failedAtLeastOnce : BOOLEAN, serverToken : Tokens,
                 secretsToMask : SUBSET Vals]

\* The values a CIRRUS_ENV file assigns.
ValuesOf(f) == {f[x] : x \in DOMAIN f}

VARIABLES
    commandFrom, commandTo,   \* the launch flags --command-from/--command-to
    phase,              \* where the control thread is
    numRetries,         \* failed InitialCommands attempts so far
    cancelled,          \* the parent context ctx is done
    response,           \* the InitialCommands response
    env,                \* executor.env: Keys -> value or Unset
    sensitive,          \* the environment's sensitive values
    pending,            \* keys the unboxing loop has not visited yet
    vaultClient,        \* the Vault client has been created
    failedAtLeastOnce,
    lo, hi, pc,         \* slice bounds of BoundedCommands; pc: Go index of
                        \* the current command, so commands[pc + 1]
    buffer, history,    \* the update batcher: unsent results, all results
    sent,               \* the results ReportCommandUpdates delivered
    registry,           \* executor.backgroundCommands, as step positions
    proc,               \* state of the process a step launched
    opened,             \* the step's log uploader was created
    fin,                \* how often the step's log uploader was finalised
    ci,                 \* the cleanup loop's index into the registry
    attempts,           \* ReportAgentFinished attempts made
    finished,           \* the controller received ReportAgentFinished
    agentError          \* ReportAgentError was sent (reportError or panic)

vars == <<commandFrom, commandTo, phase, numRetries, cancelled, response,
          env, sensitive, pending, vaultClient, failedAtLeastOnce, lo, hi,
          pc, buffer, history, sent, registry, proc, opened, fin, ci,
          attempts, finished, agentError>>

stepVars == <<registry, proc, opened, fin>>
batchVars == <<buffer, history, sent>>

\* The CommandResults of the batcher.
ResultRecords == [name : Names, status : Statuses]

Phases == {"fetch", "unbox", "loop", "step", "cleanup",
           "report", "done"}

TypeOK ==
    /\ commandFrom \in Names \cup {NoName}
    /\ commandTo \in Names \cup {NoName}
    /\ phase \in Phases
    /\ numRetries \in 0..MaxFetchRetries
    /\ cancelled \in BOOLEAN
    /\ response \in ResponseType
    /\ env \in [Keys -> EnvValues \cup {Unset}]
    /\ sensitive \subseteq Vals
    /\ pending \subseteq Keys
    /\ vaultClient \in BOOLEAN
    /\ failedAtLeastOnce \in BOOLEAN
    /\ lo \in 0..MaxCmds /\ hi \in 0..MaxCmds /\ pc \in 0..MaxCmds
    /\ buffer \in Seq(ResultRecords)
    /\ history \in Seq(ResultRecords)
    /\ sent \in Seq(ResultRecords)
    /\ registry \in Seq(Steps)
    /\ proc \in [Steps -> {"none", "running", "exited", "killed"}]
    /\ opened \in [Steps -> BOOLEAN]
    /\ fin \in [Steps -> Nat]
    /\ ci \in Nat
    /\ attempts \in 0..2
    /\ finished \in BOOLEAN
    /\ agentError \in BOOLEAN

Init ==
    /\ commandFrom \in LaunchFlags
    /\ commandTo \in LaunchFlags
    /\ phase = "fetch"
    /\ numRetries = 0
    /\ cancelled = FALSE
    /\ response = NoResponse
    /\ env = [k \in Keys |-> Unset]
    /\ sensitive = {}
    /\ pending = {}
    /\ vaultClient = FALSE
    /\ failedAtLeastOnce = FALSE
    /\ lo = 0 /\ hi = 0 /\ pc = 0
    /\ buffer = <<>> /\ history = <<>> /\ sent = <<>>
    /\ registry = <<>>
    /\ proc = [i \in Steps |-> "none"]
    /\ opened = [i \in Steps |-> FALSE]
    /\ fin = [i \in Steps |-> 0]
    /\ ci = 0
    /\ attempts = 0
    /\ finished = FALSE
    /\ agentError = FALSE

(***************************************************************************)
(* Fetching the initial commands (retry.Do with a 5 s delay, unbounded    *)
(* attempts, stopped by ctx) and checking the server token.                *)
(***************************************************************************)
FetchFailed ==
    /\ phase = "fetch" /\ ~cancelled
    /\ numRetries < MaxFetchRetries
    /\ numRetries' = numRetries + 1
    /\ UNCHANGED <<commandFrom, commandTo, phase, cancelled, response, env,
                   sensitive, pending, vaultClient, failedAtLeastOnce, lo,
                   hi, pc, batchVars, stepVars, ci, attempts, finished,
                   agentError>>

\* retry.Context(ctx): the loop gives up once ctx is done; RunBuild returns.
FetchCancelled ==
    /\ phase = "fetch" /\ cancelled
    /\ phase' = "done"
    /\ UNCHANGED <<commandFrom, commandTo, numRetries, cancelled, response,
                   env, sensitive, pending, vaultClient, failedAtLeastOnce,
                   lo, hi, pc, batchVars, stepVars, ci, attempts, finished,
                   agentError>>

\* Mutant: the token mismatch is logged (log.Printf) and the build goes on.
TokenMismatchLogged ==
    /\ phase = "fetch" /\ ~cancelled
    /\ \E r \in Responses :
          /\ r.serverToken # LaunchToken
          /\ response' = r
          /\ env' = r.environment
          /\ pending' = {k \in Keys : r.environment[k] # Unset}
    /\ phase' = "unbox"
    /\ agentError' = TRUE
    /\ UNCHANGED <<commandFrom, commandTo, numRetries, cancelled, sensitive,
                   vaultClient, failedAtLeastOnce, lo, hi, pc, batchVars,
                   stepVars, ci, attempts, finished>>

\* log.Panic on a wrong token; main's deferred recover reports the panic.
TokenMismatch ==
    /\ phase = "fetch" /\ ~cancelled
    /\ \E r \in Responses :
          /\ r.serverToken # LaunchToken
          /\ response' = r
    /\ phase' = "done"
    /\ agentError' = TRUE
    /\ UNCHANGED <<commandFrom, commandTo, numRetries, cancelled, env,
                   sensitive, pending, vaultClient, failedAtLeastOnce, lo,
                   hi, pc, batchVars, stepVars, ci, attempts, finished>>

\* The response is accepted; env.Merge(getScriptEnvironment(..), false)
\* fills the empty environment and the unboxing loop takes its keys.
FetchSucceeded ==
    /\ phase = "fetch" /\ ~cancelled
    /\ \E r \in Responses :
          /\ r.serverToken = LaunchToken
          /\ response' = r
          /\ env' = r.environment
          /\ pending' = {k \in Keys : r.environment[k] # Unset}
    /\ phase' = "unbox"
    /\ UNCHANGED <<commandFrom, commandTo, numRetries, cancelled, sensitive,
                   vaultClient, failedAtLeastOnce, lo, hi, pc, batchVars,
                   stepVars, ci, attempts, finished, agentError>>

(***************************************************************************)
(* The unboxing loop over env.Items(), in Go's map order (any order).     *)
(* Every failure is reported with reportError and RunBuild returns.        *)
(***************************************************************************)
UnboxFailed ==
    /\ phase' = "done"
    /\ agentError' = TRUE
    /\ UNCHANGED <<commandFrom, commandTo, numRetries, cancelled, response,
                   env, sensitive, pending, vaultClient, failedAtLeastOnce,
                   lo, hi, pc, batchVars, stepVars, ci, attempts, finished>>

\* ErrNotABoxedValue: continue.
UnboxSkip(k) ==
    /\ phase = "unbox" /\ k \in pending
    /\ env[k] \notin {Box, BadBox}
    /\ pending' = pending \ {k}
    /\ UNCHANGED <<commandFrom, commandTo, phase, numRetries, cancelled,
                   response, env, sensitive, vaultClient, failedAtLeastOnce,
                   lo, hi, pc, batchVars, stepVars, ci, attempts, finished,
                   agentError>>

\* Mutant: a parse error is skipped like a value that is not boxed.
UnboxParseErrorSkipped(k) ==
    /\ phase = "unbox" /\ k \in pending
    /\ env[k] = BadBox
    /\ pending' = pending \ {k}
    /\ UNCHANGED <<commandFrom, commandTo, phase, numRetries, cancelled,
                   response, env, sensitive, vaultClient, failedAtLeastOnce,
                   lo, hi, pc, batchVars, stepVars, ci, attempts, finished,
                   agentError>>

UnboxParseError(k) ==
    /\ phase = "unbox" /\ k \in pending
    /\ env[k] = BadBox
    /\ UnboxFailed

\* NewFromEnvironment fails: no CIRRUS_VAULT_URL, a bad address or a failed
\* JWT login.
UnboxClientError(k) ==
    /\ phase = "unbox" /\ k \in pending
    /\ env[k] = Box /\ ~vaultClient
    /\ UnboxFailed

\* Logical().ReadWithContext or the selector fails, on a client that exists
\* or that was just created (which needs CIRRUS_VAULT_URL).
UnboxReadError(k) ==
    /\ phase = "unbox" /\ k \in pending
    /\ env[k] = Box
    /\ vaultClient \/ env[VaultURLKey] # Unset
    /\ UnboxFailed

\* env.Set(key, unboxedValue); env.AddSensitiveValues(unboxedValue).
UnboxValue(k) ==
    /\ phase = "unbox" /\ k \in pending
    /\ env[k] = Box
    /\ vaultClient \/ env[VaultURLKey] # Unset
    /\ vaultClient' = TRUE
    /\ env' = [env EXCEPT ![k] = VaultSecret]
    /\ sensitive' = sensitive \cup {VaultSecret}
    /\ pending' = pending \ {k}
    /\ UNCHANGED <<commandFrom, commandTo, phase, numRetries, cancelled,
                   response, failedAtLeastOnce, lo, hi, pc, batchVars,
                   stepVars, ci, attempts, finished, agentError>>

(***************************************************************************)
(* The rest of the prelude: working directory, cache host and the step    *)
(* context (not modelled state), secretsToMask, the empty-list return,    *)
(* and commands[left:right], which panics when its bounds are out of      *)
(* range (main recovers and reports the panic).                           *)
(***************************************************************************)
Window == BoundedCommandsBounds(response.commands, commandFrom, commandTo)

PrepareNoCommands ==
    /\ phase = "unbox" /\ pending = {}
    /\ response.commands = <<>>
    /\ sensitive' = sensitive \cup response.secretsToMask
    /\ phase' = "done"
    /\ UNCHANGED <<commandFrom, commandTo, numRetries, cancelled, response,
                   env, pending, vaultClient, failedAtLeastOnce, lo, hi, pc,
                   batchVars, stepVars, ci, attempts, finished, agentError>>

PreparePanic ==
    /\ phase = "unbox" /\ pending = {}
    /\ response.commands # <<>>
    /\ ~SliceInRange(Window, response.commands)
    /\ sensitive' = sensitive \cup response.secretsToMask
    /\ phase' = "done"
    /\ agentError' = TRUE
    /\ UNCHANGED <<commandFrom, commandTo, numRetries, cancelled, response,
                   env, pending, vaultClient, failedAtLeastOnce, lo, hi, pc,
                   batchVars, stepVars, ci, attempts, finished>>

PrepareLoop ==
    /\ phase = "unbox" /\ pending = {}
    /\ response.commands # <<>>
    /\ SliceInRange(Window, response.commands)
    /\ sensitive' = sensitive \cup response.secretsToMask
    /\ failedAtLeastOnce' = response.failedAtLeastOnce
    /\ lo' = Window.left /\ hi' = Window.right /\ pc' = Window.left
    /\ phase' = "loop"
    /\ UNCHANGED <<commandFrom, commandTo, numRetries, cancelled, response,
                   env, pending, vaultClient, batchVars, stepVars, ci,
                   attempts, finished, agentError>>

(***************************************************************************)
(* The loop over commands[left:right].                                     *)
(***************************************************************************)
Current == response.commands[pc + 1]

\* !shouldRun: queue SKIPPED and continue.
SkipCommand ==
    /\ phase = "loop" /\ pc < hi
    /\ ~ShouldRun(Current.behaviour, failedAtLeastOnce)
    /\ buffer' = Queue(buffer, CommandResult(Current.name, "SKIPPED"))
    /\ history' = Append(history, CommandResult(Current.name, "SKIPPED"))
    /\ pc' = pc + 1
    /\ UNCHANGED <<commandFrom, commandTo, phase, numRetries, cancelled,
                   response, env, sensitive, pending, vaultClient,
                   failedAtLeastOnce, lo, hi, sent, stepVars, ci, attempts,
                   finished, agentError>>

\* Queue EXECUTING and flush it (ub.Flush with ctx, result ignored).
StartCommand ==
    /\ phase = "loop" /\ pc < hi
    /\ ShouldRun(Current.behaviour, failedAtLeastOnce)
    /\ LET r == CommandResult(Current.name, "EXECUTING")
           queued == Queue(buffer, r)
       IN  \E ok \in IF cancelled THEN {FALSE} ELSE BOOLEAN :
              /\ buffer' = FlushedBuffer(queued, ok)
              /\ sent' = Transmitted(sent, queued, ok)
              /\ history' = Append(history, r)
    /\ phase' = "step"
    /\ UNCHANGED <<commandFrom, commandTo, numRetries, cancelled, response,
                   env, sensitive, pending, vaultClient, failedAtLeastOnce,
                   lo, hi, pc, stepVars, ci, attempts, finished, agentError>>

(***************************************************************************)
(* performStep.  Its outcomes, in the order of the code: the log uploader *)
(* cannot be created; CIRRUS_ENV cannot be created; the instruction runs. *)
(* Except for a background script, the uploader is finalised by a defer   *)
(* when performStep returns.  After the instruction, the CIRRUS_ENV file  *)
(* is merged, sensitive iff CIRRUS_ENV_SENSITIVE was set before the merge.*)
(* Then RunBuild sets failedAtLeastOnce and queues COMPLETED or FAILED.    *)
(***************************************************************************)
\* The uploader finalisation deferred for every instruction but a
\* background script.
DeferredFinalize(i) ==
    IF Current.kind # "Background" THEN [fin EXCEPT ![i] = @ + 1] ELSE fin

\* Mutant: a failed step does not set failedAtLeastOnce.
FinishCommandKeepsFlag(success) ==
    LET r == CommandResult(Current.name, IF success THEN "COMPLETED"
                                                   ELSE "FAILED")
    IN  /\ failedAtLeastOnce' = failedAtLeastOnce
        /\ buffer' = Queue(buffer, r)
        /\ history' = Append(history, r)
        /\ pc' = pc + 1
        /\ phase' = "loop"

FinishCommand(success) ==
    LET r == CommandResult(Current.name, IF success THEN "COMPLETED"
                                                   ELSE "FAILED")
    IN  /\ failedAtLeastOnce' = (failedAtLeastOnce \/ ~success)
        /\ buffer' = Queue(buffer, r)
        /\ history' = Append(history, r)
        /\ pc' = pc + 1
        /\ phase' = "loop"

MergeCirrusEnv ==
    \E content \in FileContents :
       /\ env' = [k \in Keys |-> IF k \in DOMAIN content THEN content[k]
                                                          ELSE env[k]]
       /\ sensitive' = IF env[SensitiveKey] # Unset
                       THEN sensitive \cup ValuesOf(content) ELSE sensitive

\* NewLogUploader fails: a warning, and a failed step.
StepUploaderFailed ==
    /\ phase = "step"
    /\ FinishCommand(FALSE)
    /\ UNCHANGED <<commandFrom, commandTo, numRetries, cancelled, response,
                   env, sensitive, pending, vaultClient, lo, hi, sent,
                   stepVars, ci, attempts, finished, agentError>>

\* cirrusenv.New fails: a failed step, the uploader finalised by the defer
\* (if one was deferred).
StepCirrusEnvFailed ==
    /\ phase = "step"
    /\ opened' = [opened EXCEPT ![pc + 1] = TRUE]
    /\ fin' = DeferredFinalize(pc + 1)
    /\ FinishCommand(FALSE)
    /\ UNCHANGED <<commandFrom, commandTo, numRetries, cancelled, response,
                   env, sensitive, pending, vaultClient, lo, hi, sent,
                   registry, proc, ci, attempts, finished, agentError>>

\* ExitInstruction: ErrStepExit, and RunBuild returns at once.
StepExit ==
    /\ phase = "step" /\ Current.kind = "Exit"
    /\ opened' = [opened EXCEPT ![pc + 1] = TRUE]
    /\ fin' = DeferredFinalize(pc + 1)
    /\ phase' = "done"
    /\ UNCHANGED <<commandFrom, commandTo, numRetries, cancelled, response,
                   env, sensitive, pending, vaultClient, failedAtLeastOnce,
                   lo, hi, pc, batchVars, registry, proc, ci, attempts,
                   finished, agentError>>

\* Every foreground instruction: its success is the instruction's own.
StepForeground ==
    /\ phase = "step" /\ Current.kind = "Foreground"
    /\ opened' = [opened EXCEPT ![pc + 1] = TRUE]
    /\ fin' = DeferredFinalize(pc + 1)
    /\ \E success \in BOOLEAN : FinishCommand(success)
    /\ MergeCirrusEnv
    /\ UNCHANGED <<commandFrom, commandTo, numRetries, cancelled, response,
                   pending, vaultClient, lo, hi, sent, registry, proc, ci,
                   attempts, finished, agentError>>

\* The background script started: it joins backgroundCommands with its
\* still open uploader.
\* Mutant: the deferred Finalize also closes a background script's log.
StepBackgroundStartedFinalized ==
    /\ phase = "step" /\ Current.kind = "Background"
    /\ opened' = [opened EXCEPT ![pc + 1] = TRUE]
    /\ registry' = Append(registry, pc + 1)
    /\ proc' = [proc EXCEPT ![pc + 1] = "running"]
    /\ fin' = [fin EXCEPT ![pc + 1] = @ + 1]
    /\ FinishCommand(TRUE)
    /\ MergeCirrusEnv
    /\ UNCHANGED <<commandFrom, commandTo, numRetries, cancelled, response,
                   pending, vaultClient, lo, hi, sent, ci, attempts,
                   finished, agentError>>

StepBackgroundStarted ==
    /\ phase = "step" /\ Current.kind = "Background"
    /\ opened' = [opened EXCEPT ![pc + 1] = TRUE]
    /\ registry' = Append(registry, pc + 1)
    /\ proc' = [proc EXCEPT ![pc + 1] = "running"]
    /\ FinishCommand(TRUE)
    /\ MergeCirrusEnv
    /\ UNCHANGED <<commandFrom, commandTo, numRetries, cancelled, response,
                   pending, vaultClient, lo, hi, sent, fin, ci, attempts,
                   finished, agentError>>

\* The background script could not be started: logUploader.Finalize().
StepBackgroundFailed ==
    /\ phase = "step" /\ Current.kind = "Background"
    /\ opened' = [opened EXCEPT ![pc + 1] = TRUE]
    /\ fin' = [fin EXCEPT ![pc + 1] = @ + 1]
    /\ FinishCommand(FALSE)
    /\ MergeCirrusEnv
    /\ UNCHANGED <<commandFrom, commandTo, numRetries, cancelled, response,
                   pending, vaultClient, lo, hi, sent, registry, proc, ci,
                   attempts, finished, agentError>>

(***************************************************************************)
(* Teardown: flush, kill and finalise every background command, read the  *)
(* metrics (or time out after 3 s), report that the agent has finished.   *)
(***************************************************************************)
LoopDone ==
    /\ phase = "loop" /\ pc = hi
    /\ \E ok \in IF cancelled \/ buffer = <<>> THEN {FALSE} ELSE BOOLEAN :
          /\ buffer' = FlushedBuffer(buffer, ok)
          /\ sent' = Transmitted(sent, buffer, ok)
    /\ ci' = 1
    /\ phase' = "cleanup"
    /\ UNCHANGED <<commandFrom, commandTo, numRetries, cancelled, response,
                   env, sensitive, pending, vaultClient, failedAtLeastOnce,
                   lo, hi, pc, history, stepVars, attempts, finished,
                   agentError>>

\* Process.Kill (an error if the process is gone is written to the log),
\* then Logs.Finalize().
\* Mutant: the cleanup loop waits for the script to exit instead of
\* killing it.
CleanupBackgroundWaits ==
    /\ phase = "cleanup" /\ ci <= Len(registry)
    /\ proc[registry[ci]] # "running"
    /\ fin' = [fin EXCEPT ![registry[ci]] = @ + 1]
    /\ ci' = ci + 1
    /\ UNCHANGED <<commandFrom, commandTo, phase, numRetries, cancelled,
                   response, env, sensitive, pending, vaultClient,
                   failedAtLeastOnce, lo, hi, pc, batchVars, registry, proc,
                   opened, attempts, finished, agentError>>

CleanupBackground ==
    /\ phase = "cleanup" /\ ci <= Len(registry)
    /\ LET i == registry[ci]
       IN  /\ proc' = [proc EXCEPT ![i] = IF @ = "running" THEN "killed" ELSE @]
           /\ fin' = [fin EXCEPT ![i] = @ + 1]
    /\ ci' = ci + 1
    /\ UNCHANGED <<commandFrom, commandTo, phase, numRetries, cancelled,
                   response, env, sensitive, pending, vaultClient,
                   failedAtLeastOnce, lo, hi, pc, batchVars, registry, opened,
                   attempts, finished, agentError>>

\* metricsCancel(); the select on the metrics result or a 3 s timer only
\* decides the warnings and whether resource utilisation is reported.
\* Mutant: the cleanup loop stops one entry early.
CollectMetricsEarly ==
    /\ phase = "cleanup" /\ ci >= Len(registry)
    /\ phase' = "report"
    /\ UNCHANGED <<commandFrom, commandTo, numRetries, cancelled, response,
                   env, sensitive, pending, vaultClient, failedAtLeastOnce,
                   lo, hi, pc, batchVars, stepVars, ci, attempts, finished,
                   agentError>>

CollectMetrics ==
    /\ phase = "cleanup" /\ ci > Len(registry)
    /\ phase' = "report"
    /\ UNCHANGED <<commandFrom, commandTo, numRetries, cancelled, response,
                   env, sensitive, pending, vaultClient, failedAtLeastOnce,
                   lo, hi, pc, batchVars, stepVars, ci, attempts, finished,
                   agentError>>

ReportFinished ==
    /\ phase = "report" /\ ~cancelled
    /\ attempts' = attempts + 1
    /\ finished' = TRUE
    /\ phase' = "done"
    /\ UNCHANGED <<commandFrom, commandTo, numRetries, cancelled, response,
                   env, sensitive, pending, vaultClient, failedAtLeastOnce,
                   lo, hi, pc, batchVars, stepVars, ci, agentError>>

\* retry.Attempts(2), retry.Context(ctx): a failed attempt is retried once,
\* unless ctx is done.
\* Mutant: retry.Attempts(3).
ReportFailedThreeAttempts ==
    /\ phase = "report"
    /\ attempts' = attempts + 1
    /\ phase' = IF attempts + 1 = 3 \/ cancelled THEN "done" ELSE "report"
    /\ UNCHANGED <<commandFrom, commandTo, numRetries, cancelled, response,
                   env, sensitive, pending, vaultClient, failedAtLeastOnce,
                   lo, hi, pc, batchVars, stepVars, ci, finished, agentError>>

ReportFailed ==
    /\ phase = "report"
    /\ attempts' = attempts + 1
    /\ phase' = IF attempts + 1 = 2 \/ cancelled THEN "done" ELSE "report"
    /\ UNCHANGED <<commandFrom, commandTo, numRetries, cancelled, response,
                   env, sensitive, pending, vaultClient, failedAtLeastOnce,
                   lo, hi, pc, batchVars, stepVars, ci, finished, agentError>>

(***************************************************************************)
(* The agent's environment.                                                *)
(***************************************************************************)
CancelContext ==
    /\ ~cancelled /\ phase # "done"
    /\ cancelled' = TRUE
    /\ UNCHANGED <<commandFrom, commandTo, phase, numRetries, response, env,
                   sensitive, pending, vaultClient, failedAtLeastOnce, lo,
                   hi, pc, batchVars, stepVars, ci, attempts, finished,
                   agentError>>

\* A background script exits on its own (or by its context's deadline).
BackgroundExits(i) ==
    /\ proc[i] = "running"
    /\ proc' = [proc EXCEPT ![i] = "exited"]
    /\ UNCHANGED <<commandFrom, commandTo, phase, numRetries, cancelled,
                   response, env, sensitive, pending, vaultClient,
                   failedAtLeastOnce, lo, hi, pc, batchVars, registry, opened,
                   fin, ci, attempts, finished, agentError>>

\* RunBuild has returned: the behaviour stutters.
Returned ==
    /\ phase = "done"
    /\ UNCHANGED vars

Agent ==
    \/ FetchFailed \/ FetchCancelled \/ TokenMismatch \/ FetchSucceeded
    \/ \E k \in Keys : \/ UnboxSkip(k) \/ UnboxParseError(k)
                       \/ UnboxClientError(k) \/ UnboxReadError(k)
                       \/ UnboxValue(k)
    \/ PrepareNoCommands \/ PreparePanic \/ PrepareLoop
    \/ SkipCommand \/ StartCommand
    \/ StepUploaderFailed \/ StepCirrusEnvFailed \/ StepExit
    \/ StepForeground \/ StepBackgroundStarted \/ StepBackgroundFailed
    \/ LoopDone \/ CleanupBackground \/ CollectMetrics
    \/ ReportFinished \/ ReportFailed

Environment ==
    \/ CancelContext
    \/ \E i \in Steps : BackgroundExits(i)

Next == Agent \/ Environment \/ Returned

\* The control thread is never starved: every blocking point it reaches
\* returns (RPCs are bounded by gRPC retries, steps by the task timeout).
Spec == Init /\ [][Next]_vars /\ WF_vars(Agent)
-----------------------------------------------------------------------------
(***************************************************************************)
(* Properties.                                                              *)
(***************************************************************************)
\* The position of the command named n in the response.
Pos(n) == CHOOSE i \in DOMAIN response.commands : response.commands[i].name = n

Listed(n) == \E i \in DOMAIN response.commands : response.commands[i].name = n

\* Section 8's table: ALWAYS runs; ON_FAILURE runs iff a step failed;
\* ON_SUCCESS runs iff none did.
TableRuns(b, failed) == b = "ALWAYS" \/ (b = "ON_FAILURE") = failed

\* Did a step fail before the j-th result was queued?
FailedBefore(j) ==
    \/ response.failedAtLeastOnce
    \/ \E k \in 1..(j - 1) : history[k].status = "FAILED"

(* The execution-behaviour table (spec section 8): a command's result is  *)
(* SKIPPED exactly when its behaviour says it must not run given whether  *)
(* the response or an earlier step of the history failed.  This relates   *)
(* each result queued by RunBuild's loop to every result before it.       *)
ExecutionBehaviourTable ==
    \A j \in 1..Len(history) :
        (history[j].status = "SKIPPED")
            <=> ~TableRuns(response.commands[Pos(history[j].name)].behaviour,
                           FailedBefore(j))

\* Is position i within [commandFrom, commandTo), as the spec defines it?
InWindow(i) ==
    /\ Listed(commandFrom) => i >= Pos(commandFrom)
    /\ Listed(commandTo) => i < Pos(commandTo)

(* Bounded resumption (spec section 8): RunBuild evaluates no command     *)
(* before the one named --command-from or from the one named --command-to *)
(* on, and once its loop is over it has evaluated every command between. *)
ResumptionWindow ==
    /\ \A j \in 1..Len(history) : InWindow(Pos(history[j].name))
    /\ ci > 0 => \A i \in DOMAIN response.commands :
                    InWindow(i) =>
                        \E j \in 1..Len(history) :
                            history[j].name = response.commands[i].name

(* Log uploaders: no step's uploader is finalised twice or without having *)
(* been created, and the uploader of a background script that is still    *)
(* running is not finalised (performStep defers Finalize for every        *)
(* instruction but BackgroundScript, whose log the cleanup loop closes).  *)
LogFinalizedAtMostOnce ==
    \A i \in Steps :
        /\ fin[i] <= 1
        /\ fin[i] = 1 => opened[i]
        /\ proc[i] = "running" => fin[i] = 0

(* ReportAgentFinished is attempted only after every background command   *)
(* has been killed (or had exited) and its log has been finalised once.   *)
FinishedOnlyAfterCleanup ==
    attempts > 0 =>
        \A j \in 1..Len(registry) :
            /\ proc[registry[j]] \in {"exited", "killed"}
            /\ fin[registry[j]] = 1

(* No step runs while a VAULT[...] value is left in the environment, and  *)
(* by then the secret read from Vault and the response's secretsToMask   *)
(* are registered for masking.                                             *)
UnboxedBeforeSteps ==
    (phase \in {"loop", "step"} \/ history # <<>>) =>
        /\ \A k \in Keys : env[k] \notin {Box, BadBox}
        /\ (\E k \in Keys : response.environment[k] = Box)
               => VaultSecret \in sensitive
        /\ response.secretsToMask \subseteq sensitive

(* A task whose token check, unboxing or command window failed (each      *)
(* reported with ReportAgentError) runs no step, reports no result and    *)
(* does not report that the agent finished.                               *)
ErrorExcludesProgress ==
    agentError =>
        /\ history = <<>> /\ sent = <<>> /\ attempts = 0
        /\ \A i \in Steps : ~opened[i]

(* Once it has its commands, RunBuild returns: no step, flush, cleanup or *)
(* report retry keeps the control thread forever.                         *)
FetchedLeadsToReturn == (phase # "fetch") ~> (phase = "done")

(* Spec section 8: when RunBuild returns, every background log sink has   *)
(* been finalised exactly once, also when an ExitInstruction ended the    *)
(* loop (section 4.1, step 11: registry cleanup still runs).               *)
BackgroundTeardownOnReturn ==
    phase = "done" => \A j \in 1..Len(registry) : fin[registry[j]] = 1

(* Spec section 9: sensitivity of CIRRUS_ENV variables is decided by      *)
(* CIRRUS_ENV_SENSITIVE at epilogue time, so a step that sets the flag in *)
(* its own CIRRUS_ENV file has its own variables masked: a variable a     *)
(* step changes is sensitive whenever the flag is set after the step.     *)
CirrusEnvSelfSensitive ==
    [][phase = "step" /\ phase' = "loop" =>
         \A k \in Vars :
            (env'[k] # env[k] /\ env'[SensitiveKey] # Unset)
                => env'[k] \in sensitive']_vars

(* Spec section 8: for every step that is not skipped, its EXECUTING      *)
(* result is transmitted strictly before any result for a later step.     *)
ExecutingTransmittedFirst ==
    \A j \in 1..Len(sent), h \in 1..Len(history) :
        (history[h].status = "EXECUTING"
           /\ Pos(history[h].name) < Pos(sent[j].name))
            => \E k \in 1..(j - 1) : sent[k] = history[h]

-----------------------------------------------------------------------------
(***************************************************************************)
(* Refinement: RunBuild implements the controller's view of a task.  The  *)
(* controller's command list is the response's, what it has received is  *)
(* what ReportCommandUpdates delivered, and ReportAgentFinished has       *)
(* arrived once finished is set.                                           *)
(***************************************************************************)
View == INSTANCE ControllerView
            WITH cmds <- response.commands, reported <- sent, done <- finished

\* Every behaviour of RunBuild, seen from the controller, is a behaviour of
\* ControllerView: results come in command order, follow each command's
\* lifecycle and stop once ReportAgentFinished has been received.
ViewSpec == View!Spec
=============================================================================
