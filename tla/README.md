# A TLA+ model of the Cirrus CI agent's task executor

This directory holds TLA+ specifications of the Cirrus CI agent, TLC
configurations that model-check them, and TLAPS proofs about them. The agent's
sources are `src/internal/executor/vaultunboxer/vaultunboxer.go` and
`src/unnamed/part_000`:

- `vaultunboxer.go` holds the Vault unboxer in lines 1-68. From line 69 on it
  holds the executor package's `executor.go`.
- `part_000` is the agent's `main.go`.

Line numbers below refer to these files.

## 1. The system

The agent runs one CI task. Its parts and how they interact:

| Part | Source | What it does |
|---|---|---|
| Agent main | `part_000` | Dials the controller, retrying every second (62-71). Installs a stop hook and a deferred `recover` that reports a panic with `ReportAgentError` (95-109). Starts a signal goroutine that only reports a captured signal with `ReportAgentSignal` (111-125), and a heartbeat goroutine (140, 217-237). Runs `RunBuild` and uploads the agent's logs. |
| `RunBuild` | 159-408 | The control thread. It: fetches the task's commands with `InitialCommands` (unbounded retries every 5 s, stopped by `ctx`); checks the server token (a mismatch panics); merges the environment; unboxes `VAULT[...]` values; registers `secretsToMask`; selects the window `BoundedCommands(--command-from, --command-to)`. It then runs the loop over the window: a command is skipped or executed by its behaviour and whether a step failed, with results queued in the update batcher. Finally: the final flush, kill and `Finalize` of every background script, the metrics wait (3 s) and `ReportAgentFinished` (at most 2 attempts). |
| `BoundedCommands` | 411-425 | The last command named `--command-from` gives `left`, the last named `--command-to` gives `right`, and the function returns `commands[left:right]`. |
| Vault unboxer | 26-68, 200-239 | Creates the Vault client lazily; it needs `CIRRUS_VAULT_URL`. Reads each secret. Any error is reported with `reportError`, and `RunBuild` returns. |
| `performStep` | 463-580 | Creates the step's log uploader. Defers its `Finalize` unless the step is a background script. Creates the `CIRRUS_ENV` file and runs the instruction: `Exit` makes `RunBuild` return at once; a background script joins `backgroundCommands`. Then merges the `CIRRUS_ENV` file, marked sensitive iff `CIRRUS_ENV_SENSITIVE` was set. |
| Update batcher | not under `src/` | Coalesces results by name, keeps the buffer when a flush fails, and keeps an append-only history (spec section 4.5). |
| `CloneRepository` | 643-848, 856-877 | The body of a Clone step: a PR fetch with the merge-ref fallback and one retry, or a single-ref clone with a wipe-and-retry; then the hard reset to the target commit and the submodule updates. |
| `getScriptEnvironment` | 427-461, 240-248 | Chooses `CIRRUS_WORKING_DIR`: the server's value, the pre-created directory, the shared `cirrus-ci-build` when `os.Stat` finds it missing or the run resumes, else a fresh `cirrus-task-<id>`. `RunBuild` creates the directory after the Vault unboxing. |
| `CreateFile` | 610-641 | Writes a file step's content. |
| Heartbeat, `transportSettings`, `dialWithTimeout` | `part_000` 168-237 | The connection to the controller. |

Concurrency in `RunBuild` comes from three actors that run beside the control thread:

- the caller of `RunBuild`, which may cancel its `ctx`;
- background scripts, which exit on their own;
- the controller, whose RPCs fail or succeed.

## 2. The modules

| Module | Models |
|---|---|
| `Commands.tla` | Commands and their behaviours. `ShouldRun` translates lines 306-308. `BoundedCommandsBounds` is the scan of `BoundedCommands`, written as a recursive function `scan[i]` over the list. `SliceInRange` is Go's check on `commands[left:right]`. |
| `UpdateBatcher.tla` | The batcher, from spec section 4.5: `Queue` replaces the buffered result of the same name in place, `FlushedBuffer` and `Transmitted` are the two outcomes of a flush. |
| `Executor.tla` | `RunBuild` and `performStep` as one state machine (section 2.1 below). |
| `MCExecutor.tla` | Model values for command names and the small input sets of the runs. |
| `MCBoundedCommands.tla` | `BoundedCommands` against the definition of spec section 4.1, over every list of up to 4 commands with repeated names. |
| `ExecutorProofs.tla` | TLAPS proofs about `Executor` (section 5). |
| `ExecutorHistoryProofs.tla` | TLAPS proofs about the results `RunBuild` queues and sends, and about its error returns (section 5). |
| `ExecutorRefinementProofs.tla` | TLAPS proof that `RunBuild` refines `ControllerView` (section 5). |
| `ControllerView.tla` | The abstract specification: what the controller observes of a run (section 2.2). |
| `CloneRepository.tla` | `CloneRepository` and `retryableCloneError` (section 2.3). |
| `CloneRepositoryProofs.tla` | TLAPS proofs about `CloneRepository` (section 5). |
| `WorkingDir.tla` | `getScriptEnvironment` and the directory steps of `RunBuild`, for several agents on one host (section 2.4). |

### 2.1 Executor: state and actions

**State.** The control thread's position is `phase`, which takes the values `fetch`, `unbox`, `loop`, `step`, `cleanup`, `report` and `done`. The other variables are the Go variables of `RunBuild`:

- `numRetries`, `response`, `failedAtLeastOnce`;
- `env`, `sensitive`, `pending`: the environment, its sensitive values, and the keys the unboxing loop has not yet visited;
- `vaultClient`;
- `lo`, `hi`, `pc`: the slice bounds and the loop index;
- `buffer`, `history`, `sent`: the batcher, and what `ReportCommandUpdates` delivered;
- `registry`: `backgroundCommands`, as step positions;
- `proc`, `opened`, `fin`: per step position, the state of the process it launched, whether its uploader was created, and how often that uploader was finalised;
- `ci`: the cleanup loop's index;
- `attempts`: the `ReportAgentFinished` attempts made;
- `finished`, `agentError`.

**Actions.** Each action is a whole path through the code between two points where the control thread waits:

- *Fetch:* `FetchFailed`, `FetchCancelled`, `TokenMismatch` (panic, recovered and reported by main), `FetchSucceeded`.
- *Unbox:* `UnboxSkip`, `UnboxParseError`, `UnboxClientError`, `UnboxReadError`, `UnboxValue`, one per key, in any order (Go map order).
- *Prepare:* `PrepareNoCommands` (the return at 266-268), `PreparePanic` (`commands[left:right]` out of range), `PrepareLoop`.
- *Loop:* `SkipCommand`, and `StartCommand`, which queues and flushes `EXECUTING`; the flush fails whenever `ctx` is cancelled.
- *Steps:* `StepUploaderFailed`, `StepCirrusEnvFailed`, `StepExit`, `StepForeground`, `StepBackgroundStarted`, `StepBackgroundFailed`. Each includes the deferred `Finalize`, the `CIRRUS_ENV` merge and the queueing of the result that `RunBuild` does after `performStep`.
- *Teardown:* `LoopDone` (the final flush), `CleanupBackground` (one iteration of the loop at 353-361), `CollectMetrics`, `ReportFinished`, `ReportFailed`.
- *Environment:* `CancelContext` and `BackgroundExits(i)`. `CancelContext` stands for a caller cancelling the `ctx` that `RunBuild(ctx)` in `executor.go` takes. Nothing in `part_000` cancels it. Its `main` calls `NewExecutor` and `RunBuild()` with signatures that differ from `executor.go`'s, and its signal goroutine only reports the signal with `ReportAgentSignal` (111-125).

**Abstractions.** The foreground instructions (script, clone, file, cache, artifacts, terminal) are reduced to their success flag. Names, values and keys are model values or short strings, and a `VAULT[...]` value is either well formed (`Box`) or not (`BadBox`). The 3-second metrics timeout is not modelled: `CollectMetrics` always returns, whichever branch of the `select` is taken.

### 2.2 ControllerView and the refinement

`ControllerView` states what `RunBuild` promises the controller (spec sections 4.1, 4.5 and 5). Its state is the command list handed out (`cmds`), the results delivered (`reported`) and whether `ReportAgentFinished` arrived (`done`). Its actions:

- `Assign` hands out the commands once;
- `Deliver` appends a non-empty batch of results;
- `Finish` records `ReportAgentFinished`.

Every delivered sequence is `WellFormed`: results come in command order, and each command's statuses are one of its `Lifecycles`. A lifecycle is EXECUTING then COMPLETED or FAILED, or SKIPPED. An EXECUTING the batcher coalesced away may be missing. Nothing is delivered after `Finish`.

The spec's wording of this promise is `LifecycleWellFormed`. It projects each command's statuses out of the sequence with `SelectSeq` and compares them with `Lifecycles`. `Deliver` uses the pairwise form `WellFormedIn` instead, which the provers can reason about without induction over the sequence:

- every result names a command of the list;
- of two results, the earlier one's command comes no later in the list;
- two results of the same command are its EXECUTING and then its end (COMPLETED or FAILED).

A third result of one command would have to be both EXECUTING and an end, so the two forms agree on sequences of results. `MCExecutor` states this as the `ASSUME WellFormedFormsAgree`. TLC evaluates it on every run over every command list of the runs' sizes and every sequence of up to 3 results.

`Executor` instantiates it as `View` with `cmds <- response.commands`, `reported <- sent` and `done <- finished`. The run `loop` checks `ViewSpec == View!Spec`, so every step of `RunBuild` is a step of `ControllerView` or a stutter.

### 2.3 CloneRepository: state and actions

Commits of the cloned branch are numbered along its first-parent line. The target `CIRRUS_CHANGE_IN_REPO` is commit 0, and each push after the task was created adds one; a tag stays at the target. `Fetched(ref, d)` is the set of commits a fetch or clone with depth `d` brings: the `d` newest, one fewer for the merge ref, whose tip is the synthetic merge commit. An error is the class the code tells apart: a retryable message (`timeout`), another network error, a missing ref, `context.Canceled`, `ErrRepositoryAlreadyExists`, an object not found, a local failure.

The actions follow the code's calls, each with its error return:

- `Certs` (670-684);
- PR mode: `InitRepo` (688-701), `FetchHead` (703-713), `FetchMerge` (713-721, with `MergeDepth`), `FetchRetry` (722-732), `Checkout` (734-747);
- tag and branch mode: `Clone` (748-768) and `CloneRetry` (770-783, which wipes the directory and calls `PlainClone` without `ctx`);
- then `Head` (786-790), `Reset` (792-810), `Submodules` and `Update` (812-838).

The environment acts through `Push` (a push to the branch) and `CancelContext`. The call outcomes are `NetOutcomes`: a call that takes `ctx` returns `canceled` once it is cancelled. Only the agent is fair (`WF_vars(Agent)`): every call returns, because the HTTP client has a 900 s timeout.

### 2.4 WorkingDir: state and actions

Several agents share the host's temporary directory, each with one task. A later run of an agent is the agent restarted with `--command-from` on the same task, which `RunBuild` treats as a resumption. The state is:

- per agent: where its directory comes from (`src`), its position (`pc`), its run count and the directory of its current run;
- the directories on disk (`exists`);
- which agent created `cirrus-ci-build` (`owner`).

The actions:

- `GetScriptEnvironment(a)` (427-461): the choice of directory, including the `os.Stat` check (`DefaultFree`) and `os.MkdirTemp`, which creates the directory or fails with an empty path;
- `EnterWorkingDir(a)` (240-248): `EnsureFolderExists` and `Chdir`;
- `RunEnds(a)`.

`Concurrent` says whether agents may run at the same time. That is a deployment choice, not a property of the code (`MayStart`).

## 3. Runs

`PROJECT.json` lists every run.

| Run | Instance | Checks |
|---|---|---|
| `loop` | 3 commands of every behaviour and kind, one fetch attempt | `TypeOK`; `ExecutionBehaviourTable` (every result is SKIPPED exactly when section 8's table says so, given the failures earlier in `history`); `LogFinalizedAtMostOnce`; `FinishedOnlyAfterCleanup`; `ErrorExcludesProgress`; `ViewSpec` (`RunBuild` refines `ControllerView`). About 4.5 M states, one minute. |
| `resume` | foreground lists, every flag pair, one fetch retry | `ResumptionWindow`: only the window `[from, to)` is evaluated, and all of it. |
| `secrets` | 2 commands; environments over `{Unset, plain, Box, BadBox}` for `x`, `CIRRUS_VAULT_URL` and `CIRRUS_ENV_SENSITIVE` | `UnboxedBeforeSteps`. |
| `liveness` | 2 commands | `FetchedLeadsToReturn` under `WF_vars(Agent)`. |
| `bounded_commands` | all lists of ≤ 4 commands over 3 names | `BoundsAgreeWithSpec`. |
| `clone` | the three modes, depths 0, 1, 2, up to two pushes, one submodule, every set of PR refs | `NoSelfInflictedFailure`: the step returns false only on an error of its environment, or on a target the branch has moved past by the clone depth. |
| `workdir_seq` | three agents one after another, one run each, every source of the directory | `OwnDefaultDir`: a task never works in a `cirrus-ci-build` that another task created. |

Violation runs: each shows a disagreement between the code and the spec (`findings` in `PROJECT.json`).

| Run | Property violated | What TLC finds |
|---|---|---|
| `exit_teardown` | `BackgroundTeardownOnReturn` | The Exit return at 326-328 skips the whole teardown. |
| `exec_order` | `ExecutingTransmittedFirst` | An ignored flush failure and coalescing lose the EXECUTING report (320). |
| `env_sensitive` | `CirrusEnvSelfSensitive` | The sensitivity flag is read before the step's own file is merged (572). |
| `clone_cancel` | `CancelStopsGitIO` | After a retryable clone error the context is cancelled, and the `PlainClone` retry (774) still succeeds. |
| `workdir_race` | `OwnDefaultDir` | Two concurrent agents both find `cirrus-ci-build` missing (450) and both work in it. |

**Mutants.** Every property of a passing run has a mutant in `PROJECT.json`. A mutant is an operator defined just before the definition it replaces, changed the way a plausible bug would change it:

- `retry.Attempts(3)`;
- a failed step that does not set `failedAtLeastOnce`;
- a deferred `Finalize` for background scripts;
- a cleanup loop that stops one entry early;
- a token mismatch that is only logged;
- a skipped parse error;
- a cleanup loop that waits for scripts instead of killing them;
- the two off-by-one bounds of `BoundedCommands`;
- a batcher that keeps its buffer after a successful flush (`loop`, `ViewSpec`);
- a merge-ref fallback without the depth bump, and a clone retry that does not wipe the directory (`clone`);
- a default directory taken without the `os.Stat` check (`workdir_seq`).

TLC finds each mutant's property violated.

**Bounds.** Three commands are enough for every ordering of a background script, a failing step and an Exit, and for a window with commands before, inside and after it. The larger `loop` instance covers all three kinds and behaviours at once. Two commands are enough for the secrets and liveness questions, whose interest lies in the environment and the teardown. For the clone, depth 1 is where the merge-ref bump matters: without it the merge ref at depth 1 brings only the merge commit. Depth 2 adds a shallow depth that survives one push and not two, and depth 0 a full clone. With pushes, `Reset` runs: the tip of a branch clone is no longer the target. One submodule covers both the loop and its exit. For the working directory, three agents give a task that finds the default taken by an earlier one and a third that finds it taken too. The passing run has one run per task: with a resumption, `OwnDefaultDir` fails (hazard at 451). One fetch retry exercises the `Retry` path; the unbounded retry loop only adds copies of the fetch state.

**Fairness.** Only the control thread is fair (`WF_vars(Agent)`): every RPC and step it waits on ends, by gRPC deadlines and the task timeout. Cancellation and the exit of a background script are unfair: a script may run forever, and a task may never be cancelled. `FetchedLeadsToReturn` starts after the fetch, because the fetch loop retries forever unless the controller answers or `ctx` ends.

## 4. Findings

See `findings` in `PROJECT.json`. In short:

- an Exit instruction skips the teardown of background scripts;
- `CIRRUS_ENV_SENSITIVE` set by a step does not mask that step's own variables, contrary to spec section 9;
- a failed flush of EXECUTING loses that report under coalescing;
- the clone retry ignores the step context, so cancellation does not stop it;
- two agents on one host can share `cirrus-ci-build`.

Other behaviours the model exhibits are listed as `hazards` in `PROJECT.json`, with a note on each, rather than as runs:

- a background step whose `CIRRUS_ENV` cannot be created leaks its log uploader (492);
- `BoundedCommands` panics when `--command-from` comes after `--command-to` (424);
- a task with no commands reports neither its end nor an error (266);
- a resumed run moves into `cirrus-ci-build` from its own directory (451);
- a shallow clone fails when the branch moved on by the clone depth since the task was created, although no call failed (805). `NoSelfInflictedFailure` allows exactly this failure and no other of the agent's own.

## 5. Proofs (`ExecutorProofs.tla`, `ExecutorHistoryProofs.tla`, `ExecutorRefinementProofs.tla`, `CloneRepositoryProofs.tla`)

The proofs cover every value of the constants: any number of commands (`MaxCmds`), names, values and retries. They assume only the `ASSUME`s of `Commands` and `Executor`: `NoName` is not a name, `MaxCmds` and `MaxFetchRetries` are naturals, the Vault secret is a value, and the launch token is a token.

- **`TypeCorrect`: `Spec => []TypeOK`.** `TypeOK` is not inductive by itself. A step reads `commands[pc + 1]`, the cleanup loop reads `registry[ci]`, and the report loop counts attempts. The strengthening `TypeInv` therefore adds:
  - `pc ≤ hi ≤ Len(commands) ≤ MaxCmds` in the loop;
  - `pc < hi` in a step;
  - no report attempts before the report phase, and fewer than 2 during it;
  - `ci ≥ 1` in cleanup.
- **`LogsFinalizedOnce`: `Spec => []LogFinalizedAtMostOnce`**, and **`FinishedAfterCleanup`: `Spec => []FinishedOnlyAfterCleanup`.** Both rest on `FinInv`, which has three parts:
  - `TypeInv`.
  - `RegInv`:
    - the registry lists, in increasing order, positions at or below `pc` whose uploaders were created;
    - every launched process is registered;
    - `TornDown(j)`: an entry below `ci` has been killed or had exited and was finalised once, and an entry at or above `ci` is running or exited and not finalised.
  - `PhaseInv`:
    - before the loop the registry is empty and `pc = 0`;
    - up to the cleanup, `ci = 0` and every position above `pc` is untouched;
    - in the report phase, and once a report was attempted, `ci > Len(registry)`.

TLC checked each strengthening as an invariant of the `loop` and `resume` instances before it was proved. The lemmas are:

- on the batcher's operators: `QueueType` and `FlushType`;
- on the current command: `CurrentType`;
- on each group of actions that touches the registry: `RegInvFrame`, `AdvanceFrame`, `OpenFrame`;
- `NextTypeInv` and `NextFinInv`, with one step per action.

**`CloneRepositoryProofs`** holds for every set of depths and every number of submodules and pushes, under the `ASSUME`s of `CloneRepository`: the depths are naturals, and the bounds are naturals.

- **`TypeCorrect`: `Spec => []TypeOK`.** `TypeOK` is inductive here. Its proof is split in two. `FlagsOK` holds the Boolean and string fields, and Zenon proves its step. `DataOK` holds the numbers and sets, and SMT proves its step. Neither prover does both parts at once.
- **`NoSelfInflictedFailureHolds`: `Spec => []NoSelfInflictedFailure`.** The step returns false only on an error of its environment, or with `objectNotFound` once the branch has moved on by at least the clone depth (`BranchMovedOn`). The inductive invariant `CloneInv` adds three conjuncts to `TypeOK`:
  - the fetch depth is `DepthFor(ref)`: the task's depth, one more for the merge ref when shallow (the bump at 717-720);
  - the head-ref and merge-ref fetches start from the head ref's options;
  - from the checkout on, the target commit is fetched, or the branch has moved on.

  The lemma `ChangeFetched` says that, until the branch has moved on, a fetch of any ref with `DepthFor(ref)` brings commit 0. `MovedOnStays` says that pushes only add up. Together they rule out an `objectNotFound` of the agent's own making.

**`ExecutorHistoryProofs`** uses the same assumptions as `ExecutorProofs`.

- **`BehaviourTableHolds`: `Spec => []ExecutionBehaviourTable`**, and **`ErrorExcludesProgressHolds`: `Spec => []ErrorExcludesProgress`.**
  - `ExecutionBehaviourTable` is not inductive. It judges each queued result against the failures in the results before it. `RunBuild` decides instead with the running flag `failedAtLeastOnce`, which is set from the response at line 301 and updated at 331.
  - The inductive invariant `HistInv` ties the two together. It adds these conjuncts to `TypeInv`:
    - in the loop, `failedAtLeastOnce` is exactly "the response failed, or a queued result is FAILED";
    - in a step state, the current command was allowed to run;
    - the response's command names are unique, since results name their command by name;
    - before the loop, nothing is queued, sent or opened;
    - an error report ends `RunBuild`.
  - The table is stated over an arbitrary history as `TableHolds(h, cmds, rf)`. The lemmas `FailedAppend` and `TableAppend` say what appending one result does. `PosUnique` says that, with unique names, a command's name finds its position. `TableIsShouldRun` says the table and `ShouldRun` agree. `QueueStep` and `FinishStep` cover every step that queues a result.
  - TLC checked `HistInv` as an invariant of the `loop`, `resume` and `secrets` instances before it was proved.
- **`DeliveriesOnlyGrow`: `Spec => DeliveredOnlyGrows`.** This action property covers the part of `ViewSpec`'s `Deliver` and `Finish` steps that is within the provers' reach. What the controller has received is only ever extended: a failed flush sends nothing, and a successful one appends the whole buffer. Nothing is sent after `ReportAgentFinished`.
  - It rests on `ReportedInv`: `finished` implies that `RunBuild` has returned.
  - The lemma `TransmittedExtends` is about the batcher's `Transmitted`. `DoneStable`, `FinishedFrame` and `SentFrame` say which steps can change the phase, `finished` and `sent`.

**`ExecutorRefinementProofs`** uses the same assumptions as `ExecutorProofs`.

- **`ViewRefinement`: `Spec => ViewSpec`.** `RunBuild` implements `ControllerView` under the mapping `cmds <- response.commands`, `reported <- sent`, `done <- finished`. The proof has three steps:
  - initial states map to `View!Init`, since `NoResponse` has no commands;
  - every step of `Next` maps to a step of `View!Next` or a stutter (`ViewStep`);
  - the steps are combined with `StreamInvariant` by PTL.
- The steps map as follows:
  - `FetchSucceeded` and `TokenMismatch` are `Assign`;
  - a successful flush in `StartCommand` or `LoopDone` is `Deliver`;
  - `ReportFinished` is `Finish`;
  - every other step leaves the view unchanged (`ResponseFrame`, `SentFrame`, `FinishedFrame`). A failed flush, or `LoopDone` with an empty buffer, sends nothing.
- `Deliver` asks that what the controller holds after a flush is well formed. A flush can carry any part of what was queued, so the inductive invariant `StreamInv` says this of the whole stream `sent \o buffer`. It adds to `HistInv` and `ReportedInv`:
  - before the response, the command list is empty, and before the loop the buffer is empty;
  - the stream is `WellFormedIn` the response's commands;
  - in the loop, the stream holds only commands up to the one the loop has reached (`Reached`);
  - in a step state, the current command has at most its EXECUTING result in the stream.

  The last two conjuncts are what keep the stream well formed when the batcher coalesces or appends the next result.
- The lemmas cover three things:
  - the stream under the batcher's operators: `StreamAppend`, `StreamReplace`, `QueueElements`, `QueueNonEmpty`, and `FlushKeepsStream`, which says a flush, failed or not, leaves the stream as it was;
  - well-formedness: `WellFormedEmpty`, `WellFormedPrefix` (what was sent is a prefix of the stream), `WellFormedAppend`, `WellFormedReplace` and `QueueWellFormed`;
  - the steps that queue a result: `QueueStreamStep`.
- TLC checked `StreamInv` as an invariant of the `loop`, `resume` and `secrets` instances before it was proved.

**What stays with TLC:**

- **Liveness** (`FetchedLeadsToReturn`), which needs fairness and `ENABLED`.
- **`OwnDefaultDir`.** It fails whenever two agents on a host run at once (`workdir_race`) or a task resumes after a run in its own `cirrus-task` directory, and the code prevents neither. A theorem under those two hypotheses would say nothing about the code, so the property is only model-checked: it holds on the `workdir_seq` instance, and the `workdir_race` run shows the violation.
- **What `BoundedCommandsBounds` computes**, which would need induction over its recursive function. So `BoundsAgreeWithSpec` and `ResumptionWindow` are model-checked only.
- **`UnboxedBeforeSteps`.** A proof would have to assume that no value a step can write to its `CIRRUS_ENV` file looks like a boxed `VAULT[...]` value. The code does not justify that assumption, so the property is only checked on the `secrets` instance, where the values a step can write (`Vals`) include no boxed value.
- **That the spec's `SelectSeq` wording of well-formedness (`LifecycleWellFormed`) agrees with the pairwise `WellFormedIn` the proof uses.** That would need induction over sequences. TLC checks it through `WellFormedFormsAgree` for up to 3 results (section 2.2).

## 6. Not modelled, and why

- **Agent main (`part_000`).** The dial loop retries `grpc.Dial` every second until it succeeds. The stop hook and the deferred `recover` report to the controller, and the heartbeat calls `ResetConnectBackoff` (229) on a transient failure. All of these act on the gRPC connection's internal state, which is not under `src/`. Their effect on `RunBuild` is already in `Executor`: cancellation (`CancelContext`) and RPCs that fail or succeed. The heartbeat shares no state with `RunBuild`.
- **`transportSettings` (204-215).** A pure choice between TLS and insecure credentials by the `https://` prefix. No property tells its outcomes apart.
- **`CreateFile`, and the parts not under `src/`.** `CreateFile` is pure I/O. The process runner, log uploader, metrics, terminal, HTTP cache and environment appear only through the outcomes they give the steps. Inside `CloneRepository`, go-git is abstracted to the commits a fetch brings and the error classes the code tells apart.
- **The OS, `CIRRUS_OS` and `CIRRUS_ARCH` defaults of `getScriptEnvironment`.** No property reads them.
