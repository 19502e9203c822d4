------------------------------ MODULE WorkingDir ------------------------------
(***************************************************************************)
(* The working directory of a task: getScriptEnvironment chooses          *)
(* CIRRUS_WORKING_DIR (the server's value, else the persistent worker's   *)
(* pre-created directory, else the shared default cirrus-ci-build when it *)
(* does not exist yet or when the run resumes a task, else a fresh        *)
(* cirrus-task-<id> directory), and RunBuild, after unboxing the Vault    *)
(* values, creates the directory and changes into it.                      *)
(*                                                                         *)
(* Several agents share the host's temporary directory.  Each runs one    *)
(* task; a later run of the same agent is an agent restarted on its task  *)
(* with --command-from, which RunBuild treats as a resumption.             *)
(***************************************************************************)
EXTENDS Naturals

CONSTANTS
    Agents,       \* the agents on the host, one task each
    Concurrent,   \* agents may run at the same time
    MaxRuns       \* bound on the runs of one task (1: no resumption)

ASSUME AgentsAssumption == Agents # {}
ASSUME ConcurrentAssumption == Concurrent \in BOOLEAN
ASSUME MaxRunsAssumption == MaxRuns \in Nat \ {0}

VARIABLES
    src,      \* where the task's directory comes from: "server", "pre", "none"
    pc,       \* "idle", "chosen" (environment built), "running", "done"
    runs,     \* runs of the task started so far
    wd,       \* CIRRUS_WORKING_DIR of the current run
    exists,   \* the directories on disk
    owner     \* the agent that created the default directory

vars == <<src, pc, runs, wd, exists, owner>>

NoAgent == "nobody"
\* A directory is a path kind and, for per-task paths, the task's agent.
Default == <<"cirrus-ci-build", NoAgent>>
Unique(a) == <<"cirrus-task", a>>
PreCreated(a) == <<"pre-created", a>>
Server == <<"server", NoAgent>>
Cwd == <<"", NoAgent>>      \* the path os.MkdirTemp returns when it fails
NoDir == <<"none", NoAgent>>
Dirs == {Default, Server, Cwd} \cup {Unique(a) : a \in Agents}
                               \cup {PreCreated(a) : a \in Agents}

TypeOK ==
    /\ src \in [Agents -> {"server", "pre", "none"}]
    /\ pc \in [Agents -> {"idle", "chosen", "running", "done"}]
    /\ runs \in [Agents -> 0..MaxRuns]
    /\ wd \in [Agents -> Dirs \cup {NoDir}]
    /\ exists \subseteq Dirs
    /\ owner \in Agents \cup {NoAgent}
-----------------------------------------------------------------------------
Init ==
    /\ src \in [Agents -> {"server", "pre", "none"}]
    /\ pc = [a \in Agents |-> "idle"]
    /\ runs = [a \in Agents |-> 0]
    /\ wd = [a \in Agents |-> NoDir]
    /\ exists = {PreCreated(a) : a \in Agents}
    /\ owner = NoAgent

\* Whether the agent may start now.
MayStart(a) == Concurrent \/ \A b \in Agents \ {a} : pc[b] \in {"idle", "done"}

\* Mutant: the default directory is taken without looking at the disk.
DefaultFreeUnchecked(resumed) == TRUE

\* os.Stat reports the default directory missing, or the run resumes.
DefaultFree(resumed) == Default \notin exists \/ resumed

\* getScriptEnvironment, run by RunBuild once the task's commands are
\* fetched: the directory the run works in (MkdirTemp may fail, leaving "").
GetScriptEnvironment(a) ==
    /\ pc[a] \in {"idle", "done"}
    /\ runs[a] < MaxRuns
    /\ MayStart(a)
    /\ LET resumed == runs[a] > 0 IN
       \E d \in CASE src[a] = "server" -> {Server}
                  [] src[a] = "pre" -> {PreCreated(a)}
                  [] DefaultFree(resumed) -> {Default}
                  [] OTHER -> {Unique(a), Cwd} :
          /\ wd' = [wd EXCEPT ![a] = d]
          /\ exists' = IF d = Unique(a) THEN exists \cup {d} ELSE exists
    /\ pc' = [pc EXCEPT ![a] = "chosen"]
    /\ runs' = [runs EXCEPT ![a] = @ + 1]
    /\ UNCHANGED <<src, owner>>

\* RunBuild after unboxing: EnsureFolderExists and Chdir.
EnterWorkingDir(a) ==
    /\ pc[a] = "chosen"
    /\ pc' = [pc EXCEPT ![a] = "running"]
    /\ exists' = exists \cup {wd[a]}
    /\ owner' = IF wd[a] = Default /\ Default \notin exists THEN a ELSE owner
    /\ UNCHANGED <<src, runs, wd>>

\* The run ends: RunBuild returns, or an unboxing error returns before the
\* directory is entered, or the agent is stopped.
RunEnds(a) ==
    /\ pc[a] \in {"chosen", "running"}
    /\ pc' = [pc EXCEPT ![a] = "done"]
    /\ UNCHANGED <<src, runs, wd, exists, owner>>

\* Every task has run as often as it may.
AllDone ==
    /\ \A a \in Agents : pc[a] = "done" /\ runs[a] = MaxRuns
    /\ UNCHANGED vars

Next ==
    \/ \E a \in Agents : GetScriptEnvironment(a) \/ EnterWorkingDir(a) \/ RunEnds(a)
    \/ AllDone

Spec == Init /\ [][Next]_vars
-----------------------------------------------------------------------------
(***************************************************************************)
(* Properties.                                                              *)
(***************************************************************************)

\* The working directory is owned by the task (spec, shared-resource
\* policy): a task that works in the shared default directory is the one
\* that created it, never a task that found it left by another.
OwnDefaultDir ==
    \A a \in Agents : pc[a] = "running" /\ wd[a] = Default => owner = a

=============================================================================
