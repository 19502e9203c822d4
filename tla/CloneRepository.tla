--------------------------- MODULE CloneRepository ---------------------------
(***************************************************************************)
(* Executor.CloneRepository and retryableCloneError: the built-in Git     *)
(* clone of a Clone step.  In PR mode it initialises a repository, fetches *)
(* refs/pull/<n>/head, falls back to refs/pull/<n>/merge with the depth   *)
(* bumped by one when the head ref is missing, retries a retryable error  *)
(* once and checks out CIRRUS_CHANGE_IN_REPO.  In tag and branch mode it  *)
(* clones a single ref and, on a retryable error, wipes the working       *)
(* directory and clones again.  Then it hard-resets to the target commit  *)
(* when HEAD is elsewhere and updates the submodules.                      *)
(*                                                                         *)
(* Commits of the cloned branch are numbered along its first-parent line: *)
(* the target CIRRUS_CHANGE_IN_REPO is commit 0, and every push made to   *)
(* the branch (or to the pull request) after the task was created moves   *)
(* its tip one commit further.  A tag always points at the target.        *)
(* An error is the class of its message that the code tells apart.        *)
(***************************************************************************)
EXTENDS Integers, FiniteSets

CONSTANTS
    Depths,         \* values CIRRUS_CLONE_DEPTH parses to (0: not shallow)
    MaxPushes,      \* bound on pushes racing the clone
    MaxSubmodules   \* bound on the submodules of the repository

ASSUME DepthsAssumption == Depths \subseteq Nat /\ Depths # {}
ASSUME MaxPushesAssumption == MaxPushes \in Nat
ASSUME MaxSubmodulesAssumption == MaxSubmodules \in Nat

VARIABLES
    pc,            \* the next step of CloneRepository
    mode,          \* "pr" (CIRRUS_PR set), "tag" (CIRRUS_TAG set) or "branch"
    depth,         \* clone_depth
    cloneModules,  \* CIRRUS_CLONE_SUBMODULES == "true"
    refs,          \* the pull-request refs the server has
    opts,          \* the ref and Depth of the fetch or clone options
    pushes,        \* pushes to the branch since the task was created
    cancelled,     \* the step context is cancelled
    err,           \* the error of the last call
    fetched,       \* commits of the branch the local repository holds
    head,          \* the commit HEAD points at
    dir,           \* the working directory: "empty", "partial" or "repo"
    subs,          \* submodules still to update
    result         \* the returned bool, once pc = "done"

vars == <<pc, mode, depth, cloneModules, refs, opts, pushes, cancelled, err,
          fetched, head, dir, subs, result>>

Change == 0                \* CIRRUS_CHANGE_IN_REPO
NoCommit == -1             \* HEAD of a freshly initialised repository
Commits == 0..MaxPushes
Modes == {"pr", "tag", "branch"}
PullRefs == {"head", "merge"}
Refs == PullRefs \cup {"tag", "branch"}
Pcs == {"certs", "init", "fetchHead", "fetchMerge", "fetchRetry", "checkout",
        "clone", "cloneRetry", "head", "reset", "submodules", "update", "done"}

\* The tip of the ref a clone in this mode reads.
Tip == IF mode = "tag" THEN Change ELSE pushes

(***************************************************************************)
(* Errors.  "timeout" stands for every message retryableCloneError        *)
(* accepts (timeout, tls, connection, authentication, not found), "other" *)
(* for the rest the network can return.  "missingRef" is go-git's         *)
(* "couldn't find remote ref", "canceled" the context's error, "exists"   *)
(* ErrRepositoryAlreadyExists, "objectNotFound" a checkout or reset to a  *)
(* commit the repository does not hold, "local" a failing local call.     *)
(***************************************************************************)
NetErrors == {"timeout", "other"}
Errors == NetErrors \cup {"none", "missingRef", "canceled", "exists",
                          "objectNotFound", "local", "certs"}
\* The errors that come from outside the agent.
EnvErrors == NetErrors \cup {"missingRef", "canceled", "local", "certs"}

retryableCloneError(e) == e = "timeout"

\* Outcomes of a network call; one that takes ctx fails once it is cancelled.
NetOutcomes(ctxAware) ==
    IF ctxAware /\ cancelled THEN {"canceled"} ELSE {"none"} \cup NetErrors

\* Outcomes of FetchContext of a pull-request ref.
FetchOutcomes(ref) ==
    IF ref \notin refs
    THEN {e \in NetOutcomes(TRUE) : e # "none"} \cup
         (IF cancelled THEN {} ELSE {"missingRef"})
    ELSE NetOutcomes(TRUE)

\* The commits of the branch a fetch of ref with Depth d brings: all of
\* them when d = 0, else the d newest commits of the ref.  The merge ref's
\* tip is the synthetic merge commit, whose first parent is the branch tip.
Fetched(ref, d) ==
    IF d = 0 THEN 0..Tip
    ELSE {c \in 0..Tip : Tip - c < d - (IF ref = "merge" THEN 1 ELSE 0)}

\* Return false with error e.
Fail(e) ==
    /\ pc' = "done"
    /\ result' = FALSE
    /\ err' = e

Succeed ==
    /\ pc' = "done"
    /\ result' = TRUE
    /\ UNCHANGED err

TypeOK ==
    /\ pc \in Pcs
    /\ mode \in Modes
    /\ depth \in Depths
    /\ cloneModules \in BOOLEAN
    /\ refs \subseteq PullRefs
    /\ opts \in [ref : Refs, depth : Nat]
    /\ pushes \in 0..MaxPushes
    /\ cancelled \in BOOLEAN
    /\ err \in Errors
    /\ fetched \subseteq Commits
    /\ head \in Commits \cup {NoCommit}
    /\ dir \in {"empty", "partial", "repo"}
    /\ subs \in 0..MaxSubmodules
    /\ result \in BOOLEAN
-----------------------------------------------------------------------------
\* The environment variables are read; the working directory exists empty.
Init ==
    /\ pc = "certs"
    /\ mode \in Modes
    /\ depth \in Depths
    /\ cloneModules \in BOOLEAN
    /\ refs \in {r \in SUBSET PullRefs : r # {}}
    /\ opts = [ref |-> IF mode = "tag" THEN "tag" ELSE "branch", depth |-> depth]
    /\ pushes = 0
    /\ cancelled = FALSE
    /\ err = "none"
    /\ fetched = {}
    /\ head = NoCommit
    /\ dir = "empty"
    /\ subs = 0
    /\ result = FALSE

\* gocertifi.CACerts and the installation of the HTTP transports.
Certs ==
    /\ pc = "certs"
    /\ \/ /\ pc' = IF mode = "pr" THEN "init" ELSE "clone"
          /\ UNCHANGED <<result, err>>
       \/ Fail("certs")
    /\ UNCHANGED <<mode, depth, cloneModules, refs, opts, pushes, cancelled,
                   fetched, head, dir, subs>>

\* PlainInit and CreateRemote of origin.
InitRepo ==
    /\ pc = "init"
    /\ \/ /\ pc' = "fetchHead"
          /\ dir' = "repo"
          /\ opts' = [ref |-> "head", depth |-> depth]
          /\ UNCHANGED <<result, err>>
       \/ /\ Fail("local")
          /\ UNCHANGED <<dir, opts>>
    /\ UNCHANGED <<mode, depth, cloneModules, refs, pushes, cancelled,
                   fetched, head, subs>>

\* After a fetch with options o returned e: go on to the checkout, retry
\* the fetch once when the error is retryable and allowed, or fail.
AfterFetch(o, e, mayRetry) ==
    /\ fetched' = IF e = "none" THEN Fetched(o.ref, o.depth) ELSE fetched
    /\ \/ /\ e = "none"
          /\ pc' = "checkout"
          /\ err' = e
          /\ UNCHANGED result
       \/ /\ e # "none" /\ mayRetry /\ retryableCloneError(e)
          /\ pc' = "fetchRetry"
          /\ err' = e
          /\ UNCHANGED result
       \/ /\ e # "none" /\ ~(mayRetry /\ retryableCloneError(e))
          /\ Fail(e)

\* FetchContext of +refs/pull/<n>/head; "couldn't find remote ref" leads
\* to the merge-ref fallback.
FetchHead ==
    /\ pc = "fetchHead"
    /\ \E e \in FetchOutcomes(opts.ref) :
          \/ /\ e = "missingRef"
             /\ pc' = "fetchMerge"
             /\ err' = e
                /\ UNCHANGED <<fetched, result>>
          \/ /\ e # "missingRef"
             /\ AfterFetch(opts, e, TRUE)
    /\ UNCHANGED <<mode, depth, cloneModules, refs, opts, pushes, cancelled,
                   head, dir, subs>>

\* Mutant: the fallback keeps the head ref's depth.
MergeDepthNoBump(d) == opts.depth

\* Fallback: fetch +refs/pull/<n>/merge, one commit deeper when shallow.
MergeDepth(d) == IF d > 0 THEN d + 1 ELSE opts.depth

FetchMerge ==
    /\ pc = "fetchMerge"
    /\ LET o == [ref |-> "merge", depth |-> MergeDepth(depth)] IN
          /\ opts' = o
          /\ \E e \in FetchOutcomes(o.ref) : AfterFetch(o, e, TRUE)
    /\ UNCHANGED <<mode, depth, cloneModules, refs, pushes, cancelled,
                   head, dir, subs>>

\* "Re-trying to fetch...": the same options once more.
FetchRetry ==
    /\ pc = "fetchRetry"
    /\ \E e \in FetchOutcomes(opts.ref) : AfterFetch(opts, e, FALSE)
    /\ UNCHANGED <<mode, depth, cloneModules, refs, opts, pushes, cancelled,
                   head, dir, subs>>

\* Worktree and Checkout of the target hash.
Checkout ==
    /\ pc = "checkout"
    /\ \/ /\ Change \in fetched
          /\ head' = Change
          /\ pc' = "head"
          /\ UNCHANGED <<result, err>>
       \/ /\ Change \notin fetched
          /\ Fail("objectNotFound")
          /\ UNCHANGED head
       \/ /\ Fail("local")
          /\ UNCHANGED head
    /\ UNCHANGED <<mode, depth, cloneModules, refs, opts, pushes, cancelled,
                   fetched, dir, subs>>

\* A clone that returned e leaves the repository or, on a retryable error,
\* goes to the retry; a failed clone may leave files in the directory.
AfterClone(e, mayRetry) ==
    \/ /\ e = "none"
       /\ fetched' = Fetched(opts.ref, opts.depth)
       /\ head' = Tip
       /\ dir' = "repo"
       /\ pc' = "head"
       /\ err' = e
       /\ UNCHANGED result
    \/ /\ e # "none" /\ mayRetry /\ retryableCloneError(e)
       /\ dir' \in {"empty", "partial"}
       /\ pc' = "cloneRetry"
       /\ err' = e
       /\ UNCHANGED <<fetched, head, result>>
    \/ /\ e # "none" /\ ~(mayRetry /\ retryableCloneError(e))
       /\ dir' \in {"empty", "partial"}
       /\ Fail(e)
       /\ UNCHANGED <<fetched, head>>

\* PlainCloneContext of refs/tags/<tag> or refs/heads/<branch>.
Clone ==
    /\ pc = "clone"
    /\ \E e \in NetOutcomes(TRUE) : AfterClone(e, TRUE)
    /\ UNCHANGED <<mode, depth, cloneModules, refs, opts, pushes, cancelled,
                   subs>>

\* Mutant: the retry clones into the directory as the first try left it.
WipedSkipped(d) == d

\* The working directory after os.RemoveAll and EnsureFolderExists.
Wiped(d) == "empty"

\* The retry: wipe the directory, then PlainClone, which takes no context.
CloneRetry ==
    /\ pc = "cloneRetry"
    /\ \E e \in IF Wiped(dir) = "empty" THEN NetOutcomes(FALSE) ELSE {"exists"} :
          AfterClone(e, FALSE)
    /\ UNCHANGED <<mode, depth, cloneModules, refs, opts, pushes, cancelled,
                   subs>>

\* repo.Head(): on the target go on, else hard-reset to it.
Head ==
    /\ pc = "head"
    /\ \/ /\ head = Change
          /\ IF cloneModules THEN pc' = "submodules" /\ UNCHANGED result
                             ELSE Succeed
          /\ UNCHANGED err
       \/ /\ head # Change
          /\ pc' = "reset"
          /\ UNCHANGED <<result, err>>
       \/ Fail("local")
    /\ UNCHANGED <<mode, depth, cloneModules, refs, opts, pushes, cancelled,
                   fetched, head, dir, subs>>

\* Worktree and Reset(HardReset) to the target.
Reset ==
    /\ pc = "reset"
    /\ \/ /\ Change \in fetched
          /\ head' = Change
          /\ IF cloneModules THEN pc' = "submodules" /\ UNCHANGED result
                             ELSE Succeed
          /\ UNCHANGED err
       \/ /\ Change \notin fetched
          /\ Fail("objectNotFound")
          /\ UNCHANGED head
       \/ /\ Fail("local")
          /\ UNCHANGED head
    /\ UNCHANGED <<mode, depth, cloneModules, refs, opts, pushes, cancelled,
                   fetched, dir, subs>>

\* Worktree and Submodules: the list of submodules to update.
Submodules ==
    /\ pc = "submodules"
    /\ \/ /\ subs' \in 0..MaxSubmodules
          /\ pc' = "update"
          /\ UNCHANGED <<result, err>>
       \/ /\ Fail("local")
          /\ UNCHANGED subs
    /\ UNCHANGED <<mode, depth, cloneModules, refs, opts, pushes, cancelled,
                   fetched, head, dir>>

\* UpdateContext of the next submodule; after the last one, success.
Update ==
    /\ pc = "update"
    /\ \/ /\ subs = 0
          /\ Succeed
          /\ UNCHANGED subs
       \/ /\ subs > 0
          /\ \E e \in NetOutcomes(TRUE) :
                \/ /\ e = "none"
                   /\ subs' = subs - 1
                   /\ err' = e
                   /\ UNCHANGED <<pc, result>>
                \/ /\ e # "none"
                   /\ Fail(e)
                   /\ UNCHANGED subs
    /\ UNCHANGED <<mode, depth, cloneModules, refs, opts, pushes, cancelled,
                   fetched, head, dir>>
-----------------------------------------------------------------------------
\* The environment: a push to the branch, the step context cancelled.
Push ==
    /\ pc # "done"
    /\ pushes < MaxPushes
    /\ pushes' = pushes + 1
    /\ UNCHANGED <<pc, mode, depth, cloneModules, refs, opts, cancelled, err,
                   fetched, head, dir, subs, result>>

CancelContext ==
    /\ pc # "done"
    /\ ~cancelled
    /\ cancelled' = TRUE
    /\ UNCHANGED <<pc, mode, depth, cloneModules, refs, opts, pushes, err,
                   fetched, head, dir, subs, result>>

\* CloneRepository has returned.
Returned ==
    /\ pc = "done"
    /\ UNCHANGED vars

Agent ==
    \/ Certs \/ InitRepo \/ FetchHead \/ FetchMerge \/ FetchRetry \/ Checkout
    \/ Clone \/ CloneRetry \/ Head \/ Reset \/ Submodules \/ Update

Next == Agent \/ Push \/ CancelContext \/ Returned

\* Every call of the clone returns (the HTTP client has a 900 s timeout).
Spec == Init /\ [][Next]_vars /\ WF_vars(Agent)
-----------------------------------------------------------------------------
(***************************************************************************)
(* Properties.                                                              *)
(***************************************************************************)

\* The branch has moved on by at least CIRRUS_CLONE_DEPTH commits since the
\* task was created, so a shallow clone of its tip cannot hold the target.
BranchMovedOn == depth > 0 /\ pushes >= depth

\* A Clone step fails only because of its environment (the network, the
\* server, the disk, a cancellation), or because the target is missing
\* after the branch moved on by the clone depth; never because the depth,
\* the ref or the directory CloneRepository itself chose loses the target.
NoSelfInflictedFailure ==
    pc = "done" /\ ~result =>
        \/ err \in EnvErrors
        \/ err = "objectNotFound" /\ BranchMovedOn

\* A network call returned: a fetch, a clone or a submodule update.
GitCallReturned ==
    /\ \/ pc \in {"fetchHead", "fetchMerge", "fetchRetry", "clone", "cloneRetry"}
       \/ pc = "update" /\ subs > 0
    /\ (pc' # pc \/ subs' # subs)

\* Cancellation of the step context reaches every Git network call: no
\* call completes successfully once the context is cancelled (spec: the
\* cancellation propagates "through it to all I/O").
CancelStopsGitIO == [][cancelled /\ GitCallReturned => err' # "none"]_vars
=============================================================================
