----------------------------- MODULE MCExecutor -----------------------------
(***************************************************************************)
(* Small instances of Executor for TLC.  Command names are given in list  *)
(* order (the i-th command of a list is named NameSeq[i]): names only     *)
(* matter through equality with --command-from and --command-to, which    *)
(* range over every name and the empty name, so every relative position  *)
(* of the two bounds is still reached.                                     *)
(***************************************************************************)
EXTENDS Executor

CONSTANTS n1, n2, n3, x

MCNames == {n1, n2, n3}
NameSeq == <<n1, n2, n3>>
MCVars == {x}

\* Every list of at most MaxCmds commands over the given behaviours and kinds.
ListsOf(bs, ks) ==
    UNION {{[i \in 1..n |-> [name |-> NameSeq[i], behaviour |-> b[i],
                             kind |-> k[i]]] :
              b \in [1..n -> bs], k \in [1..n -> ks]} :
           n \in 0..MaxCmds}

\* The control-loop instance: every command list, an environment without
\* variables and steps that write nothing to CIRRUS_ENV.
LoopCommandLists == ListsOf(Behaviours, Kinds)
LoopEnvs == {[k \in Keys |-> Unset]}
LoopMasks == {{}}
LoopFiles == {[k \in {} |-> "p"]}

\* The control-loop instance runs the whole list; the resumption instance
\* takes every launch flag, with foreground commands.
NoFlags == {NoName}
ResumeCommandLists == ListsOf(Behaviours, {"Foreground"})

\* The environment instance: foreground commands, every response
\* environment over one user variable, and CIRRUS_ENV files that set the
\* variable and/or CIRRUS_ENV_SENSITIVE.
EnvCommandLists == ListsOf(Behaviours, {"Foreground"})
EnvEnvs == [Keys -> {Unset, "p", Box, BadBox}]
EnvMasks == {{}, {"q"}}
EnvFiles == {[k \in {} |-> "p"], [k \in {x} |-> "q"],
             [k \in {x, SensitiveKey} |-> "q"], [k \in {SensitiveKey} |-> "p"]}

\* Every sequence of up to three results over the instance's names.
ResultSeqs == UNION {[1..n -> ResultRecords] : n \in 0..3}

(* The controller's promise in the spec's words (each command's statuses  *)
(* form a lifecycle, through SelectSeq) and in the pairwise form ViewSpec *)
(* uses agree on every short sequence of results and every command order. *)
ASSUME WellFormedFormsAgree ==
    \A cs \in ListsOf({"ALWAYS"}, {"Foreground"}), seq \in ResultSeqs :
        View!LifecycleWellFormed(cs, seq) <=> View!WellFormedIn(cs, seq)
=============================================================================
