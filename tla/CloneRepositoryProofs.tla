------------------------ MODULE CloneRepositoryProofs ------------------------
(***************************************************************************)
(* Proofs about CloneRepository for every value of the constants.          *)
(***************************************************************************)
EXTENDS CloneRepository, TLAPS

USE DepthsAssumption, MaxPushesAssumption, MaxSubmodulesAssumption

\* The fetches and clones the model makes, by the options they use.
LEMMA FetchedType ==
    ASSUME NEW r, NEW d \in Nat, pushes \in 0..MaxPushes
    PROVE  Fetched(r, d) \subseteq Commits
BY DEF Fetched, Tip, Commits, Change

(***************************************************************************)
(* TypeOK split into the Boolean flags, which Zenon handles, and the rest, *)
(* which needs arithmetic for SMT.                                         *)
(***************************************************************************)
FlagsOK == cloneModules \in BOOLEAN /\ cancelled \in BOOLEAN /\ result \in BOOLEAN

DataOK ==
    /\ pc \in Pcs
    /\ mode \in Modes
    /\ depth \in Depths
    /\ refs \subseteq PullRefs
    /\ opts \in [ref : Refs, depth : Nat]
    /\ pushes \in 0..MaxPushes
    /\ err \in Errors
    /\ fetched \subseteq Commits
    /\ head \in Commits \cup {NoCommit}
    /\ dir \in {"empty", "partial", "repo"}
    /\ subs \in 0..MaxSubmodules

LEMMA TypeSplit == TypeOK <=> FlagsOK /\ DataOK
BY Zenon DEF TypeOK, FlagsOK, DataOK

LEMMA TypeInit == Init => TypeOK
<1>1. Init => FlagsOK
  BY Zenon DEF Init, FlagsOK
<1>2. Init => DataOK
  BY DEF Init, DataOK, Modes, Refs, PullRefs, Pcs, Errors, Commits, NoCommit
<1>3. QED
  BY <1>1, <1>2, TypeSplit

\* Every step sets a flag to a Boolean or leaves it alone.
LEMMA FlagsStep == FlagsOK /\ [Next]_vars => FlagsOK'
<1> SUFFICES ASSUME FlagsOK, [Next]_vars PROVE FlagsOK'
  OBVIOUS
<1>1. CASE Agent
  BY <1>1, Zenon DEF Agent, Certs, InitRepo, FetchHead, FetchMerge, FetchRetry,
     AfterFetch, Checkout, Clone, CloneRetry, AfterClone, Head, Reset,
     Submodules, Update, Fail, Succeed, FlagsOK
<1>2. CASE Push \/ CancelContext \/ Returned \/ UNCHANGED vars
  BY <1>2, Zenon DEF Push, CancelContext, Returned, vars, FlagsOK
<1>3. QED
  BY <1>1, <1>2 DEF Next

LEMMA DataUnchanged == ASSUME DataOK, UNCHANGED vars PROVE DataOK'
BY DEF DataOK, vars

LEMMA DataStep == TypeOK /\ [Next]_vars => DataOK'
<1> SUFFICES ASSUME TypeOK, [Next]_vars PROVE DataOK'
  OBVIOUS
<1> USE DEF TypeOK, DataOK, Pcs, Errors, NetErrors, EnvErrors, Refs, PullRefs,
           Modes, NoCommit
<1>1. CASE Certs
  BY <1>1 DEF Certs, Fail
<1>2. CASE InitRepo
  BY <1>2 DEF InitRepo, Fail
<1>3. ASSUME NEW o \in [ref : Refs, depth : Nat], NEW e \in Errors,
             NEW m \in BOOLEAN, AfterFetch(o, e, m)
      PROVE  /\ fetched' \subseteq Commits
             /\ pc' \in Pcs /\ err' \in Errors
  BY <1>3, FetchedType DEF AfterFetch, Fail
<1>4. \A ref : FetchOutcomes(ref) \subseteq Errors
  BY DEF FetchOutcomes, NetOutcomes
<1>5. CASE FetchHead
  BY <1>5, <1>3, <1>4 DEF FetchHead
<1>6. CASE FetchMerge
  <2>1. MergeDepth(depth) \in Nat
    BY DEF MergeDepth
  <2>2. QED
    BY <1>6, <1>3, <1>4, <2>1 DEF FetchMerge
<1>7. CASE FetchRetry
  BY <1>7, <1>3, <1>4 DEF FetchRetry
<1>8. CASE Checkout
  BY <1>8 DEF Checkout, Fail, Commits, Change
<1>9. ASSUME NEW e \in Errors, NEW m \in BOOLEAN, AfterClone(e, m)
      PROVE  /\ fetched' \subseteq Commits /\ head' \in Commits \cup {NoCommit}
             /\ dir' \in {"empty", "partial", "repo"}
             /\ pc' \in Pcs /\ err' \in Errors
  <2>1. Tip \in Commits
    BY DEF Tip, Commits, Change
  <2>2. Fetched(opts.ref, opts.depth) \subseteq Commits
    BY FetchedType
  <2>3. QED
    BY <1>9, <2>1, <2>2 DEF AfterClone, Fail
<1>10. CASE Clone
  BY <1>10, <1>9 DEF Clone, NetOutcomes
<1>11. CASE CloneRetry
  BY <1>11, <1>9 DEF CloneRetry, NetOutcomes
<1>12. CASE Head
  BY <1>12 DEF Head, Fail, Succeed
<1>13. CASE Reset
  BY <1>13 DEF Reset, Fail, Succeed, Commits, Change
<1>14. CASE Submodules
  BY <1>14 DEF Submodules, Fail
<1>15. CASE Update
  BY <1>15 DEF Update, Fail, Succeed, NetOutcomes
<1>16. CASE Push
  BY <1>16 DEF Push
<1>18. CASE CancelContext
  BY <1>18 DEF CancelContext
<1>19. CASE Returned \/ UNCHANGED vars
  <2>1. UNCHANGED vars
    BY <1>19 DEF Returned
  <2>2. QED
    BY <2>1, TypeSplit, DataUnchanged
<1>17. QED
  BY <1>1, <1>2, <1>5, <1>6, <1>7, <1>8, <1>10, <1>11, <1>12, <1>13,
     <1>14, <1>15, <1>16, <1>18, <1>19 DEF Next, Agent

LEMMA TypeStep == TypeOK /\ [Next]_vars => TypeOK'
BY FlagsStep, DataStep, TypeSplit, Zenon DEF TypeOK, FlagsOK, DataOK

THEOREM TypeCorrect == Spec => []TypeOK
BY TypeInit, TypeStep, PTL DEF Spec
-----------------------------------------------------------------------------
(***************************************************************************)
(* A Clone step fails only because of its environment or because the      *)
(* branch outran the clone depth.  NoSelfInflictedFailure is not          *)
(* inductive: a checkout or a reset fails with objectNotFound unless the  *)
(* fetch brought the target.  It does while the branch has not moved on   *)
(* by the clone depth, because every fetch reaches CIRRUS_CLONE_DEPTH     *)
(* commits into the branch: the head ref and a clone fetch with that      *)
(* depth, and the merge-ref fallback one deeper for its merge commit.     *)
(***************************************************************************)
\* The fetch depth the code uses for a ref.
DepthFor(r) == IF r = "merge" /\ depth > 0 THEN depth + 1 ELSE depth

CloneInv ==
    /\ TypeOK
    /\ opts.depth = DepthFor(opts.ref)
    /\ pc \in {"fetchHead", "fetchMerge"} => opts.ref = "head"
    /\ pc \in {"checkout", "head", "reset"} => Change \in fetched \/ BranchMovedOn
    /\ NoSelfInflictedFailure

\* Until the branch has moved on by the clone depth, a fetch of any ref
\* with the depth the code uses for it brings the target commit.
LEMMA ChangeFetched ==
    ASSUME NEW r, depth \in Nat, pushes \in Nat, ~BranchMovedOn
    PROVE  Change \in Fetched(r, DepthFor(r))
BY DEF Fetched, Tip, Change, DepthFor, BranchMovedOn

LEMMA InvInit == Init => CloneInv
BY TypeInit DEF Init, CloneInv, NoSelfInflictedFailure, DepthFor

\* Pushes only add up, so once the branch has moved on it stays so.
LEMMA MovedOnStays ==
    ASSUME TypeOK, TypeOK', depth' = depth, pushes' >= pushes, BranchMovedOn
    PROVE  BranchMovedOn'
BY DEF TypeOK, BranchMovedOn

LEMMA InvStep == CloneInv /\ [Next]_vars => CloneInv'
<1> SUFFICES ASSUME CloneInv, [Next]_vars PROVE CloneInv'
  OBVIOUS
<1>1. TypeOK'
  BY TypeStep DEF CloneInv
<1>2. depth \in Nat /\ pushes \in Nat
  BY DEF CloneInv, TypeOK
<1> USE DEF CloneInv, NoSelfInflictedFailure, EnvErrors, NetErrors, DepthFor
<1>3. CASE Certs
  BY <1>1, <1>3 DEF Certs, Fail
<1>4. CASE InitRepo
  BY <1>1, <1>4 DEF InitRepo, Fail, DepthFor
<1>5. ASSUME NEW o, NEW e, NEW m, AfterFetch(o, e, m), o.depth = DepthFor(o.ref),
             e \in NetErrors \cup {"none", "missingRef", "canceled"},
             UNCHANGED <<depth, pushes>>
      PROVE  /\ pc' \in {"checkout", "fetchRetry", "done"}
             /\ pc' \in {"checkout", "head", "reset"} => Change \in fetched' \/ BranchMovedOn'
             /\ pc' = "done" /\ ~result' => err' \in EnvErrors
  <2>1. CASE BranchMovedOn
    BY <1>5, <2>1 DEF AfterFetch, Fail, BranchMovedOn
  <2>2. CASE ~BranchMovedOn
    <3>1. Change \in Fetched(o.ref, o.depth)
      BY <1>2, <1>5, <2>2, ChangeFetched
    <3>2. QED
      BY <1>5, <3>1 DEF AfterFetch, Fail
  <2>3. QED
    BY <2>1, <2>2
<1>6. \A ref : FetchOutcomes(ref) \subseteq NetErrors \cup {"none", "missingRef", "canceled"}
  BY DEF FetchOutcomes, NetOutcomes
<1>7. CASE FetchHead
  <2>1. opts.ref = "head" /\ opts.depth = DepthFor(opts.ref)
    BY <1>7 DEF FetchHead
  <2>2. QED
    BY <1>1, <1>5, <1>6, <1>7, <2>1 DEF FetchHead, Fail
<1>8. CASE FetchMerge
  <2>1. opts.depth = depth /\ depth \in Nat
    BY <1>8 DEF FetchMerge, TypeOK, DepthFor
  <2>2. MergeDepth(depth) = DepthFor("merge")
    BY <2>1 DEF MergeDepth, DepthFor
  <2>3. PICK e \in FetchOutcomes("merge") :
             /\ opts' = [ref |-> "merge", depth |-> MergeDepth(depth)]
             /\ AfterFetch(opts', e, TRUE)
    BY <1>8 DEF FetchMerge
  <2>4. UNCHANGED <<depth, pushes>>
    BY <1>8 DEF FetchMerge
  <2>5. QED
    BY <1>1, <1>5, <1>6, <2>2, <2>3, <2>4
<1>9. CASE FetchRetry
  BY <1>1, <1>5, <1>6, <1>9 DEF FetchRetry
<1>10. CASE Checkout
  BY <1>1, <1>10 DEF Checkout, Fail, BranchMovedOn
<1>11. ASSUME NEW e, NEW m, AfterClone(e, m),
              e \in NetErrors \cup {"none", "canceled"},
              UNCHANGED <<opts, depth, pushes>>
       PROVE  /\ pc' \in {"head", "cloneRetry", "done"}
              /\ pc' \in {"checkout", "head", "reset"} => Change \in fetched' \/ BranchMovedOn'
              /\ pc' = "done" /\ ~result' => err' \in EnvErrors
  <2>1. CASE BranchMovedOn
    BY <1>11, <2>1 DEF AfterClone, Fail, BranchMovedOn
  <2>2. CASE ~BranchMovedOn
    <3>1. Change \in Fetched(opts.ref, opts.depth)
      BY <1>2, <2>2, ChangeFetched
    <3>2. QED
      BY <1>11, <3>1 DEF AfterClone, Fail
  <2>3. QED
    BY <2>1, <2>2
<1>12. CASE Clone
  BY <1>1, <1>11, <1>12 DEF Clone, NetOutcomes
<1>13. CASE CloneRetry
  BY <1>1, <1>11, <1>13 DEF CloneRetry, NetOutcomes, Wiped
<1>14. CASE Head
  BY <1>1, <1>14 DEF Head, Fail, Succeed, BranchMovedOn
<1>15. CASE Reset
  BY <1>1, <1>15 DEF Reset, Fail, Succeed, BranchMovedOn
<1>16. CASE Submodules
  BY <1>1, <1>16 DEF Submodules, Fail, BranchMovedOn
<1>17. CASE Update
  BY <1>1, <1>17 DEF Update, Fail, Succeed, NetOutcomes, BranchMovedOn
<1>18. CASE Push
  <2>1. BranchMovedOn => BranchMovedOn'
    BY <1>1, <1>2, <1>18, MovedOnStays DEF Push
  <2>2. UNCHANGED <<pc, opts, depth, fetched, result, err>>
    BY <1>18 DEF Push
  <2>3. QED
    BY <1>1, <2>1, <2>2
<1>19. CASE CancelContext
  BY <1>1, <1>19 DEF CancelContext, BranchMovedOn, DepthFor
<1>20. CASE Returned \/ UNCHANGED vars
  <2>1. UNCHANGED vars
    BY <1>20 DEF Returned
  <2>2. QED
    BY <1>1, <2>1 DEF vars, BranchMovedOn, DepthFor
<1>21. QED
  BY <1>3, <1>4, <1>7, <1>8, <1>9, <1>10, <1>12, <1>13, <1>14, <1>15,
     <1>16, <1>17, <1>18, <1>19, <1>20 DEF Next, Agent

\* For every set of depths and every bound on pushes and submodules,
\* CloneRepository returns false only on an error of the network, the
\* server, the disk or a cancellation, or on a target the branch has moved
\* past by the clone depth: the merge-ref depth bump and the wipe before
\* the clone retry never lose the target commit.
THEOREM NoSelfInflictedFailureHolds == Spec => []NoSelfInflictedFailure
<1>1. CloneInv => NoSelfInflictedFailure
  BY DEF CloneInv
<1>2. QED
  BY <1>1, InvInit, InvStep, PTL DEF Spec
=============================================================================
