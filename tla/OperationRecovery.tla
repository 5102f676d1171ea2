-------------------------- MODULE OperationRecovery -------------------------
(***************************************************************************)
(* Planning the recovery of an interrupted operation (core/app/            *)
(* recovery_operations.go): decideRecovery looks at one snapshot of the    *)
(* operation and either lists blockers or picks a mode, and the plan it    *)
(* stores carries the snapshot's digest.  The plan is then approved,       *)
(* enabled and applied like any other; its one step is recoveryHandler.    *)
(***************************************************************************)
EXTENDS OperationStore

CONSTANTS
    Target,    \* Target[r]: the plan whose operation r recovers
    NoSnapshot \* the parameters of a recovery that is not planned yet

ASSUME TargetAssumption == Target \in [Recoveries -> AllPlans]

VARIABLE
    recovery   \* recovery[r]: the step parameters of r once planned

Snapshots ==
    [op : OpStates, plan : PlanStates,
     steps : UNION {[StepIds(p) -> StepStates] : p \in AllPlans},
     locks : SUBSET (LockKeys \X LockRows),
     lapsed : BOOLEAN]

RecoveryModes == {"abort-interrupted", "close-partial", "release-stale-locks"}

RecoveryTypeOK ==
    recovery \in [Recoveries -> [snapshot : Snapshots, mode : RecoveryModes] \cup {NoSnapshot}]

RecoveryInit == recovery = [r \in Recoveries |-> NoSnapshot]

Repositories(p) == {Steps[p][i].repo : i \in StepIds(p)}

\* Mistake: an expired lease is taken as proof that the owner is gone.
Automatable_IgnoresOwner(s, p, alive) ==
    /\ s.locks # {}
    /\ s.lapsed
    /\ \A l \in s.locks : l[1][1] = "repository" /\ l[1][2] \in Repositories(p)
    /\ \A i \in DOMAIN s.steps : s.steps[i] \notin {"applying", "compensating"}

\* Mistake: only operations none of whose steps ran are recovered.
Automatable_PendingOnly(s, p, alive) ==
    /\ s.locks # {}
    /\ s.lapsed
    /\ \A l \in s.locks : l[2].owner \notin alive
    /\ \A i \in DOMAIN s.steps : s.steps[i] = "pending"

\* decideRecovery without blockers: alive is the set of live processes.
\* Locks of another device are never recoverable; all locks here are of one.
Automatable(s, p, alive) ==
    /\ s.locks # {}
    /\ s.lapsed
    /\ \A l \in s.locks : /\ l[1][1] = "repository"
                          /\ l[1][2] \in Repositories(p)
                          /\ l[2].owner \notin alive
    /\ \A i \in DOMAIN s.steps : s.steps[i] \notin {"applying", "compensating"}

\* Mistake: every interrupted operation is closed as partial.
RecoveryMode_AlwaysPartial(s) ==
    IF s.op # "applying" THEN "release-stale-locks" ELSE "close-partial"

RecoveryMode(s) ==
    IF s.op # "applying" THEN "release-stale-locks"
    ELSE IF \E i \in DOMAIN s.steps : s.steps[i] \in {"succeeded", "failed", "compensated"}
         THEN "close-partial" ELSE "abort-interrupted"

\* recoveryOperationContext: the recovered plan touches exactly one repository.
\* inspectOperationIntegrity is left out: it compares identities and digests of
\* plan, steps and events that no action changes.
CanPlanOperationRecovery(r, alive) ==
    /\ recovery[r] = NoSnapshot
    /\ opStatus[Target[r]] # "none"
    /\ Cardinality(Repositories(Target[r])) = 1
    /\ Automatable(RecoverySnapshot(Target[r]), Target[r], alive)

PlanOperationRecovery(r, alive) ==
    /\ CanPlanOperationRecovery(r, alive)
    /\ recovery' = [recovery EXCEPT ![r] =
          [snapshot |-> RecoverySnapshot(Target[r]),
           mode |-> RecoveryMode(RecoverySnapshot(Target[r]))]]
    /\ CanPutPlan(r)
    /\ PutPlan(r)

\* recoveryObserver.Observe: the observation's worktree fingerprint is the
\* current snapshot digest.
SnapshotUnchanged(r) == RecoverySnapshot(Target[r]) = recovery[r].snapshot

\* recoveryHandler.Apply, which starts by parsing the step's parameters.
CanApplyRecovery(r) ==
    /\ recovery[r] # NoSnapshot
    /\ CanRecoverOperation(Target[r], recovery[r].snapshot, recovery[r].mode)

ApplyRecovery(r) == RecoverOperation(Target[r], recovery[r].mode)

\* recoveryHandler.Verify, without the comparison of the evidence returned by
\* the handler: VerifyStep may fail whatever this says.
VerifyRecovery(r) ==
    /\ LocksOf(Target[r]) = {}
    /\ CASE recovery[r].mode = "abort-interrupted" ->
              opStatus[Target[r]] = "failed" /\ planStatus[Target[r]] = "failed"
         [] recovery[r].mode = "close-partial" ->
              opStatus[Target[r]] = "partial" /\ planStatus[Target[r]] = "partial"
         [] OTHER -> opStatus[Target[r]] # "applying"
=============================================================================
