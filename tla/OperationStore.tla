--------------------------- MODULE OperationStore ---------------------------
(***************************************************************************)
(* The durable side of an operation: the tables plans, plan_enablements,   *)
(* operations, operation_steps and locks of the SQLite state store, and    *)
(* the store calls of core/state that change them.  Every call is one SQL  *)
(* transaction or one SQL statement, hence one atomic change; what it      *)
(* requires of the stored rows is its Can... operator.                     *)
(*                                                                         *)
(* operations.plan_id is UNIQUE, so an operation is named by its plan.     *)
(* Timestamps are abstracted to what the code compares: age says which     *)
(* deadlines of a plan have passed, lapsed that every lease of an          *)
(* operation's locks has.  The journal's events are not kept: no guard of  *)
(* apply or recovery reads one other than through the snapshot digest,     *)
(* which changes with the statuses kept here.                              *)
(***************************************************************************)
EXTENDS Integers, Sequences, FiniteSets

CONSTANTS
    Plans,       \* ordinary plans
    Recoveries,  \* plans that recover an operation
    Procs,       \* gds invocations that call Apply, each with its own PID
    Steps,       \* Steps[p]: the immutable steps of plan p, in order
    NoLock       \* an absent row of table locks

VARIABLES
    planStatus,  \* plans.status, "none" before PutPlan
    enablement,  \* plan_enablements.status, "none" before EnableSigned
    age,         \* deadlines passed: 0 none, 1 the enablement's, 2 the plan's
    opStatus,    \* operations.status, "none" before the operation starts
    stepStatus,  \* operation_steps.status
    locks,       \* table locks: [op, owner, token] or NoLock for every scope
    lapsed,      \* every lease of the operation's locks has expired
    fencing,     \* counters['lock-fencing-token']
    recovered    \* operations.result_json was written by a recovery

storeVars == <<planStatus, enablement, age, opStatus, stepStatus, locks, lapsed,
               fencing, recovered>>

AllPlans == Plans \cup Recoveries

ASSUME PlansAssumption == AllPlans # {}

StepIds(p) == DOMAIN Steps[p]

PlanStates == {"none", "planned", "approved", "applying",
               "succeeded", "failed", "partial", "stale"}
OpStates == {"none", "applying", "succeeded", "failed", "partial", "blocked"}
StepStates == {"none", "pending", "applying", "succeeded", "failed", "blocked",
               "compensating", "compensated"}

\* NewDefaultEngine locks with scope "repository", recovery engines with
\* "operation-recovery".
lockScope(p) == IF p \in Recoveries THEN "operation-recovery" ELSE "repository"

\* One lock for each declared write target of each step.
planWriteSet(p) ==
    UNION {{<<lockScope(p), Steps[p][i].repo, t>> : t \in Steps[p][i].writes} :
              i \in StepIds(p)}

LockKeys == UNION {planWriteSet(p) : p \in AllPlans}

RequiresApproval(p) == \E i \in StepIds(p) : Steps[p][i].approval

LockRows == [op : AllPlans, owner : Procs, token : Nat]

ASSUME NoLockAssumption == NoLock \notin LockRows

LocksOf(p) == {k \in LockKeys : locks[k] # NoLock /\ locks[k].op = p}

StoreInit ==
    /\ planStatus = [p \in AllPlans |-> "none"]
    /\ enablement = [p \in AllPlans |-> "none"]
    /\ age = [p \in AllPlans |-> 0]
    /\ opStatus = [p \in AllPlans |-> "none"]
    /\ stepStatus = [p \in AllPlans |-> [i \in StepIds(p) |-> "none"]]
    /\ locks = [k \in LockKeys |-> NoLock]
    /\ lapsed = [p \in AllPlans |-> FALSE]
    /\ fencing = 0
    /\ recovered = [p \in AllPlans |-> FALSE]

StoreTypeOK ==
    /\ planStatus \in [AllPlans -> PlanStates]
    /\ enablement \in [AllPlans -> {"none", "active", "consumed"}]
    /\ age \in [AllPlans -> 0..2]
    /\ opStatus \in [AllPlans -> OpStates]
    /\ DOMAIN stepStatus = AllPlans
    /\ \A p \in AllPlans : stepStatus[p] \in [StepIds(p) -> StepStates]
    /\ locks \in [LockKeys -> LockRows \cup {NoLock}]
    /\ lapsed \in [AllPlans -> BOOLEAN]
    /\ fencing \in Nat
    /\ recovered \in [AllPlans -> BOOLEAN]

\* A second PutPlan of the same plan finds the identical row and changes
\* nothing.
CanPutPlan(p) == planStatus[p] = "none"

PutPlan(p) ==
    /\ planStatus' = [planStatus EXCEPT ![p] = "planned"]
    /\ UNCHANGED <<enablement, age, opStatus, stepStatus, locks, lapsed, fencing, recovered>>

\* plan_enablements.plan_id is UNIQUE: one enablement per plan, ever.
CanCreatePlanEnablement(p) ==
    /\ planStatus[p] = "planned"
    /\ enablement[p] = "none"
    /\ age[p] = 0

CreatePlanEnablement(p) ==
    /\ enablement' = [enablement EXCEPT ![p] = "active"]
    /\ UNCHANGED <<planStatus, age, opStatus, stepStatus, locks, lapsed, fencing, recovered>>

\* Mistake: a transition without the compare-and-swap.
CanTransitionPlan_Unconditional(p, expected) == TRUE

CanTransitionPlan(p, expected) == planStatus[p] = expected

TransitionPlan(p, next) ==
    /\ planStatus' = [planStatus EXCEPT ![p] = next]
    /\ UNCHANGED <<enablement, age, opStatus, stepStatus, locks, lapsed, fencing, recovered>>

\* Mistake: a start may take over locks whose leases have expired.
CanStartApprovedOperation_StealsExpired(p, signed, now) ==
    /\ planStatus[p] = "planned"
    /\ signed => enablement[p] = "active" /\ now = 0
    /\ \A k \in planWriteSet(p) : locks[k] # NoLock => lapsed[locks[k].op]
    /\ opStatus[p] = "none"

\* now is the age the caller read before the call: the enablement's expiry is
\* compared with the caller's clock reading, not with the time of the commit.
CanStartApprovedOperation(p, signed, now) ==
    /\ planStatus[p] = "planned"
    /\ signed => enablement[p] = "active" /\ now = 0
    /\ \A k \in planWriteSet(p) : locks[k] = NoLock
    /\ opStatus[p] = "none"

\* The code draws one fencing token per lock; the whole set shares one here.
StartApprovedOperation(p, owner, signed) ==
    /\ planStatus' = [planStatus EXCEPT ![p] = "approved"]
    /\ enablement' = IF signed THEN [enablement EXCEPT ![p] = "consumed"] ELSE enablement
    /\ opStatus' = [opStatus EXCEPT ![p] = "applying"]
    /\ stepStatus' = [stepStatus EXCEPT ![p] = [i \in StepIds(p) |-> "pending"]]
    /\ fencing' = fencing + 1
    /\ locks' = [k \in LockKeys |->
                    IF k \in planWriteSet(p)
                    THEN [op |-> p, owner |-> owner, token |-> fencing + 1]
                    ELSE locks[k]]
    /\ lapsed' = [lapsed EXCEPT ![p] = FALSE]
    /\ UNCHANGED <<age, recovered>>

CanTransitionStep(p, i, expected) == stepStatus[p][i] = expected

TransitionStep(p, i, next) ==
    /\ stepStatus' = [stepStatus EXCEPT ![p][i] = next]
    /\ UNCHANGED <<planStatus, enablement, age, opStatus, locks, lapsed, fencing, recovered>>

\* The caller still holds every lock of its set under its own token.  A lapsed
\* lease does not matter to HeartbeatLock, ReleaseLock or FinalizeOperation.
HoldsExactLocks(p, owner, token) ==
    \A k \in planWriteSet(p) : locks[k] = [op |-> p, owner |-> owner, token |-> token]

HeartbeatLocks(p) ==
    /\ lapsed' = [lapsed EXCEPT ![p] = FALSE]
    /\ UNCHANGED <<planStatus, enablement, age, opStatus, stepStatus, locks, fencing, recovered>>

\* Mistake: a step that was applying is closed like one that never began.
AfterMoves_BlocksApplying(p, moves) ==
    [i \in StepIds(p) |-> IF moves[i] = "keep" THEN stepStatus[p][i] ELSE "blocked"]

\* Steps after the transitions: moves[i] names the status a transition
\* expects, "keep" a step without one.
AfterMoves(p, moves) ==
    [i \in StepIds(p) |-> CASE moves[i] = "pending"  -> "blocked"
                            [] moves[i] = "applying" -> "failed"
                            [] OTHER -> stepStatus[p][i]]

validFinalizationPairs ==
    {<<"succeeded", "succeeded">>, <<"failed", "failed">>, <<"partial", "partial">>,
     <<"blocked", "failed">>, <<"blocked", "stale">>}

\* validateTerminalStepsTx
TerminalStepsAllow(status, after) ==
    /\ \A i \in DOMAIN after : after[i] \notin {"pending", "applying", "compensating"}
    /\ status = "succeeded" => \A i \in DOMAIN after : after[i] = "succeeded"
    /\ status \in {"failed", "blocked"} => \A i \in DOMAIN after : after[i] # "succeeded"

\* fin: the OperationFinalization, with fields op and plan (terminal statuses),
\* expect (ExpectedPlanStatus) and moves (StepTransitions).
CanFinalizeOperation(p, owner, token, fin) ==
    /\ <<fin.op, fin.plan>> \in validFinalizationPairs
    /\ \A i \in StepIds(p) : fin.moves[i] # "keep" => stepStatus[p][i] = fin.moves[i]
    /\ TerminalStepsAllow(fin.op, AfterMoves(p, fin.moves))
    /\ opStatus[p] = "applying"
    /\ planStatus[p] = fin.expect
    /\ LocksOf(p) = planWriteSet(p)
    /\ HoldsExactLocks(p, owner, token)

\* Mistake: only locks whose leases are live are released.
ReleaseLocks_OnlyLive(p) ==
    [k \in LockKeys |-> IF k \in LocksOf(p) /\ ~lapsed[p] THEN NoLock ELSE locks[k]]

ReleaseLocks(p) == [k \in LockKeys |-> IF k \in LocksOf(p) THEN NoLock ELSE locks[k]]

FinalizeOperation(p, fin) ==
    /\ stepStatus' = [stepStatus EXCEPT ![p] = AfterMoves(p, fin.moves)]
    /\ opStatus' = [opStatus EXCEPT ![p] = fin.op]
    /\ planStatus' = [planStatus EXCEPT ![p] = fin.plan]
    /\ locks' = ReleaseLocks(p)
    /\ UNCHANGED <<enablement, age, lapsed, fencing, recovered>>

-----------------------------------------------------------------------------

\* loadRecoverySnapshot; two snapshots are equal when their digests are.
RecoverySnapshot(p) ==
    [op |-> opStatus[p], plan |-> planStatus[p], steps |-> stepStatus[p],
     locks |-> {<<k, locks[k]>> : k \in LocksOf(p)}, lapsed |-> lapsed[p]]

\* applyRecoveryStatuses refuses a mode that does not fit the operation.
ModeFits(p, mode) ==
    CASE mode = "abort-interrupted" ->
            /\ opStatus[p] = "applying"
            /\ \A i \in StepIds(p) : stepStatus[p][i] \notin {"succeeded", "failed"}
      [] mode = "close-partial" -> opStatus[p] = "applying"
      [] OTHER -> opStatus[p] # "applying"

CanRecoverOperation(p, expected, mode) ==
    /\ RecoverySnapshot(p) = expected
    /\ LocksOf(p) # {}
    /\ lapsed[p]
    /\ \A i \in StepIds(p) : stepStatus[p][i] # "applying"
    /\ ModeFits(p, mode)

RecoveredStatus(mode) == IF mode = "abort-interrupted" THEN "failed" ELSE "partial"

RecoverOperation(p, mode) ==
    /\ IF mode = "release-stale-locks"
       THEN UNCHANGED <<opStatus, planStatus, stepStatus, recovered>>
       ELSE /\ opStatus' = [opStatus EXCEPT ![p] = RecoveredStatus(mode)]
            /\ planStatus' = [planStatus EXCEPT ![p] = RecoveredStatus(mode)]
            /\ stepStatus' = [stepStatus EXCEPT ![p] =
                 [i \in StepIds(p) |-> IF stepStatus[p][i] = "pending"
                                       THEN "blocked" ELSE stepStatus[p][i]]]
            /\ recovered' = [recovered EXCEPT ![p] = TRUE]
    /\ locks' = ReleaseLocks(p)
    /\ UNCHANGED <<enablement, age, lapsed, fencing>>

-----------------------------------------------------------------------------

\* Time passes: a deadline of the plan, then the leases of an operation.  The
\* deadlines of a plan are no longer read once its operation exists.
AgePlan(p) ==
    /\ planStatus[p] # "none" /\ opStatus[p] = "none"
    /\ age[p] < 2
    /\ age' = [age EXCEPT ![p] = @ + 1]
    /\ UNCHANGED <<planStatus, enablement, opStatus, stepStatus, locks, lapsed, fencing, recovered>>

LeaseLapse(p) ==
    /\ opStatus[p] = "applying"
    /\ ~lapsed[p]
    /\ lapsed' = [lapsed EXCEPT ![p] = TRUE]
    /\ UNCHANGED <<planStatus, enablement, age, opStatus, stepStatus, locks, fencing, recovered>>
=============================================================================
