------------------------ MODULE OperationProperties -------------------------
(***************************************************************************)
(* What the operation engine and its recovery must and must not do.        *)
(***************************************************************************)
EXTENDS OperationEngine

FinSet ==
    [op : OpStates, plan : PlanStates, expect : PlanStates, failed : Nat,
     attempted : BOOLEAN,
     moves : {<<>>} \cup UNION {[StepIds(p) -> {"keep", "pending", "applying"}] :
                                    p \in AllPlans}]

Locals ==
    [pc : Labels, plan : AllPlans, record : PlanStates \cup OpStates, now : 0..2,
     signed : BOOLEAN, token : Nat, succeeded : Nat, undo : Int, fin : FinSet,
     result : {"none", "refused", "expired", "expiry-record-failed", "replay",
               "closed", "finalization-failed"},
     attempted : BOOLEAN]

\* The rows of the store, the parameters of the recoveries and the locals of
\* every apply have their types.
TypeOK ==
    /\ StoreTypeOK
    /\ RecoveryTypeOK
    /\ proc \in [Procs -> Locals]
    /\ DOMAIN called = AllPlans
    /\ \A p \in AllPlans : called[p] \in [StepIds(p) -> Nat]
    /\ faults \in 0..MaxFaults
    /\ crashes \in 0..MaxCrashes

-----------------------------------------------------------------------------
\* Locks and ownership.

\* A lock row exists exactly as long as its operation is applying: start takes
\* the whole write set, finalization and recovery release all of it, and no
\* error path, crash or lapsed lease leaks or drops one lock (operation_lifecycle.go,
\* recovery.go).
LocksFollowOperations ==
    \A p \in AllPlans :
        LocksOf(p) = IF opStatus[p] = "applying" THEN planWriteSet(p) ELSE {}

\* A process that runs an operation is never overtaken: while it has not
\* returned, its operation is applying, is run by no other process, and every
\* lock of its write set is still held under its own token, however long its
\* leases have lapsed and whatever recoveries were planned or applied meanwhile.
OwnerNotOvertaken ==
    \A q \in Procs : proc[q].pc \in Running =>
        /\ opStatus[Plan(q)] = "applying"
        /\ HoldsExactLocks(Plan(q), q, proc[q].token)
        /\ \A other \in Procs \ {q} : proc[other].pc \in Running => Plan(other) # Plan(q)

\* Two processes are never inside handlers, or compensations, that write the
\* same target.
WriteSetExclusion ==
    \A q, other \in Procs :
        /\ q # other
        /\ proc[q].pc \in {"handler", "undoing"}
        /\ proc[other].pc \in {"handler", "undoing"}
        => planWriteSet(Plan(q)) \cap planWriteSet(Plan(other)) = {}

-----------------------------------------------------------------------------
\* Handlers and the journal.

\* A handler is called at most once for each step of a plan, over all apply
\* calls, retries, crashes and recoveries, and once it was called the journal
\* never reads as if it had not been (pending or blocked).
HandlerCalledOnceAndJournaled ==
    \A p \in AllPlans : \A i \in StepIds(p) :
        /\ called[p][i] <= 1
        /\ called[p][i] = 1 => stepStatus[p][i] \in
              {"applying", "succeeded", "failed", "compensating", "compensated"}

\* How an operation closed tells what was done: failed and blocked mean that no
\* handler was ever called, partial that one was, succeeded that all were and
\* none was compensated, whoever closed it, the engine or a recovery.
OutcomeTellsEffect ==
    \A p \in AllPlans :
        /\ opStatus[p] \in {"none", "failed", "blocked"} => \A i \in StepIds(p) : called[p][i] = 0
        /\ opStatus[p] = "partial" => \E i \in StepIds(p) : called[p][i] = 1
        /\ opStatus[p] = "succeeded" =>
              \A i \in StepIds(p) : called[p][i] = 1 /\ stepStatus[p][i] = "succeeded"

\* The plan and its operation close together and consistently; succeededJournal
\* relies on it when a succeeded apply is replayed or verified.
PlanFollowsOperation ==
    \A p \in AllPlans :
        CASE opStatus[p] = "none" -> planStatus[p] \in {"none", "planned", "stale"}
          [] opStatus[p] = "applying" -> planStatus[p] \in {"approved", "applying"}
          [] opStatus[p] = "blocked" -> planStatus[p] \in {"failed", "stale"}
          [] OTHER -> planStatus[p] = opStatus[p]

\* No handler of a plan that requires approval is called unless the plan's
\* one-shot enablement was consumed by the start (operations-v1.md: no handler
\* is called when approval is absent).
ApprovedBeforeHandler ==
    \A p \in AllPlans :
        RequiresApproval(p) /\ opStatus[p] # "none" => enablement[p] = "consumed"

\* compensateSucceeded works backwards over the steps that succeeded: when the
\* compensation of a step begins, the step is one of these and compensates
\* automatically, and every later one that does has been compensated.  A step
\* without automatic compensation is skipped, and a step whose compensation
\* failed or was not recorded ends it.
CompensatedInReverse ==
    [][\A p \in AllPlans : \A i \in StepIds(p) :
         stepStatus[p][i] # "compensating" /\ stepStatus'[p][i] = "compensating" =>
            \E q \in Procs :
               /\ Plan(q) = p /\ proc[q].pc = "undo"
               /\ i <= proc[q].succeeded /\ Steps[p][i].auto
               /\ \A j \in (i + 1)..proc[q].succeeded :
                     Steps[p][j].auto => stepStatus[p][j] = "compensated"]_vars

\* What apply reports about its own operation is exact: mutation_attempted is
\* true exactly when a handler was called, also when finalization failed.
ReportsOwnAttempt ==
    \A q \in Procs : proc[q].result \in {"closed", "finalization-failed"} =>
        (proc[q].attempted <=> \E i \in StepIds(Plan(q)) : called[Plan(q)][i] > 0)

\* A replayed apply never says that nothing was attempted when a handler has
\* already been called, although it reads the operation and its steps at
\* different times.
ReplayNeverHidesMutation ==
    [][\A q \in Procs :
         proc[q].pc = "replay" /\ proc'[q].result = "replay" /\ ~proc'[q].attempted
         => \A i \in StepIds(Plan(q)) : called[Plan(q)][i] = 0]_vars

\* Once closed, an operation, its plan and its steps never change again: no
\* late finalization, compensation or second recovery rewrites the outcome.
ClosedStaysClosed ==
    [][\A p \in AllPlans : opStatus[p] \notin {"none", "applying"} =>
         /\ opStatus'[p] = opStatus[p]
         /\ planStatus'[p] = planStatus[p]
         /\ stepStatus'[p] = stepStatus[p]]_vars

-----------------------------------------------------------------------------
\* Recovery.

\* The process of an applying operation has ended, its leases have expired, its
\* plan touches one repository and no step is in an unknown state.
Interrupted(p) ==
    /\ opStatus[p] = "applying" /\ lapsed[p]
    /\ \A q \in Procs : proc[q].pc \notin Ended => Plan(q) # p
    /\ Cardinality(Repositories(p)) = 1
    /\ \A i \in StepIds(p) : stepStatus[p][i] \notin {"applying", "compensating"}

\* Every interrupted ordinary operation is recoverable (operations-v1.md: a
\* pending-only operation may be closed as failed, one with completed steps as
\* partial).
InterruptedIsRecoverable ==
    \A p \in Plans : Interrupted(p) => Automatable(RecoverySnapshot(p), p, Alive)

\* The recovery handler only ever closes an operation whose process has ended,
\* and closes it in the mode its plan was approved for: a recovery never acts
\* on an operation that moved after it was planned.
RecoveredAsPlanned ==
    [][\A p \in AllPlans : opStatus[p] = "applying" /\ recovered'[p] /\ ~recovered[p] =>
         /\ \A q \in Procs : proc[q].pc \in Running => Plan(q) # p
         /\ opStatus'[p] = IF \E i \in StepIds(p) : called[p][i] > 0 THEN "partial" ELSE "failed"]_vars

-----------------------------------------------------------------------------
\* Liveness.

\* Every apply ends: whatever fails, no process waits for another one.
EveryApplyEnds == \A q \in Procs : proc[q].pc = "loaded" ~> proc[q].pc \in Ended

-----------------------------------------------------------------------------
\* Statements of the repository that the code does not keep.

\* engine.go:306-308: the expiry record "must tolerate having been written
\* already"; "either way the answer to this apply is identical".
ExpiredApplyAnswersExpired ==
    \A q \in Procs : proc[q].result # "expiry-record-failed"

\* operations-v1.md:143-146: a pending-only interrupted operation "may be
\* closed as failed", whichever plan it belongs to.
InterruptedRecoveryIsRecoverable ==
    \A p \in Recoveries : Interrupted(p) => Automatable(RecoverySnapshot(p), p, Alive)

\* operations-v1.md:49-51: a failure of the terminal write "leaves the operation
\* nonterminal, and retains all operation locks for explicit recovery".
FailedFinalizationKeepsOperation ==
    [][\A q \in Procs :
         proc[q].pc = "finalize" /\ proc'[q].result = "finalization-failed" =>
            opStatus'[Plan(q)] = "applying" /\ locks' = locks]_vars

\* operations-v1.md:45: "No handler is called when approval is absent, the plan
\* expired, ...": when the first handler of a plan is called, the plan has not
\* expired.
ExpiredPlanCallsNoHandler ==
    [][\A p \in AllPlans :
         called'[p] # called[p] /\ (\A i \in StepIds(p) : called[p][i] = 0) => age[p] # 2]_vars

\* state-v1.md:91-96: "Only the explicit plan state machine may change: planned
\* -> approved -> applying -> succeeded | failed | partial; planned | approved
\* -> stale".
DocumentedMoves ==
    {<<"none", "planned">>, <<"planned", "approved">>, <<"approved", "applying">>,
     <<"planned", "stale">>, <<"approved", "stale">>}
    \cup {<<"applying", end>> : end \in {"succeeded", "failed", "partial"}}

\* Every change of a plan's status is one of that state machine.
PlanMovesAsDocumented ==
    [][\A p \in AllPlans : planStatus'[p] # planStatus[p] =>
         <<planStatus[p], planStatus'[p]>> \in DocumentedMoves]_vars
=============================================================================
