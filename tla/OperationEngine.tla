--------------------------- MODULE OperationEngine --------------------------
(***************************************************************************)
(* Engine.Apply of core/operations/engine.go, run by several processes     *)
(* over one store: look up, gate, start, recheck, call handlers,           *)
(* compensate, finalize.  A process is one gds invocation and applies one  *)
(* plan.  Between two store calls any other process may act, a deadline or *)
(* a lease may pass, and the process may be killed.                        *)
(*                                                                         *)
(* A store call can fail in two ways.  It can fail without effect, or its  *)
(* transaction commits and the check of the database authority that        *)
(* Store.commit and ExecContext make afterwards fails, so that the caller  *)
(* sees an error for a change that is durable.                             *)
(***************************************************************************)
EXTENDS OperationRecovery

CONSTANTS MaxFaults, MaxCrashes  \* how many store calls fail, processes die

ASSUME BoundsAssumption == MaxFaults \in Nat /\ MaxCrashes \in Nat

VARIABLES
    proc,     \* the locals of each process
    called,   \* called[p][i]: how often the handler of step i of p was called
    faults,
    crashes

vars == <<storeVars, recovery, proc, called, faults, crashes>>

\* Where a process stands in apply; from "started" to "finalize" it runs an
\* operation.
Running == {"started", "verified", "step", "rechecked", "heartbeat", "handler",
            "handled", "verify", "record", "compensate", "undo", "undoing",
            "undone", "undofailed", "close", "finalize"}
Ended == {"done", "dead"}
Labels == {"idle", "loaded", "expire", "gate", "start", "startfailed", "replay"}
          \cup Running \cup Ended

\* Before PlanOperationRecovery and Apply, nothing is known.
NoPlan == CHOOSE p \in AllPlans : TRUE
NoFin == [op |-> "none", plan |-> "none", expect |-> "none", failed |-> 0,
          attempted |-> FALSE, moves |-> <<>>]

\* The locals of a process that remembers nothing.
Blank ==
    [pc |-> "idle", plan |-> NoPlan, record |-> "none", now |-> 0, signed |-> FALSE,
     token |-> 0, succeeded |-> 0, undo |-> 0, fin |-> NoFin,
     result |-> "none", attempted |-> FALSE]

EngineInit ==
    /\ proc = [q \in Procs |-> Blank]
    /\ called = [p \in AllPlans |-> [i \in StepIds(p) |-> 0]]
    /\ faults = 0
    /\ crashes = 0

Init == StoreInit /\ RecoveryInit /\ EngineInit

-----------------------------------------------------------------------------
\* How a store call ends, and how a process moves on.

Fault == faults < MaxFaults /\ faults' = faults + 1

\* Ok and Err are the caller's continuations; Ok says itself what happens to
\* faults, because an event append may follow.
StoreCall(can, Effect, Ok, Err) ==
    \/ can /\ Effect /\ Ok
    \/ ~can /\ UNCHANGED <<storeVars, faults>> /\ Err
    \/ Fault /\ UNCHANGED storeVars /\ Err
    \/ Fault /\ can /\ Effect /\ Err

\* AppendEvent after a successful change.
AppendEvent(Ok, Err) ==
    \/ UNCHANGED faults /\ Ok
    \/ Fault /\ Err

Become(q, locals) == proc' = [proc EXCEPT ![q] = locals]
Goto(q, label) == Become(q, [proc[q] EXCEPT !.pc = label])
Return(q, result, attempted) ==
    Become(q, [Blank EXCEPT !.pc = "done", !.plan = proc[q].plan,
                            !.result = result, !.attempted = attempted])

Plan(q) == proc[q].plan
Current(q) == proc[q].succeeded + 1

Fin(op, plan, expect, failed, attempted) ==
    [op |-> op, plan |-> plan, expect |-> expect, failed |-> failed,
     attempted |-> attempted, moves |-> <<>>]

\* blockBeforeMutation: no handler was called.
blockBeforeMutation(q, plan) ==
    Become(q, [proc[q] EXCEPT !.pc = "close",
                              !.fin = Fin("blocked", plan, "approved", 0, FALSE)])

\* Mistake: the steps that succeeded before are forgotten.
failBeforeHandler_ForgetsEarlierSteps(q, failed) ==
    LET status == IF proc[q].succeeded > 0 THEN "partial" ELSE "failed"
    IN  Become(q, [proc[q] EXCEPT !.pc = "close",
            !.fin = Fin(status, status, "applying", failed, FALSE)])

\* failBeforeHandler: the handler of the current step was not called; earlier
\* steps are not compensated.
failBeforeHandler(q, failed) ==
    LET status == IF proc[q].succeeded > 0 THEN "partial" ELSE "failed"
    IN  Become(q, [proc[q] EXCEPT !.pc = "close",
            !.fin = Fin(status, status, "applying", failed, proc[q].succeeded > 0)])

\* failAfterAppliedStep: the current step succeeded, its event was lost.
failAfterAppliedStep(q) ==
    Become(q, [proc[q] EXCEPT !.pc = "close",
                              !.fin = Fin("partial", "partial", "applying", 0, TRUE)])

\* Mistake: the failing step itself does not count as an attempt.
failOperation_OnlyEarlierSteps(q) ==
    LET status == IF proc[q].succeeded > 0 THEN "partial" ELSE "failed"
    IN  Become(q, [proc[q] EXCEPT !.pc = "compensate", !.undo = proc[q].succeeded,
            !.fin = Fin(status, status, "applying", Current(q), TRUE)])

\* failOperation: every call passes mutationAttempted = true.
failOperation(q) ==
    Become(q, [proc[q] EXCEPT !.pc = "compensate", !.undo = proc[q].succeeded,
            !.fin = Fin("partial", "partial", "applying", Current(q), TRUE)])

\* blockOnStepPreconditionDrift
blockOnStepPreconditionDrift(q) ==
    Become(q, [proc[q] EXCEPT !.pc = "compensate", !.undo = proc[q].succeeded,
            !.fin = IF proc[q].succeeded > 0
                    THEN Fin("partial", "partial", "applying", 0, TRUE)
                    ELSE Fin("blocked", "stale", "applying", 0, FALSE)])

-----------------------------------------------------------------------------
\* Up to the start of the operation.

\* Apply: loadPlan, the clock reading, and the signature of a presented
\* approval.  Whatever ends apply before the journal is consulted changes
\* nothing.
Apply(q, p, signed) ==
    /\ proc[q].pc = "idle"
    /\ planStatus[p] # "none"
    /\ Become(q, [proc[q] EXCEPT !.pc = "loaded", !.plan = p, !.signed = signed,
                                 !.record = planStatus[p], !.now = age[p]])
    /\ UNCHANGED <<storeVars, recovery, called, faults, crashes>>

\* A configuration problem, a kill switch, an unreadable store, an approval
\* that does not verify, a missing handler: apply returns without a change.
Refuse(q) ==
    /\ proc[q].pc \in {"loaded", "gate", "startfailed", "replay"}
    /\ Return(q, "refused", FALSE)
    /\ UNCHANGED <<storeVars, recovery, called, faults, crashes>>

\* GetOperationByPlan, before expiry or enablement are consulted.
LookupOperation(q) ==
    /\ proc[q].pc = "loaded"
    /\ IF opStatus[Plan(q)] # "none"
       THEN Become(q, [Blank EXCEPT !.pc = "replay", !.plan = Plan(q),
                                    !.record = opStatus[Plan(q)]])
       ELSE Goto(q, IF proc[q].now = 2 THEN "expire" ELSE "gate")
    /\ UNCHANGED <<storeVars, recovery, called, faults, crashes>>

\* The plan expired before apply: record it as stale.
RecordExpiry(q) ==
    /\ proc[q].pc = "expire"
    /\ IF proc[q].record \in {"planned", "approved"}
       THEN StoreCall(CanTransitionPlan(Plan(q), proc[q].record),
                      TransitionPlan(Plan(q), "stale"),
                      Return(q, "expired", FALSE) /\ UNCHANGED faults,
                      Return(q, "expiry-record-failed", FALSE))
       ELSE Return(q, "expired", FALSE) /\ UNCHANGED <<storeVars, faults>>
    /\ UNCHANGED <<recovery, called, crashes>>

\* Mistake: an unsigned apply of a plan that requires approval passes.
Gate_UnsignedPasses(q) ==
    /\ proc[q].pc = "gate"
    /\ proc[q].signed => enablement[Plan(q)] = "active" /\ proc[q].now = 0
    /\ proc[q].record = "planned"
    /\ Goto(q, "start")
    /\ UNCHANGED <<storeVars, recovery, called, faults, crashes>>

\* Approval, enablement and plan state gates.
Gate(q) ==
    /\ proc[q].pc = "gate"
    /\ RequiresApproval(Plan(q)) => proc[q].signed
    /\ proc[q].signed => enablement[Plan(q)] = "active" /\ proc[q].now = 0
    /\ proc[q].record = "planned"
    /\ Goto(q, "start")
    /\ UNCHANGED <<storeVars, recovery, called, faults, crashes>>

\* Mistake: apply waits until its locks are free.
Start_Waits(q) ==
    /\ proc[q].pc = "start"
    /\ CanStartApprovedOperation(Plan(q), proc[q].signed, proc[q].now)
    /\ StartApprovedOperation(Plan(q), q, proc[q].signed)
    /\ Become(q, [Blank EXCEPT !.pc = "started", !.plan = Plan(q), !.token = fencing + 1])
    /\ UNCHANGED <<recovery, called, faults, crashes>>

Start(q) ==
    /\ proc[q].pc = "start"
    /\ StoreCall(CanStartApprovedOperation(Plan(q), proc[q].signed, proc[q].now),
                 StartApprovedOperation(Plan(q), q, proc[q].signed),
                 /\ Become(q, [Blank EXCEPT !.pc = "started", !.plan = Plan(q),
                                           !.token = fencing + 1])
                 /\ UNCHANGED faults,
                 Goto(q, "startfailed"))
    /\ UNCHANGED <<recovery, called, crashes>>

\* After a failed start the journal is consulted again.
StartFailed(q) ==
    /\ proc[q].pc = "startfailed"
    /\ opStatus[Plan(q)] # "none"
    /\ Become(q, [Blank EXCEPT !.pc = "replay", !.plan = Plan(q),
                                    !.record = opStatus[Plan(q)]])
    /\ UNCHANGED <<storeVars, recovery, called, faults, crashes>>

\* Mistake: only finished steps count as attempts.
Attempted_FinishedStepsOnly(p, record) ==
    CASE record \in {"succeeded", "partial"} -> TRUE
      [] record = "failed" -> recovered[p]
      [] record = "applying" ->
            \E i \in StepIds(p) : stepStatus[p][i] \in {"succeeded", "failed", "compensated"}
      [] OTHER -> FALSE

\* A failed operation replays the flag its result recorded: failBeforeHandler
\* records false, a result written by recovery has none and counts as true.
Attempted(p, record) ==
    CASE record \in {"succeeded", "partial"} -> TRUE
      [] record = "failed" -> recovered[p]
      [] record = "applying" ->
            \E i \in StepIds(p) : stepStatus[p][i] \in
                {"applying", "succeeded", "failed", "compensating", "compensated"}
      [] OTHER -> FALSE

replayApply(q) ==
    /\ proc[q].pc = "replay"
    /\ Return(q, "replay", Attempted(Plan(q), proc[q].record))
    /\ UNCHANGED <<storeVars, recovery, called, faults, crashes>>

-----------------------------------------------------------------------------
\* The operation runs.

\* checkPreconditions: what an ordinary plan observes is the environment's; a
\* recovery observes its target's snapshot, and the same environment.
PreconditionsMayHold(p) == p \in Recoveries => SnapshotUnchanged(p)

checkPreconditions(q) ==
    /\ proc[q].pc = "started"
    /\ \/ PreconditionsMayHold(Plan(q)) /\ Goto(q, "verified")
       \/ blockBeforeMutation(q, "stale")
    /\ UNCHANGED <<storeVars, recovery, called, faults, crashes>>

BeginApplying(q) ==
    /\ proc[q].pc = "verified"
    /\ StoreCall(CanTransitionPlan(Plan(q), "approved"),
                 TransitionPlan(Plan(q), "applying"),
                 AppendEvent(Goto(q, "step"), failBeforeHandler(q, 0)),
                 blockBeforeMutation(q, "failed"))
    /\ UNCHANGED <<recovery, called, crashes>>

FirstOfRepository(q) ==
    \A j \in 1..proc[q].succeeded : Steps[Plan(q)][j].repo # Steps[Plan(q)][Current(q)].repo

\* Preconditions are checked again before the first step in each repository.
RecheckRepository(q) ==
    /\ proc[q].pc = "step"
    /\ FirstOfRepository(q)
    /\ \/ /\ PreconditionsMayHold(Plan(q))
          /\ AppendEvent(Goto(q, "rechecked"), failBeforeHandler(q, 0))
       \/ blockOnStepPreconditionDrift(q) /\ UNCHANGED faults
    /\ UNCHANGED <<storeVars, recovery, called, crashes>>

BeginStep(q) ==
    /\ \/ proc[q].pc = "rechecked"
       \/ proc[q].pc = "step" /\ ~FirstOfRepository(q)
    /\ StoreCall(CanTransitionStep(Plan(q), Current(q), "pending"),
                 TransitionStep(Plan(q), Current(q), "applying"),
                 AppendEvent(Goto(q, "heartbeat"), failBeforeHandler(q, Current(q))),
                 failBeforeHandler(q, Current(q)))
    /\ UNCHANGED <<recovery, called, crashes>>

\* heartbeatLocks: one HeartbeatLock per lock.  A failure may come after some
\* leases were renewed, which the effect of a failing StoreCall covers.
heartbeatLocks(q, Ok, Err) ==
    StoreCall(HoldsExactLocks(Plan(q), q, proc[q].token),
              HeartbeatLocks(Plan(q)), Ok /\ UNCHANGED faults, Err)

HeartbeatBeforeHandler(q) ==
    /\ proc[q].pc = "heartbeat"
    /\ heartbeatLocks(q, Goto(q, "handler"), failBeforeHandler(q, Current(q)))
    /\ UNCHANGED <<recovery, called, crashes>>

\* The handler of an ordinary step acts outside the store and may fail with or
\* without side effects; the handler of a recovery step is a store call.
CallHandler(q) ==
    /\ proc[q].pc = "handler"
    /\ called' = [called EXCEPT ![Plan(q)][Current(q)] = @ + 1]
    /\ IF Plan(q) \in Recoveries
       THEN StoreCall(CanApplyRecovery(Plan(q)), ApplyRecovery(Plan(q)),
                      Goto(q, "handled") /\ UNCHANGED faults, failOperation(q))
       ELSE /\ Goto(q, "handled") \/ failOperation(q)
            /\ UNCHANGED <<storeVars, faults>>
    /\ UNCHANGED <<recovery, crashes>>

HeartbeatAfterHandler(q) ==
    /\ proc[q].pc = "handled"
    /\ heartbeatLocks(q, Goto(q, "verify"), failOperation(q))
    /\ UNCHANGED <<recovery, called, crashes>>

VerifyStep(q) ==
    /\ proc[q].pc = "verify"
    /\ \/ /\ Plan(q) \in Recoveries => VerifyRecovery(Plan(q))
          /\ Goto(q, "record")
       \/ failOperation(q)
    /\ UNCHANGED <<storeVars, recovery, called, faults, crashes>>

\* The step is recorded as succeeded; after the last one the operation is
\* finalized without step transitions.
NextStep(q) ==
    IF Current(q) < Len(Steps[Plan(q)])
    THEN Become(q, [proc[q] EXCEPT !.pc = "step", !.succeeded = @ + 1])
    ELSE Become(q, [proc[q] EXCEPT !.pc = "finalize", !.succeeded = @ + 1,
            !.fin = [Fin("succeeded", "succeeded", "applying", 0, TRUE) EXCEPT
                        !.moves = [i \in StepIds(Plan(q)) |-> "keep"]]])

RecordStep(q) ==
    /\ proc[q].pc = "record"
    /\ StoreCall(CanTransitionStep(Plan(q), Current(q), "applying"),
                 TransitionStep(Plan(q), Current(q), "succeeded"),
                 AppendEvent(NextStep(q), failAfterAppliedStep(q)),
                 failOperation(q))
    /\ UNCHANGED <<recovery, called, crashes>>

-----------------------------------------------------------------------------
\* compensateSucceeded: from the last succeeded step backwards, only steps
\* whose compensation is automatic; any problem ends it.

\* Mistake: compensation starts with the first step.
NextUndo_Forward(q, i) ==
    LET auto == {j \in 1..proc[q].undo : Steps[Plan(q)][j].auto}
    IN  IF auto = {} THEN i = 0 ELSE i \in auto /\ \A j \in auto : i <= j

\* i is the next step to compensate, 0 when none is left.
NextUndo(q, i) ==
    LET auto == {j \in 1..proc[q].undo : Steps[Plan(q)][j].auto}
    IN  IF auto = {} THEN i = 0 ELSE i \in auto /\ \A j \in auto : j <= i

Compensate(q) ==
    /\ proc[q].pc = "compensate"
    /\ \E i \in 0..proc[q].undo :
          /\ NextUndo(q, i)
          /\ IF i = 0
             THEN Goto(q, "close") /\ UNCHANGED <<storeVars, faults>>
             ELSE heartbeatLocks(q, Become(q, [proc[q] EXCEPT !.pc = "undo", !.undo = i]),
                                 Goto(q, "close"))
    /\ UNCHANGED <<recovery, called, crashes>>

BeginUndo(q) ==
    /\ proc[q].pc = "undo"
    /\ StoreCall(CanTransitionStep(Plan(q), proc[q].undo, "succeeded"),
                 TransitionStep(Plan(q), proc[q].undo, "compensating"),
                 Goto(q, "undoing") /\ UNCHANGED faults,
                 Goto(q, "close"))
    /\ UNCHANGED <<recovery, called, crashes>>

CallCompensation(q) ==
    /\ proc[q].pc = "undoing"
    /\ Goto(q, "undone") \/ Goto(q, "undofailed")
    /\ UNCHANGED <<storeVars, recovery, called, faults, crashes>>

RecordCompensation(q) ==
    /\ proc[q].pc = "undone"
    /\ StoreCall(CanTransitionStep(Plan(q), proc[q].undo, "compensating"),
                 TransitionStep(Plan(q), proc[q].undo, "compensated"),
                 AppendEvent(Become(q, [proc[q] EXCEPT !.pc = "compensate", !.undo = @ - 1]),
                             Goto(q, "close")),
                 Goto(q, "close"))
    /\ UNCHANGED <<recovery, called, crashes>>

RecordCompensationFailure(q) ==
    /\ proc[q].pc = "undofailed"
    /\ StoreCall(CanTransitionStep(Plan(q), proc[q].undo, "compensating"),
                 TransitionStep(Plan(q), proc[q].undo, "failed"),
                 Goto(q, "close") /\ UNCHANGED faults,
                 Goto(q, "close"))
    /\ UNCHANGED <<recovery, called, crashes>>

-----------------------------------------------------------------------------
\* Closing the operation.

\* Mistake: every recorded step gets a transition.
Moves_EveryStep(p) == stepStatus[p]

\* terminalStepTransitions reads the steps; FinalizeOperation applies the
\* transitions later, in a transaction of its own.
Moves(p) ==
    [i \in StepIds(p) |-> IF stepStatus[p][i] \in {"pending", "applying"}
                          THEN stepStatus[p][i] ELSE "keep"]

StepsClosable(p, failed) ==
    \A i \in StepIds(p) : /\ stepStatus[p][i] # "compensating"
                          /\ stepStatus[p][i] = "applying" => i = failed

terminalStepTransitions(q) ==
    /\ proc[q].pc = "close"
    /\ \/ /\ StepsClosable(Plan(q), proc[q].fin.failed)
          /\ Become(q, [proc[q] EXCEPT !.pc = "finalize", !.fin.moves = Moves(Plan(q))])
          /\ UNCHANGED faults
       \/ /\ ~StepsClosable(Plan(q), proc[q].fin.failed)
          /\ Return(q, "finalization-failed", proc[q].fin.attempted)
          /\ UNCHANGED faults
       \/ /\ Fault
          /\ Return(q, "finalization-failed", proc[q].fin.attempted)
    /\ UNCHANGED <<storeVars, recovery, called, crashes>>

Finalize(q) ==
    /\ proc[q].pc = "finalize"
    /\ StoreCall(CanFinalizeOperation(Plan(q), q, proc[q].token, proc[q].fin),
                 FinalizeOperation(Plan(q), proc[q].fin),
                 Return(q, "closed", proc[q].fin.attempted) /\ UNCHANGED faults,
                 Return(q, "finalization-failed", proc[q].fin.attempted))
    /\ UNCHANGED <<recovery, called, crashes>>

\* The process is killed; nothing it holds in memory survives.
Crash(q) ==
    /\ crashes < MaxCrashes
    /\ proc[q].pc \notin {"idle"} \cup Ended
    /\ Become(q, [Blank EXCEPT !.pc = "dead"])
    /\ crashes' = crashes + 1
    /\ UNCHANGED <<storeVars, recovery, called, faults>>

-----------------------------------------------------------------------------
\* Planning and approving, by other invocations.

\* processAlive: a process that returned from Apply exits.
Alive == {q \in Procs : proc[q].pc \notin Ended}

PlanOperation(p) ==
    /\ p \in Plans
    /\ CanPutPlan(p) /\ PutPlan(p)
    /\ UNCHANGED <<recovery, proc, called, faults, crashes>>

PlanRecovery(r) ==
    /\ PlanOperationRecovery(r, Alive)
    /\ UNCHANGED <<proc, called, faults, crashes>>

EnableSigned(p) ==
    /\ CanCreatePlanEnablement(p) /\ CreatePlanEnablement(p)
    /\ UNCHANGED <<recovery, proc, called, faults, crashes>>

TimePasses(p) ==
    /\ AgePlan(p) \/ LeaseLapse(p)
    /\ UNCHANGED <<recovery, proc, called, faults, crashes>>

\* What the process does by itself once it has called Apply.
Proceed(q) ==
    \/ Refuse(q) \/ LookupOperation(q) \/ RecordExpiry(q) \/ Gate(q) \/ Start(q)
    \/ StartFailed(q) \/ replayApply(q)
    \/ checkPreconditions(q) \/ BeginApplying(q) \/ RecheckRepository(q) \/ BeginStep(q)
    \/ HeartbeatBeforeHandler(q) \/ CallHandler(q) \/ HeartbeatAfterHandler(q)
    \/ VerifyStep(q) \/ RecordStep(q)
    \/ Compensate(q) \/ BeginUndo(q) \/ CallCompensation(q) \/ RecordCompensation(q)
    \/ RecordCompensationFailure(q)
    \/ terminalStepTransitions(q) \/ Finalize(q)

Next ==
    \/ \E p \in AllPlans : PlanOperation(p) \/ EnableSigned(p) \/ TimePasses(p)
    \/ \E r \in Recoveries : PlanRecovery(r)
    \/ \E q \in Procs, p \in AllPlans, signed \in BOOLEAN : Apply(q, p, signed)
    \/ \E q \in Procs : Proceed(q) \/ Crash(q)

Spec == Init /\ [][Next]_vars

\* A running process is scheduled, and its store calls and handlers return.
FairSpec == Spec /\ \A q \in Procs : WF_vars(Proceed(q))
=============================================================================
