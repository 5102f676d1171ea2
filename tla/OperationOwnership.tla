------------------------- MODULE OperationOwnership -------------------------
(***************************************************************************)
(* Locks and ownership, for any plans, recoveries and processes: lock rows *)
(* follow the operations, a process that runs an operation is never        *)
(* overtaken, and handlers with a common write target never run together.  *)
(*                                                                         *)
(* Only four kinds of steps touch operations.status or the lock rows: a    *)
(* start, a finalization, the handler of a recovery, and none of them      *)
(* without the others' conditions.  The key to the handler of a recovery   *)
(* is that the owners named by the snapshot it was planned from have       *)
(* ended, and an ended process stays ended: a lock that equals the         *)
(* snapshot's cannot be the lock of a running process.                     *)
(***************************************************************************)
EXTENDS OperationTypes

\* The processes named as owners in the snapshot of a planned recovery ended.
PlannedOwnersEnded ==
    \A r \in Recoveries : recovery[r] # NoSnapshot =>
        \A l \in recovery[r].snapshot.locks : proc[l[2].owner].pc \in Ended

\* The inductive invariant.
OwnershipInv ==
    /\ TypeOK
    /\ LocksFollowOperations
    /\ OwnerNotOvertaken
    /\ PlannedOwnersEnded

-----------------------------------------------------------------------------
\* The kinds of steps.

\* No process begins to run an operation or changes the one it runs, and an
\* ended process stays ended.
NoNewRunner ==
    \A q \in Procs :
        /\ proc'[q].pc \in Running => /\ proc[q].pc \in Running
                                      /\ proc'[q].plan = proc[q].plan
                                      /\ proc'[q].token = proc[q].token
        /\ proc[q].pc \in Ended => proc'[q].pc \in Ended

Quiet == UNCHANGED <<opStatus, locks, recovery>> /\ NoNewRunner

Starts(q) ==
    /\ proc[q].pc = "start"
    /\ CanStartApprovedOperation(Plan(q), proc[q].signed, proc[q].now)
    /\ StartApprovedOperation(Plan(q), q, proc[q].signed)
    /\ UNCHANGED recovery
    /\ \/ Become(q, [Blank EXCEPT !.pc = "started", !.plan = Plan(q), !.token = fencing + 1])
       \/ Goto(q, "startfailed")

Finalizes(q) ==
    /\ proc[q].pc = "finalize"
    /\ CanFinalizeOperation(Plan(q), q, proc[q].token, proc[q].fin)
    /\ FinalizeOperation(Plan(q), proc[q].fin)
    /\ UNCHANGED recovery
    /\ \E result : Return(q, result, proc[q].fin.attempted)

Recovers(q) ==
    /\ proc[q].pc = "handler"
    /\ Plan(q) \in Recoveries
    /\ CanApplyRecovery(Plan(q))
    /\ ApplyRecovery(Plan(q))
    /\ UNCHANGED recovery
    /\ NoNewRunner

\* A process that has not ended may go on in the operation it runs.
LEMMA BecomeRunner ==
    ASSUME proc \in [Procs -> Locals], NEW q \in Procs, NEW locals, Become(q, locals),
           proc[q].pc \notin Ended,
           locals.pc \in Running => /\ proc[q].pc \in Running
                                    /\ locals.plan = proc[q].plan
                                    /\ locals.token = proc[q].token
    PROVE  NoNewRunner
BY DEF Become, NoNewRunner

\* Goto begins no operation.
LEMMA GotoRunner ==
    ASSUME proc \in [Procs -> Locals], NEW q \in Procs, NEW label, Goto(q, label),
           proc[q].pc \notin Ended, label \in Running => proc[q].pc \in Running
    PROVE  NoNewRunner
<1>1. /\ [proc[q] EXCEPT !.pc = label].pc = label
      /\ [proc[q] EXCEPT !.pc = label].plan = proc[q].plan
      /\ [proc[q] EXCEPT !.pc = label].token = proc[q].token
  BY DEF Locals
<1>2. QED
  BY <1>1, BecomeRunner DEF Goto

\* Return ends the process.
LEMMA ReturnRunner ==
    ASSUME proc \in [Procs -> Locals], NEW q \in Procs, NEW result, NEW attempted,
           Return(q, result, attempted)
    PROVE  NoNewRunner /\ proc'[q].pc = "done"
<1> DEFINE locals == [Blank EXCEPT !.pc = "done", !.plan = proc[q].plan,
                                   !.result = result, !.attempted = attempted]
<1>1. locals.pc = "done"
  BY DEF Blank
<1>2. Become(q, locals)
  BY DEF Return
<1> HIDE DEF locals
<1>3. QED
  BY <1>1, <1>2 DEF Become, NoNewRunner, Running, Ended

\* Heading for the close of an operation keeps its plan and token.
LEMMA CloseFields ==
    ASSUME NEW locals \in Locals, NEW fin, NEW undo
    PROVE  /\ [locals EXCEPT !.pc = "close", !.fin = fin].plan = locals.plan
           /\ [locals EXCEPT !.pc = "close", !.fin = fin].token = locals.token
           /\ [locals EXCEPT !.pc = "close", !.fin = fin].pc = "close"
           /\ [locals EXCEPT !.pc = "compensate", !.undo = undo, !.fin = fin].plan = locals.plan
           /\ [locals EXCEPT !.pc = "compensate", !.undo = undo, !.fin = fin].token = locals.token
           /\ [locals EXCEPT !.pc = "compensate", !.undo = undo, !.fin = fin].pc = "compensate"
BY DEF Locals

\* The error paths stay in the operation.
LEMMA ErrorPathRunner ==
    ASSUME proc \in [Procs -> Locals], NEW q \in Procs, proc[q].pc \in Running,
           NEW failed, NEW plan,
           \/ blockBeforeMutation(q, plan) \/ failBeforeHandler(q, failed)
           \/ failAfterAppliedStep(q) \/ failOperation(q) \/ blockOnStepPreconditionDrift(q)
    PROVE  NoNewRunner
<1>1. proc[q] \in Locals /\ proc[q].pc \notin Ended
  BY DEF Running, Ended
<1>2. ASSUME NEW fin, Become(q, [proc[q] EXCEPT !.pc = "close", !.fin = fin])
      PROVE  NoNewRunner
  <2> DEFINE locals == [proc[q] EXCEPT !.pc = "close", !.fin = fin]
  <2>1. locals.plan = proc[q].plan /\ locals.token = proc[q].token
    BY <1>1, CloseFields
  <2>2. Become(q, locals)
    BY <1>2
  <2> HIDE DEF locals
  <2>3. QED
    BY <1>1, <2>1, <2>2, BecomeRunner
<1>3. ASSUME NEW fin, NEW undo,
             Become(q, [proc[q] EXCEPT !.pc = "compensate", !.undo = undo, !.fin = fin])
      PROVE  NoNewRunner
  <2> DEFINE locals == [proc[q] EXCEPT !.pc = "compensate", !.undo = undo, !.fin = fin]
  <2>1. locals.plan = proc[q].plan /\ locals.token = proc[q].token
    BY <1>1, CloseFields
  <2>2. Become(q, locals)
    BY <1>3
  <2> HIDE DEF locals
  <2>3. QED
    BY <1>1, <2>1, <2>2, BecomeRunner
<1>4. CASE blockBeforeMutation(q, plan) \/ failBeforeHandler(q, failed) \/ failAfterAppliedStep(q)
  BY <1>2, <1>4 DEF blockBeforeMutation, failBeforeHandler, failAfterAppliedStep
<1>5. CASE failOperation(q) \/ blockOnStepPreconditionDrift(q)
  BY <1>3, <1>5 DEF failOperation, blockOnStepPreconditionDrift
<1>6. QED
  BY <1>4, <1>5

\* Steps up to the start of the operation are quiet, except for the start.
LEMMA GateStepsKind ==
    ASSUME TypeOK, NEW q \in Procs,
           \/ Refuse(q) \/ LookupOperation(q) \/ RecordExpiry(q) \/ Gate(q) \/ Start(q)
           \/ StartFailed(q) \/ replayApply(q)
    PROVE  Quiet \/ Starts(q)
<1>0. /\ proc \in [Procs -> Locals]
      /\ {"expire", "gate", "start", "startfailed", "replay"} \cap Running = {}
      /\ proc[q].pc \in {"loaded", "expire", "gate", "start", "startfailed", "replay"}
      /\ proc[q].pc \notin Ended
  BY DEF TypeOK, Running, Ended, Refuse, LookupOperation, RecordExpiry, Gate, Start, StartFailed,
         replayApply
<1>1. CASE Refuse(q) \/ replayApply(q) \/ Gate(q)
  <2>1. NoNewRunner
    BY <1>0, <1>1, ReturnRunner, GotoRunner DEF Refuse, replayApply, Gate
  <2>2. QED
    BY <1>1, <2>1 DEF Refuse, replayApply, Gate, Quiet, storeVars
<1>2. CASE LookupOperation(q) \/ StartFailed(q)
  <2> DEFINE replay == [Blank EXCEPT !.pc = "replay", !.plan = Plan(q), !.record = opStatus[Plan(q)]]
  <2>1. replay.pc \notin Running
    BY DEF Blank, Running
  <2>2. CASE Become(q, replay)
    <3>1. NoNewRunner
      BY <1>0, <2>1, <2>2, BecomeRunner
    <3>2. QED
      BY <1>2, <3>1 DEF LookupOperation, StartFailed, Quiet, storeVars
  <2>3. CASE Goto(q, IF proc[q].now = 2 THEN "expire" ELSE "gate")
    <3>1. NoNewRunner
      BY <1>0, <2>3, GotoRunner
    <3>2. QED
      BY <1>2, <3>1 DEF LookupOperation, StartFailed, Quiet, storeVars
  <2>4. QED
    BY <1>2, <2>2, <2>3 DEF LookupOperation, StartFailed
<1>3. CASE RecordExpiry(q)
  <2>1. NoNewRunner
    BY <1>0, <1>3, ReturnRunner DEF RecordExpiry, StoreCall
  <2>2. QED
    BY <1>3, <2>1 DEF RecordExpiry, StoreCall, TransitionPlan, Quiet, storeVars
<1>4. CASE Start(q)
  <2>1. CASE UNCHANGED storeVars /\ Goto(q, "startfailed")
    <3>1. NoNewRunner
      BY <1>0, <2>1, GotoRunner
    <3>2. QED
      BY <1>4, <2>1, <3>1 DEF Start, Quiet, storeVars
  <2>2. CASE ~(UNCHANGED storeVars /\ Goto(q, "startfailed"))
    BY <1>4, <2>2 DEF Start, StoreCall, Starts
  <2>3. QED
    BY <2>1, <2>2
<1>5. QED
  BY <1>1, <1>2, <1>3, <1>4

\* Steps of a running operation are quiet, except for a recovery's handler.
LEMMA RunStepsKind ==
    ASSUME TypeOK, NEW q \in Procs,
           \/ checkPreconditions(q) \/ BeginApplying(q) \/ RecheckRepository(q) \/ BeginStep(q)
           \/ HeartbeatBeforeHandler(q) \/ CallHandler(q) \/ HeartbeatAfterHandler(q)
           \/ VerifyStep(q) \/ RecordStep(q)
    PROVE  Quiet \/ Recovers(q)
<1>0. proc \in [Procs -> Locals] /\ proc[q] \in Locals /\ proc[q].pc \in Running /\ proc[q].pc \notin Ended
  BY DEF TypeOK, Running, Ended, checkPreconditions, BeginApplying, RecheckRepository, BeginStep,
         HeartbeatBeforeHandler, CallHandler, HeartbeatAfterHandler, VerifyStep, RecordStep
<1>1. \A label : Goto(q, label) => NoNewRunner
  BY <1>0, GotoRunner
<1>2. ASSUME NextStep(q) PROVE NoNewRunner
  <2> DEFINE fin == [Fin("succeeded", "succeeded", "applying", 0, TRUE) EXCEPT
                        !.moves = [i \in StepIds(Plan(q)) |-> "keep"]]
             step == [proc[q] EXCEPT !.pc = "step", !.succeeded = @ + 1]
             last == [proc[q] EXCEPT !.pc = "finalize", !.succeeded = @ + 1, !.fin = fin]
  <2>1. step.plan = proc[q].plan /\ step.token = proc[q].token
    BY <1>0 DEF Locals
  <2>2. last.plan = proc[q].plan /\ last.token = proc[q].token
    <3> HIDE DEF fin
    <3>1. QED
      BY <1>0 DEF Locals
  <2>3. Become(q, step) \/ Become(q, last)
    BY <1>2 DEF NextStep
  <2> HIDE DEF step, last
  <2>4. QED
    BY <1>0, <2>1, <2>2, <2>3, BecomeRunner
<1>3. CASE checkPreconditions(q) \/ VerifyStep(q) \/ RecheckRepository(q)
  <2>1. NoNewRunner
    BY <1>0, <1>1, <1>3, ErrorPathRunner DEF checkPreconditions, VerifyStep, RecheckRepository, AppendEvent
  <2>2. QED
    BY <1>3, <2>1 DEF checkPreconditions, VerifyStep, RecheckRepository, Quiet, storeVars
<1>4. CASE BeginApplying(q) \/ BeginStep(q) \/ RecordStep(q)
  <2>1. NoNewRunner
    BY <1>0, <1>1, <1>2, <1>4, ErrorPathRunner
       DEF BeginApplying, BeginStep, RecordStep, StoreCall, AppendEvent
  <2>2. QED
    BY <1>4, <2>1 DEF BeginApplying, BeginStep, RecordStep, StoreCall, AppendEvent, TransitionPlan,
       TransitionStep, Quiet, storeVars
<1>5. CASE HeartbeatBeforeHandler(q) \/ HeartbeatAfterHandler(q)
  <2>1. NoNewRunner
    BY <1>0, <1>1, <1>5, ErrorPathRunner
       DEF HeartbeatBeforeHandler, HeartbeatAfterHandler, heartbeatLocks, StoreCall
  <2>2. QED
    BY <1>5, <2>1 DEF HeartbeatBeforeHandler, HeartbeatAfterHandler, heartbeatLocks, StoreCall,
       HeartbeatLocks, Quiet, storeVars
<1>6. CASE CallHandler(q)
  <2>1. NoNewRunner
    BY <1>0, <1>1, <1>6, ErrorPathRunner DEF CallHandler, StoreCall
  <2>2. QED
    BY <1>6, <2>1 DEF CallHandler, StoreCall, Recovers, Quiet, storeVars
<1>7. QED
  BY <1>3, <1>4, <1>5, <1>6
\* Compensation and finalization are quiet, except for the finalization.
LEMMA CloseStepsKind ==
    ASSUME TypeOK, NEW q \in Procs,
           \/ Compensate(q) \/ BeginUndo(q) \/ CallCompensation(q) \/ RecordCompensation(q)
           \/ RecordCompensationFailure(q)
           \/ terminalStepTransitions(q) \/ Finalize(q)
    PROVE  Quiet \/ Finalizes(q)
<1>0. proc \in [Procs -> Locals] /\ proc[q] \in Locals /\ proc[q].pc \in Running /\ proc[q].pc \notin Ended
  BY DEF TypeOK, Running, Ended, Compensate, BeginUndo, CallCompensation, RecordCompensation,
         RecordCompensationFailure, terminalStepTransitions, Finalize
<1>1. \A label : Goto(q, label) => NoNewRunner
  BY <1>0, GotoRunner
<1>2. ASSUME NEW label, NEW undo, Become(q, [proc[q] EXCEPT !.pc = label, !.undo = undo])
      PROVE  NoNewRunner
  <2> DEFINE locals == [proc[q] EXCEPT !.pc = label, !.undo = undo]
  <2>1. locals.plan = proc[q].plan /\ locals.token = proc[q].token
    BY <1>0 DEF Locals
  <2>2. Become(q, locals)
    BY <1>2
  <2> HIDE DEF locals
  <2>3. QED
    BY <1>0, <2>1, <2>2, BecomeRunner
<1>3. CASE Compensate(q)
  <2>1. PICK i \in 0..proc[q].undo :
           IF i = 0
           THEN Goto(q, "close") /\ UNCHANGED <<storeVars, faults>>
           ELSE heartbeatLocks(q, Become(q, [proc[q] EXCEPT !.pc = "undo", !.undo = i]),
                               Goto(q, "close"))
    BY <1>3 DEF Compensate
  <2>2. NoNewRunner
    BY <1>1, <1>2, <2>1 DEF heartbeatLocks, StoreCall
  <2>3. UNCHANGED <<opStatus, locks>>
    BY <2>1 DEF heartbeatLocks, StoreCall, HeartbeatLocks, storeVars
  <2>4. QED
    BY <1>3, <2>2, <2>3 DEF Compensate, Quiet
<1>4. CASE BeginUndo(q) \/ RecordCompensationFailure(q) \/ CallCompensation(q)
  <2>1. NoNewRunner
    BY <1>1, <1>4 DEF BeginUndo, RecordCompensationFailure, CallCompensation, StoreCall
  <2>2. QED
    BY <1>4, <2>1 DEF BeginUndo, RecordCompensationFailure, CallCompensation, StoreCall,
       TransitionStep, Quiet, storeVars
<1>5. CASE RecordCompensation(q)
  <2>1. NoNewRunner
    <3>1. CASE Become(q, [proc[q] EXCEPT !.pc = "compensate", !.undo = @ - 1])
      BY <1>2, <3>1
    <3>2. CASE Goto(q, "close")
      BY <1>1, <3>2
    <3>3. QED
      BY <1>5, <3>1, <3>2 DEF RecordCompensation, StoreCall, AppendEvent
  <2>2. QED
    BY <1>5, <2>1 DEF RecordCompensation, StoreCall, AppendEvent, TransitionStep, Quiet, storeVars
<1>6. CASE terminalStepTransitions(q)
  <2>1. NoNewRunner
    <3>1. CASE Return(q, "finalization-failed", proc[q].fin.attempted)
      BY <1>0, <3>1, ReturnRunner
    <3>2. CASE Become(q, [proc[q] EXCEPT !.pc = "finalize", !.fin.moves = Moves(Plan(q))])
      <4> DEFINE locals == [proc[q] EXCEPT !.pc = "finalize", !.fin.moves = Moves(Plan(q))]
      <4>1. locals.plan = proc[q].plan /\ locals.token = proc[q].token
        BY <1>0 DEF Locals
      <4>2. Become(q, locals)
        BY <3>2
      <4> HIDE DEF locals
      <4>3. QED
        BY <1>0, <4>1, <4>2, BecomeRunner
    <3>3. QED
      BY <1>6, <3>1, <3>2 DEF terminalStepTransitions
  <2>2. QED
    BY <1>6, <2>1 DEF terminalStepTransitions, Quiet, storeVars
<1>7. CASE Finalize(q)
  <2>1. PICK result : Return(q, result, proc[q].fin.attempted)
    BY <1>7 DEF Finalize, StoreCall
  <2>2. NoNewRunner
    BY <1>0, <2>1, ReturnRunner
  <2>3. QED
    BY <1>7, <2>1, <2>2 DEF Finalize, StoreCall, Finalizes, Quiet, storeVars
<1>8. QED
  BY <1>3, <1>4, <1>5, <1>6, <1>7

\* Every step is quiet, starts, finalizes or recovers an operation, or plans a
\* recovery.
LEMMA StepKinds ==
    ASSUME TypeOK, [Next]_vars
    PROVE  \/ Quiet
           \/ \E q \in Procs : Starts(q) \/ Finalizes(q) \/ Recovers(q)
           \/ \E r \in Recoveries : PlanRecovery(r)
<1>0. proc \in [Procs -> Locals]
  BY DEF TypeOK
<1>1. CASE UNCHANGED vars
  BY <1>1 DEF vars, storeVars, Quiet, NoNewRunner
<1>2. ASSUME NEW p \in AllPlans, PlanOperation(p) \/ EnableSigned(p) \/ TimePasses(p)
      PROVE  Quiet
  BY <1>2 DEF PlanOperation, EnableSigned, TimePasses, PutPlan, CreatePlanEnablement, AgePlan,
              LeaseLapse, Quiet, NoNewRunner
<1>3. ASSUME NEW q \in Procs, NEW p \in AllPlans, NEW signed \in BOOLEAN, Apply(q, p, signed)
      PROVE  Quiet
  <2> DEFINE locals == [proc[q] EXCEPT !.pc = "loaded", !.plan = p, !.signed = signed,
                                       !.record = planStatus[p], !.now = age[p]]
  <2>1. locals.pc \notin Running
    BY <1>0 DEF Locals, Running
  <2>2. Become(q, locals) /\ proc[q].pc \notin Ended
    BY <1>3 DEF Apply, Ended
  <2> HIDE DEF locals
  <2>3. NoNewRunner
    BY <1>0, <2>1, <2>2, BecomeRunner
  <2>4. QED
    BY <1>3, <2>3 DEF Apply, Quiet, storeVars
<1>4. ASSUME NEW q \in Procs, Proceed(q)
      PROVE  Quiet \/ Starts(q) \/ Finalizes(q) \/ Recovers(q)
  BY <1>4, GateStepsKind, RunStepsKind, CloseStepsKind DEF Proceed
<1>5. ASSUME NEW q \in Procs, Crash(q) PROVE Quiet
  <2>1. [Blank EXCEPT !.pc = "dead"].pc \notin Running
    BY DEF Blank, Running
  <2>2. NoNewRunner
    BY <1>0, <1>5, <2>1, BecomeRunner DEF Crash
  <2>3. QED
    BY <1>5, <2>2 DEF Crash, Quiet, storeVars
<1>6. QED
  BY <1>1, <1>2, <1>3, <1>4, <1>5 DEF Next
-----------------------------------------------------------------------------
\* Each kind of step preserves the invariant.

\* What LocksFollowOperations says of a lock row.
LEMMA RowFacts ==
    ASSUME TypeOK, LocksFollowOperations
    PROVE  /\ \A k \in LockKeys : locks[k] # NoLock =>
                 /\ locks[k].op \in AllPlans /\ locks[k].owner \in Procs
                 /\ opStatus[locks[k].op] = "applying"
                 /\ k \in planWriteSet(locks[k].op)
           /\ \A p \in AllPlans : opStatus[p] = "applying" =>
                 \A k \in planWriteSet(p) : k \in LockKeys /\ locks[k] # NoLock /\ locks[k].op = p
<1>1. \A k \in LockKeys : locks[k] # NoLock => locks[k].op \in AllPlans /\ locks[k].owner \in Procs
  BY DEF TypeOK, StoreTypeOK, LockRows
<1>2. \A k \in LockKeys : locks[k] # NoLock => k \in LocksOf(locks[k].op)
  BY DEF LocksOf
<1>3. QED
  BY <1>1, <1>2 DEF LocksFollowOperations, LocksOf

\* A quiet step preserves the invariant.
LEMMA QuietKeeps ==
    ASSUME OwnershipInv, TypeOK', Quiet
    PROVE  OwnershipInv'
<1>1. LocksFollowOperations'
  BY DEF OwnershipInv, LocksFollowOperations, LocksOf, Quiet
<1>2. OwnerNotOvertaken'
  BY DEF OwnershipInv, OwnerNotOvertaken, HoldsExactLocks, Plan, Quiet, NoNewRunner, TypeOK, Locals
<1>3. PlannedOwnersEnded'
  <2> SUFFICES ASSUME NEW r \in Recoveries, recovery[r] # NoSnapshot,
                      NEW l \in recovery[r].snapshot.locks
               PROVE  proc'[l[2].owner].pc \in Ended
    BY DEF PlannedOwnersEnded, Quiet
  <2>1. l[2].owner \in Procs
    BY DEF OwnershipInv, TypeOK, RecoveryTypeOK, Snapshots, LockRows
  <2>2. proc[l[2].owner].pc \in Ended
    BY DEF OwnershipInv, PlannedOwnersEnded
  <2>3. QED
    BY <2>1, <2>2 DEF Quiet, NoNewRunner
<1>4. QED
  BY <1>1, <1>2, <1>3 DEF OwnershipInv

\* Planning a recovery preserves the invariant: no live process owns a lock of
\* the snapshot.
LEMMA PlanRecoveryKeeps ==
    ASSUME OwnershipInv, TypeOK', NEW r \in Recoveries, PlanRecovery(r)
    PROVE  OwnershipInv'
<1>1. UNCHANGED <<opStatus, locks, proc>>
  BY DEF PlanRecovery, PlanOperationRecovery, PutPlan
<1>2. LocksFollowOperations' /\ OwnerNotOvertaken'
  BY <1>1 DEF OwnershipInv, LocksFollowOperations, LocksOf, OwnerNotOvertaken, HoldsExactLocks, Plan
<1>3. PlannedOwnersEnded'
  <2> DEFINE snapshot == RecoverySnapshot(Target[r])
             parameters == [snapshot |-> snapshot, mode |-> RecoveryMode(snapshot)]
  <2>1. recovery' = [recovery EXCEPT ![r] = parameters] /\ DOMAIN recovery = Recoveries
    BY DEF PlanRecovery, PlanOperationRecovery, OwnershipInv, TypeOK, RecoveryTypeOK
  <2>2. ASSUME NEW l \in snapshot.locks PROVE proc[l[2].owner].pc \in Ended
    <3>1. PICK k \in LocksOf(Target[r]) : l = <<k, locks[k]>>
      BY DEF RecoverySnapshot
    <3>2. l[2].owner \in Procs
      BY <3>1 DEF LocksOf, OwnershipInv, TypeOK, StoreTypeOK, LockRows
    <3>3. l[2].owner \notin Alive
      BY DEF PlanRecovery, PlanOperationRecovery, CanPlanOperationRecovery, Automatable
    <3>4. QED
      BY <3>2, <3>3 DEF Alive
  <2> HIDE DEF snapshot
  <2>3. parameters.snapshot = snapshot
    OBVIOUS
  <2> HIDE DEF parameters
  <2>4. QED
    BY <1>1, <2>1, <2>2, <2>3 DEF PlannedOwnersEnded, OwnershipInv
<1>4. QED
  BY <1>2, <1>3 DEF OwnershipInv
\* A start preserves the invariant: its locks were free, so they belong to
\* nobody's write set that is held.
LEMMA StartKeeps ==
    ASSUME OwnershipInv, TypeOK', NEW q \in Procs, Starts(q)
    PROVE  OwnershipInv'
<1> DEFINE p == Plan(q)
           row == [op |-> p, owner |-> q, token |-> fencing + 1]
           started == [Blank EXCEPT !.pc = "started", !.plan = p, !.token = fencing + 1]
<1>0. /\ TypeOK /\ proc \in [Procs -> Locals] /\ p \in AllPlans
      /\ opStatus \in [AllPlans -> OpStates]
      /\ fencing + 1 \in Nat
  BY DEF OwnershipInv, TypeOK, StoreTypeOK, Locals, Plan
<1>1. /\ opStatus[p] = "none" /\ \A k \in planWriteSet(p) : locks[k] = NoLock
      /\ opStatus' = [opStatus EXCEPT ![p] = "applying"]
      /\ locks' = [k \in LockKeys |-> IF k \in planWriteSet(p) THEN row ELSE locks[k]]
      /\ UNCHANGED recovery
  BY DEF Starts, CanStartApprovedOperation, StartApprovedOperation
<1>2. row # NoLock /\ row.op = p
  BY <1>0, NoLockAssumption DEF LockRows
<1>3. planWriteSet(p) \subseteq LockKeys
  BY <1>0, WriteSetKeys
<1>4. \A o \in Procs : o # q => proc'[o] = proc[o]
  BY <1>0 DEF Starts, Become, Goto
<1>5. proc'[q].pc \in Running => Plan(q)' = p /\ proc'[q].token = fencing + 1
  <2>1. CASE Become(q, started)
    <3>1. started.plan = p /\ started.token = fencing + 1
      BY DEF Blank
    <3> HIDE DEF started
    <3>2. proc'[q] = started
      BY <1>0, <2>1 DEF Become
    <3>3. QED
      BY <3>1, <3>2 DEF Plan
  <2>2. CASE Goto(q, "startfailed")
    <3>1. proc'[q].pc = "startfailed"
      BY <1>0, <2>2 DEF Goto, Become, Locals
    <3>2. QED
      BY <3>1 DEF Running
  <2>3. QED
    BY <2>1, <2>2 DEF Starts
<1>6. \A o \in Procs : proc[o].pc \in Running => Plan(o) # p
  BY <1>1 DEF OwnershipInv, OwnerNotOvertaken
<1> HIDE DEF row, started, p
<1>7. LocksFollowOperations'
  <2> SUFFICES ASSUME NEW o \in AllPlans
               PROVE  LocksOf(o)' = IF opStatus'[o] = "applying" THEN planWriteSet(o) ELSE {}
    BY DEF LocksFollowOperations
  <2>1. CASE o = p
    <3>1. LocksOf(p) = {}
      BY <1>0, <1>1 DEF OwnershipInv, LocksFollowOperations
    <3>2. QED
      BY <1>0, <1>1, <1>2, <1>3, <2>1, <3>1 DEF LocksOf
  <2>2. CASE o # p
    <3>1. LocksOf(o)' = LocksOf(o)
      BY <1>1, <1>2, <1>3, <2>2 DEF LocksOf
    <3>2. opStatus'[o] = opStatus[o]
      BY <1>0, <1>1, <2>2
    <3>3. QED
      BY <3>1, <3>2 DEF OwnershipInv, LocksFollowOperations
  <2>3. QED
    BY <2>1, <2>2
<1>8. OwnerNotOvertaken'
  <2> SUFFICES ASSUME NEW o \in Procs, proc'[o].pc \in Running
               PROVE  /\ opStatus'[Plan(o)'] = "applying"
                      /\ HoldsExactLocks(Plan(o), o, proc[o].token)'
                      /\ \A other \in Procs \ {o} : proc'[other].pc \in Running => Plan(other)' # Plan(o)'
    BY DEF OwnerNotOvertaken
  <2>1. CASE o = q
    <3>1. opStatus'[Plan(o)'] = "applying"
      BY <1>0, <1>1, <1>5, <2>1
    <3>2. HoldsExactLocks(Plan(o), o, proc[o].token)'
      BY <1>1, <1>3, <1>5, <2>1 DEF HoldsExactLocks, row
    <3>3. \A other \in Procs \ {o} : proc'[other].pc \in Running => Plan(other)' # Plan(o)'
      BY <1>4, <1>5, <1>6, <2>1 DEF Plan
    <3>4. QED
      BY <3>1, <3>2, <3>3
  <2>2. CASE o # q
    <3>1. /\ proc'[o] = proc[o] /\ Plan(o)' = Plan(o) /\ Plan(o) # p /\ Plan(o) \in AllPlans
          /\ proc[o].pc \in Running
      BY <1>0, <1>4, <1>6, <2>2 DEF Plan, Locals
    <3>2. /\ opStatus[Plan(o)] = "applying" /\ HoldsExactLocks(Plan(o), o, proc[o].token)
          /\ \A other \in Procs \ {o} : proc[other].pc \in Running => Plan(other) # Plan(o)
      BY <3>1 DEF OwnershipInv, OwnerNotOvertaken
    <3>3. opStatus'[Plan(o)'] = "applying"
      BY <1>0, <1>1, <3>1, <3>2
    <3>4. HoldsExactLocks(Plan(o), o, proc[o].token)'
      <4>1. \A k \in planWriteSet(Plan(o)) : k \in LockKeys /\ locks[k] # NoLock
        BY <1>0, <3>1, <3>2, RowFacts DEF OwnershipInv
      <4>2. \A k \in planWriteSet(Plan(o)) : locks'[k] = locks[k]
        BY <1>1, <4>1
      <4>3. QED
        BY <3>1, <3>2, <4>2 DEF HoldsExactLocks
    <3>5. \A other \in Procs \ {o} : proc'[other].pc \in Running => Plan(other)' # Plan(o)'
      <4> SUFFICES ASSUME NEW other \in Procs \ {o}, proc'[other].pc \in Running
                   PROVE  Plan(other)' # Plan(o)
        BY <3>1
      <4>1. CASE other = q
        BY <1>5, <3>1, <4>1
      <4>2. CASE other # q
        BY <1>4, <3>2, <4>2 DEF Plan
      <4>3. QED
        BY <4>1, <4>2
    <3>6. QED
      BY <3>3, <3>4, <3>5
  <2>3. QED
    BY <2>1, <2>2
<1>9. PlannedOwnersEnded'
  <2> SUFFICES ASSUME NEW r \in Recoveries, recovery[r] # NoSnapshot,
                      NEW l \in recovery[r].snapshot.locks
               PROVE  proc'[l[2].owner].pc \in Ended
    BY <1>1 DEF PlannedOwnersEnded
  <2>1. l[2].owner \in Procs
    BY DEF OwnershipInv, TypeOK, RecoveryTypeOK, Snapshots, LockRows
  <2>2. proc[l[2].owner].pc \in Ended
    BY DEF OwnershipInv, PlannedOwnersEnded
  <2>3. l[2].owner # q
    BY <2>2 DEF Starts, Ended
  <2>4. QED
    BY <1>4, <2>1, <2>2, <2>3
<1>10. QED
  BY <1>7, <1>8, <1>9 DEF OwnershipInv
\* Closing an operation that no process goes on running preserves the
\* invariant.
LEMMA CloseKeeps ==
    ASSUME OwnershipInv, TypeOK', NoNewRunner, UNCHANGED recovery,
           NEW p \in AllPlans, NEW status, status # "applying",
           opStatus' = [opStatus EXCEPT ![p] = status], locks' = ReleaseLocks(p),
           \A o \in Procs : proc'[o].pc \in Running => Plan(o) # p
    PROVE  OwnershipInv'
<1>0. TypeOK /\ proc \in [Procs -> Locals] /\ opStatus \in [AllPlans -> OpStates]
  BY DEF OwnershipInv, TypeOK, StoreTypeOK
<1>1. LocksFollowOperations'
  <2> SUFFICES ASSUME NEW o \in AllPlans
               PROVE  LocksOf(o)' = IF opStatus'[o] = "applying" THEN planWriteSet(o) ELSE {}
    BY DEF LocksFollowOperations
  <2>1. CASE o = p
    BY <1>0, <2>1 DEF LocksOf, ReleaseLocks
  <2>2. CASE o # p
    <3>1. LocksOf(o)' = LocksOf(o)
      BY <2>2 DEF LocksOf, ReleaseLocks
    <3>2. opStatus'[o] = opStatus[o]
      BY <1>0, <2>2
    <3>3. QED
      BY <3>1, <3>2 DEF OwnershipInv, LocksFollowOperations
  <2>3. QED
    BY <2>1, <2>2
<1>2. OwnerNotOvertaken'
  <2> SUFFICES ASSUME NEW o \in Procs, proc'[o].pc \in Running
               PROVE  /\ opStatus'[Plan(o)'] = "applying"
                      /\ HoldsExactLocks(Plan(o), o, proc[o].token)'
                      /\ \A other \in Procs \ {o} : proc'[other].pc \in Running => Plan(other)' # Plan(o)'
    BY DEF OwnerNotOvertaken
  <2>1. /\ Plan(o)' = Plan(o) /\ Plan(o) # p /\ Plan(o) \in AllPlans
        /\ proc'[o].token = proc[o].token /\ proc[o].pc \in Running
    BY <1>0 DEF Plan, Locals, NoNewRunner
  <2>2. /\ opStatus[Plan(o)] = "applying" /\ HoldsExactLocks(Plan(o), o, proc[o].token)
        /\ \A other \in Procs \ {o} : proc[other].pc \in Running => Plan(other) # Plan(o)
    BY <2>1 DEF OwnershipInv, OwnerNotOvertaken
  <2>3. opStatus'[Plan(o)'] = "applying"
    BY <1>0, <2>1, <2>2
  <2>4. HoldsExactLocks(Plan(o), o, proc[o].token)'
    <3>1. \A k \in planWriteSet(Plan(o)) : k \in LockKeys /\ locks[k].op = Plan(o)
      BY <1>0, <2>1, <2>2, RowFacts DEF OwnershipInv
    <3>2. \A k \in planWriteSet(Plan(o)) : locks'[k] = locks[k]
      BY <2>1, <3>1 DEF ReleaseLocks, LocksOf
    <3>3. QED
      BY <2>1, <2>2, <3>2 DEF HoldsExactLocks
  <2>5. \A other \in Procs \ {o} : proc'[other].pc \in Running => Plan(other)' # Plan(o)'
    BY <2>1, <2>2 DEF NoNewRunner, Plan
  <2>6. QED
    BY <2>3, <2>4, <2>5
<1>3. PlannedOwnersEnded'
  <2> SUFFICES ASSUME NEW r \in Recoveries, recovery[r] # NoSnapshot,
                      NEW l \in recovery[r].snapshot.locks
               PROVE  proc'[l[2].owner].pc \in Ended
    BY DEF PlannedOwnersEnded
  <2>1. l[2].owner \in Procs /\ proc[l[2].owner].pc \in Ended
    BY DEF OwnershipInv, PlannedOwnersEnded, TypeOK, RecoveryTypeOK, Snapshots, LockRows
  <2>2. QED
    BY <2>1 DEF NoNewRunner
<1>4. QED
  BY <1>1, <1>2, <1>3 DEF OwnershipInv

\* A finalization preserves the invariant: only the returning process ran it.
LEMMA FinalizeKeeps ==
    ASSUME OwnershipInv, TypeOK', NEW q \in Procs, Finalizes(q)
    PROVE  OwnershipInv'
<1>1. proc \in [Procs -> Locals] /\ Plan(q) \in AllPlans
  BY DEF OwnershipInv, TypeOK, Locals, Plan
<1>2. NoNewRunner /\ proc'[q].pc = "done"
  BY <1>1, ReturnRunner DEF Finalizes
<1>3. \A o \in Procs : proc'[o].pc \in Running => Plan(o) # Plan(q)
  BY <1>2 DEF OwnershipInv, OwnerNotOvertaken, Finalizes, Running, NoNewRunner
<1>4. proc[q].fin.op # "applying"
  BY DEF Finalizes, CanFinalizeOperation, validFinalizationPairs
<1>5. QED
  BY <1>1, <1>2, <1>3, <1>4, CloseKeeps DEF Finalizes, FinalizeOperation

\* The handler of a recovery finds an interrupted operation that no process
\* runs: its locks are those of the snapshot, whose owners have ended.
LEMMA RecoveredWasAbandoned ==
    ASSUME OwnershipInv, NEW r \in Recoveries, CanApplyRecovery(r)
    PROVE  /\ opStatus[Target[r]] = "applying"
           /\ \A o \in Procs : proc[o].pc \in Running => Plan(o) # Target[r]
<1> DEFINE p == Target[r]
<1>0. p \in AllPlans /\ TypeOK /\ recovery[r] # NoSnapshot
  BY TargetAssumption DEF OwnershipInv, CanApplyRecovery
<1>1. PICK k \in LocksOf(p) : TRUE
  BY DEF CanApplyRecovery, CanRecoverOperation
<1>2. k \in LockKeys /\ locks[k] # NoLock /\ locks[k].op = p /\ k \in planWriteSet(p)
      /\ opStatus[p] = "applying"
  BY <1>0, <1>1, RowFacts DEF OwnershipInv, LocksOf
<1>3. <<k, locks[k]>> \in recovery[r].snapshot.locks
  BY <1>1 DEF CanApplyRecovery, CanRecoverOperation, RecoverySnapshot
<1>4. proc[locks[k].owner].pc \in Ended
  BY <1>0, <1>3 DEF OwnershipInv, PlannedOwnersEnded
<1>5. ASSUME NEW o \in Procs, proc[o].pc \in Running, Plan(o) = p PROVE FALSE
  <2>1. HoldsExactLocks(p, o, proc[o].token)
    BY <1>5 DEF OwnershipInv, OwnerNotOvertaken
  <2>2. locks[k] = [op |-> p, owner |-> o, token |-> proc[o].token]
    BY <1>2, <2>1 DEF HoldsExactLocks
  <2>3. locks[k].owner = o
    BY <2>2
  <2>4. QED
    BY <1>4, <1>5, <2>3 DEF Running, Ended
<1>6. QED
  BY <1>2, <1>5

\* The handler of a recovery preserves the invariant.
LEMMA RecoverKeeps ==
    ASSUME OwnershipInv, TypeOK', NEW q \in Procs, Recovers(q)
    PROVE  OwnershipInv'
<1> DEFINE r == Plan(q)
           mode == recovery[r].mode
<1>1. /\ r \in Recoveries /\ Target[r] \in AllPlans /\ CanApplyRecovery(r) /\ ApplyRecovery(r)
      /\ NoNewRunner /\ UNCHANGED recovery
  BY TargetAssumption DEF Recovers
<1>2. /\ opStatus[Target[r]] = "applying"
      /\ \A o \in Procs : proc[o].pc \in Running => Plan(o) # Target[r]
  BY <1>1, RecoveredWasAbandoned
<1>3. mode # "release-stale-locks"
  BY <1>1, <1>2 DEF CanApplyRecovery, CanRecoverOperation, ModeFits
<1>4. /\ opStatus' = [opStatus EXCEPT ![Target[r]] = RecoveredStatus(mode)]
      /\ locks' = ReleaseLocks(Target[r])
  BY <1>1, <1>3 DEF ApplyRecovery, RecoverOperation
<1>5. RecoveredStatus(mode) # "applying"
  BY DEF RecoveredStatus
<1>6. \A o \in Procs : proc'[o].pc \in Running => Plan(o) # Target[r]
  BY <1>1, <1>2 DEF NoNewRunner
<1> HIDE DEF r, mode
<1>7. QED
  BY <1>1, <1>4, <1>5, <1>6, CloseKeeps

-----------------------------------------------------------------------------
\* The theorems.

\* Initially there is no lock, no running process and no planned recovery.
LEMMA OwnershipInit == Init => OwnershipInv
<1> SUFFICES ASSUME Init PROVE OwnershipInv
  OBVIOUS
<1>1. LocksFollowOperations
  BY DEF Init, StoreInit, LocksFollowOperations, LocksOf
<1>2. OwnerNotOvertaken
  BY DEF Init, EngineInit, Blank, OwnerNotOvertaken, Running
<1>3. PlannedOwnersEnded
  BY DEF Init, RecoveryInit, PlannedOwnersEnded
<1>4. QED
  BY <1>1, <1>2, <1>3, InitType DEF OwnershipInv

\* Every step preserves the invariant.
LEMMA OwnershipNext == OwnershipInv /\ [Next]_vars => OwnershipInv'
<1> SUFFICES ASSUME OwnershipInv, [Next]_vars PROVE OwnershipInv'
  OBVIOUS
<1>1. TypeOK /\ TypeOK'
  BY NextType DEF OwnershipInv
<1>2. QED
  BY <1>1, StepKinds, QuietKeeps, StartKeeps, FinalizeKeeps, RecoverKeeps, PlanRecoveryKeeps

\* The invariant holds always.
THEOREM OwnershipInvariant == Spec => []OwnershipInv
BY OwnershipInit, OwnershipNext, PTL DEF Spec

\* Lock rows follow the operations: for any plans, recoveries and processes,
\* an applying operation holds exactly its write set and any other holds no
\* lock, across faults, crashes, lapsed leases and recoveries.
THEOREM LocksFollow == Spec => []LocksFollowOperations
<1>1. OwnershipInv => LocksFollowOperations
  BY DEF OwnershipInv
<1>2. QED
  BY <1>1, OwnershipInvariant, PTL

\* A process that runs an operation is never overtaken by another apply or by
\* a recovery.
THEOREM NotOvertaken == Spec => []OwnerNotOvertaken
<1>1. OwnershipInv => OwnerNotOvertaken
  BY DEF OwnershipInv
<1>2. QED
  BY <1>1, OwnershipInvariant, PTL

\* Handlers and compensations that write a common target never run together.
THEOREM Exclusion == Spec => []WriteSetExclusion
<1>1. OwnershipInv => WriteSetExclusion
  <2> SUFFICES ASSUME OwnershipInv, NEW q \in Procs, NEW other \in Procs, q # other,
                      proc[q].pc \in {"handler", "undoing"},
                      proc[other].pc \in {"handler", "undoing"},
                      NEW k \in planWriteSet(Plan(q)) \cap planWriteSet(Plan(other))
               PROVE  FALSE
    BY DEF WriteSetExclusion
  <2>1. proc[q].pc \in Running /\ proc[other].pc \in Running
    BY DEF Running
  <2>2. /\ locks[k] = [op |-> Plan(q), owner |-> q, token |-> proc[q].token]
        /\ locks[k] = [op |-> Plan(other), owner |-> other, token |-> proc[other].token]
    BY <2>1 DEF OwnershipInv, OwnerNotOvertaken, HoldsExactLocks
  <2>3. locks[k].owner = q /\ locks[k].owner = other
    BY <2>2
  <2>4. QED
    BY <2>3
<1>2. QED
  BY <1>1, OwnershipInvariant, PTL
=============================================================================
