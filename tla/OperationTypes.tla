--------------------------- MODULE OperationTypes ---------------------------
(***************************************************************************)
(* Type correctness of the operation engine, for any plans, recoveries and *)
(* processes: every store call keeps the store's types, and every step of  *)
(* apply those of the locals.                                              *)
(***************************************************************************)
EXTENDS OperationProperties, TLAPS

-----------------------------------------------------------------------------
\* Store calls.

\* The locks of a plan are rows of table locks.
LEMMA WriteSetKeys ==
    \A p \in AllPlans : planWriteSet(p) \subseteq LockKeys
BY DEF LockKeys

\* The initial store has its type.
LEMMA StoreInitType == StoreInit => StoreTypeOK
BY DEF StoreInit, StoreTypeOK, PlanStates, OpStates, StepStates

\* PutPlan keeps the store's type.
LEMMA PutPlanType ==
    ASSUME StoreTypeOK, NEW p \in AllPlans, PutPlan(p)
    PROVE  StoreTypeOK'
BY DEF StoreTypeOK, PutPlan, PlanStates

\* CreatePlanEnablement keeps the store's type.
LEMMA CreatePlanEnablementType ==
    ASSUME StoreTypeOK, NEW p \in AllPlans, CreatePlanEnablement(p)
    PROVE  StoreTypeOK'
BY DEF StoreTypeOK, CreatePlanEnablement

\* TransitionPlan keeps the store's type.
LEMMA TransitionPlanType ==
    ASSUME StoreTypeOK, NEW p \in AllPlans, NEW next \in PlanStates, TransitionPlan(p, next)
    PROVE  StoreTypeOK'
BY DEF StoreTypeOK, TransitionPlan

\* StartApprovedOperation keeps the store's type.
LEMMA StartApprovedOperationType ==
    ASSUME StoreTypeOK, NEW p \in AllPlans, NEW owner \in Procs, NEW signed \in BOOLEAN,
           StartApprovedOperation(p, owner, signed)
    PROVE  StoreTypeOK'
<1>1. [op |-> p, owner |-> owner, token |-> fencing + 1] \in LockRows
  BY DEF StoreTypeOK, LockRows
<1>2. locks' \in [LockKeys -> LockRows \cup {NoLock}]
  BY <1>1 DEF StoreTypeOK, StartApprovedOperation
<1>3. DOMAIN stepStatus' = AllPlans /\ \A o \in AllPlans : stepStatus'[o] \in [StepIds(o) -> StepStates]
  BY DEF StoreTypeOK, StartApprovedOperation, StepStates
<1>4. QED
  BY <1>2, <1>3 DEF StoreTypeOK, StartApprovedOperation, PlanStates, OpStates

\* TransitionStep keeps the store's type.
LEMMA TransitionStepType ==
    ASSUME StoreTypeOK, NEW p \in AllPlans, NEW i, NEW next \in StepStates,
           TransitionStep(p, i, next)
    PROVE  StoreTypeOK'
<1>1. DOMAIN stepStatus' = AllPlans /\ \A o \in AllPlans : stepStatus'[o] \in [StepIds(o) -> StepStates]
  BY DEF StoreTypeOK, TransitionStep
<1>2. QED
  BY <1>1 DEF StoreTypeOK, TransitionStep

\* HeartbeatLocks keeps the store's type.
LEMMA HeartbeatLocksType ==
    ASSUME StoreTypeOK, NEW p \in AllPlans, HeartbeatLocks(p)
    PROVE  StoreTypeOK'
BY DEF StoreTypeOK, HeartbeatLocks

\* Releasing the locks of an operation keeps the type of table locks.
LEMMA ReleaseLocksType ==
    ASSUME StoreTypeOK, NEW p \in AllPlans
    PROVE  ReleaseLocks(p) \in [LockKeys -> LockRows \cup {NoLock}]
BY DEF StoreTypeOK, ReleaseLocks

\* FinalizeOperation keeps the store's type, whatever transitions it is given.
LEMMA FinalizeOperationType ==
    ASSUME StoreTypeOK, NEW p \in AllPlans, NEW fin, fin.op \in OpStates, fin.plan \in PlanStates,
           FinalizeOperation(p, fin)
    PROVE  StoreTypeOK'
<1>1. AfterMoves(p, fin.moves) \in [StepIds(p) -> StepStates]
  BY DEF StoreTypeOK, AfterMoves, StepStates
<1>2. DOMAIN stepStatus' = AllPlans /\ \A o \in AllPlans : stepStatus'[o] \in [StepIds(o) -> StepStates]
  BY <1>1 DEF StoreTypeOK, FinalizeOperation
<1>3. locks' \in [LockKeys -> LockRows \cup {NoLock}]
  BY ReleaseLocksType DEF FinalizeOperation
<1>4. QED
  BY <1>2, <1>3 DEF StoreTypeOK, FinalizeOperation

\* RecoverOperation keeps the store's type.
LEMMA RecoverOperationType ==
    ASSUME StoreTypeOK, NEW p \in AllPlans, NEW mode, RecoverOperation(p, mode)
    PROVE  StoreTypeOK'
<1>1. RecoveredStatus(mode) \in OpStates \cap PlanStates
  BY DEF RecoveredStatus, OpStates, PlanStates
<1>2. DOMAIN stepStatus' = AllPlans /\ \A o \in AllPlans : stepStatus'[o] \in [StepIds(o) -> StepStates]
  BY DEF StoreTypeOK, RecoverOperation, StepStates
<1>3. locks' \in [LockKeys -> LockRows \cup {NoLock}]
  BY ReleaseLocksType DEF RecoverOperation
<1>4. QED
  BY <1>1, <1>2, <1>3 DEF StoreTypeOK, RecoverOperation

\* Time keeps the store's type.
LEMMA TimeType ==
    ASSUME StoreTypeOK, NEW p \in AllPlans, AgePlan(p) \/ LeaseLapse(p)
    PROVE  StoreTypeOK'
<1>1. CASE AgePlan(p)
  BY <1>1 DEF StoreTypeOK, AgePlan
<1>2. CASE LeaseLapse(p)
  BY <1>2 DEF StoreTypeOK, LeaseLapse
<1>3. QED
  BY <1>1, <1>2

\* A snapshot has its type.
LEMMA SnapshotType ==
    ASSUME StoreTypeOK, NEW p \in AllPlans
    PROVE  RecoverySnapshot(p) \in Snapshots
<1>1. {<<k, locks[k]>> : k \in LocksOf(p)} \in SUBSET (LockKeys \X LockRows)
  BY DEF StoreTypeOK, LocksOf
<1>2. stepStatus[p] \in UNION {[StepIds(o) -> StepStates] : o \in AllPlans}
  BY DEF StoreTypeOK
<1>3. QED
  BY <1>1, <1>2 DEF RecoverySnapshot, Snapshots, StoreTypeOK
-----------------------------------------------------------------------------
\* The locals of a process.

Results == {"none", "refused", "expired", "expiry-record-failed", "replay", "closed",
            "finalization-failed"}

\* The locals of a process before and after Apply have their type.
LEMMA BlankType == Blank \in Locals
<1>1. NoPlan \in AllPlans
  BY PlansAssumption DEF NoPlan
<1>2. NoFin \in FinSet
  BY DEF NoFin, FinSet, OpStates, PlanStates
<1>3. QED
  BY <1>1, <1>2 DEF Blank, Locals, Labels, Running, Ended, OpStates, PlanStates

\* A finalization built by one of the error paths has its type.
LEMMA FinType ==
    ASSUME NEW op \in OpStates, NEW plan \in PlanStates, NEW expect \in PlanStates,
           NEW failed \in Nat, NEW attempted \in BOOLEAN
    PROVE  Fin(op, plan, expect, failed, attempted) \in FinSet
BY DEF Fin, FinSet

\* Changing the locals of one process keeps the type of all.
LEMMA BecomeType ==
    ASSUME proc \in [Procs -> Locals], NEW q \in Procs, NEW locals \in Locals, Become(q, locals)
    PROVE  proc' \in [Procs -> Locals]
BY DEF Become

\* Goto keeps the type of the locals.
LEMMA GotoType ==
    ASSUME proc \in [Procs -> Locals], NEW q \in Procs, NEW label \in Labels, Goto(q, label)
    PROVE  proc' \in [Procs -> Locals]
<1>1. [proc[q] EXCEPT !.pc = label] \in Locals
  BY DEF Locals
<1>2. QED
  BY <1>1, BecomeType DEF Goto

\* Returning from Apply keeps the type of the locals.
LEMMA ReturnType ==
    ASSUME proc \in [Procs -> Locals], NEW q \in Procs, NEW result \in Results,
           NEW attempted \in BOOLEAN, Return(q, result, attempted)
    PROVE  proc' \in [Procs -> Locals]
<1>1. [Blank EXCEPT !.pc = "done", !.plan = proc[q].plan,
                    !.result = result, !.attempted = attempted] \in Locals
  BY BlankType DEF Locals, Results, Labels, Running, Ended
<1>2. QED
  BY <1>1, BecomeType DEF Return

\* Heading for the close of an operation keeps the type of the locals.
LEMMA CloseType ==
    ASSUME NEW locals \in Locals, NEW fin \in FinSet
    PROVE  [locals EXCEPT !.pc = "close", !.fin = fin] \in Locals
BY DEF Locals, Labels, Running

\* So does heading for its compensation.
LEMMA CompensateType ==
    ASSUME NEW locals \in Locals, NEW fin \in FinSet, NEW undo \in Int
    PROVE  [locals EXCEPT !.pc = "compensate", !.undo = undo, !.fin = fin] \in Locals
BY DEF Locals, Labels, Running

\* The error paths keep the type of the locals.
LEMMA ErrorPathType ==
    ASSUME proc \in [Procs -> Locals], NEW q \in Procs, NEW failed \in Nat,
           NEW plan \in PlanStates,
           \/ blockBeforeMutation(q, plan) \/ failBeforeHandler(q, failed)
           \/ failAfterAppliedStep(q) \/ failOperation(q) \/ blockOnStepPreconditionDrift(q)
    PROVE  proc' \in [Procs -> Locals]
<1>1. proc[q].succeeded \in Int /\ Current(q) \in Nat
  BY DEF Locals, Current
<1>2. {"blocked", "partial", "failed"} \subseteq OpStates
      /\ {"partial", "failed", "stale", "approved", "applying"} \subseteq PlanStates
  BY DEF OpStates, PlanStates
<1>3. proc[q] \in Locals
  OBVIOUS
<1>4. CASE blockBeforeMutation(q, plan)
  <2>1. Fin("blocked", plan, "approved", 0, FALSE) \in FinSet
    BY <1>2, FinType
  <2>2. QED
    BY <1>3, <1>4, <2>1, CloseType, BecomeType DEF blockBeforeMutation
<1>5. CASE failBeforeHandler(q, failed)
  <2> DEFINE status == IF proc[q].succeeded > 0 THEN "partial" ELSE "failed"
  <2>1. status \in OpStates \cap PlanStates /\ (proc[q].succeeded > 0) \in BOOLEAN
    BY <1>2
  <2>2. Fin(status, status, "applying", failed, proc[q].succeeded > 0) \in FinSet
    BY <1>2, <2>1, FinType
  <2>3. QED
    BY <1>3, <1>5, <2>2, CloseType, BecomeType DEF failBeforeHandler
<1>6. CASE failAfterAppliedStep(q)
  <2>1. Fin("partial", "partial", "applying", 0, TRUE) \in FinSet
    BY <1>2, FinType
  <2>2. QED
    BY <1>3, <1>6, <2>1, CloseType, BecomeType DEF failAfterAppliedStep
<1>7. CASE failOperation(q)
  <2>1. Fin("partial", "partial", "applying", Current(q), TRUE) \in FinSet
    BY <1>1, <1>2, FinType
  <2>2. QED
    BY <1>1, <1>3, <1>7, <2>1, CompensateType, BecomeType DEF failOperation
<1>8. CASE blockOnStepPreconditionDrift(q)
  <2> DEFINE fin == IF proc[q].succeeded > 0
                    THEN Fin("partial", "partial", "applying", 0, TRUE)
                    ELSE Fin("blocked", "stale", "applying", 0, FALSE)
  <2>1. fin \in FinSet
    BY <1>2, FinType
  <2>2. QED
    BY <1>1, <1>3, <1>8, <2>1, CompensateType, BecomeType DEF blockOnStepPreconditionDrift
<1>9. QED
  BY <1>4, <1>5, <1>6, <1>7, <1>8
-----------------------------------------------------------------------------
\* The steps of apply.

\* A fault stays within the bound.
LEMMA FaultType ==
    ASSUME faults \in 0..MaxFaults, Fault \/ UNCHANGED faults
    PROVE  faults' \in 0..MaxFaults
BY BoundsAssumption DEF Fault

\* A step that leaves the store alone keeps its type.
LEMMA StoreUnchanged == StoreTypeOK /\ UNCHANGED storeVars => StoreTypeOK'
BY DEF StoreTypeOK, storeVars

\* So does a step that leaves the recoveries alone.
LEMMA RecoveryUnchanged == RecoveryTypeOK /\ UNCHANGED recovery => RecoveryTypeOK'
BY DEF RecoveryTypeOK

\* A step of a process leaves the recoveries and the number of crashes alone;
\* it is typed when its effects on the store, its locals, the handler calls
\* and the faults are.
LEMMA StepType ==
    ASSUME TypeOK, StoreTypeOK', proc' \in [Procs -> Locals],
           Fault \/ UNCHANGED faults, UNCHANGED <<recovery, called, crashes>>
    PROVE  TypeOK'
BY FaultType, RecoveryUnchanged DEF TypeOK

\* Steps up to the start of the operation keep the types.
LEMMA GateStepsType ==
    ASSUME TypeOK, NEW q \in Procs,
           \/ Refuse(q) \/ LookupOperation(q) \/ RecordExpiry(q) \/ Gate(q) \/ Start(q)
           \/ StartFailed(q) \/ replayApply(q)
    PROVE  TypeOK'
<1>0. /\ StoreTypeOK /\ proc \in [Procs -> Locals] /\ proc[q] \in Locals
      /\ Plan(q) \in AllPlans /\ proc[q].signed \in BOOLEAN
      /\ {"loaded", "expire", "gate", "start", "startfailed", "replay", "started"} \subseteq Labels
  BY DEF TypeOK, Plan, Locals, Labels, Running
<1>1. CASE Refuse(q)
  <2>1. proc' \in [Procs -> Locals]
    BY <1>0, <1>1, ReturnType DEF Refuse, Results
  <2>2. QED
    BY <1>0, <1>1, <2>1, StoreUnchanged, StepType DEF Refuse
<1>2. ASSUME LookupOperation(q) \/ StartFailed(q) PROVE TypeOK'
  <2> DEFINE replay == [Blank EXCEPT !.pc = "replay", !.plan = Plan(q), !.record = opStatus[Plan(q)]]
  <2>1. opStatus[Plan(q)] \in OpStates
    BY <1>0 DEF StoreTypeOK
  <2>2. replay \in Locals
    BY <1>0, <2>1, BlankType DEF Locals
  <2>3. proc' \in [Procs -> Locals]
    <3>1. CASE Become(q, replay)
      BY <1>0, <2>2, <3>1, BecomeType
    <3>2. CASE Goto(q, IF proc[q].now = 2 THEN "expire" ELSE "gate")
      BY <1>0, <3>2, GotoType
    <3>3. QED
      BY <1>2, <3>1, <3>2 DEF LookupOperation, StartFailed
  <2>4. QED
    BY <1>0, <1>2, <2>3, StoreUnchanged, StepType DEF LookupOperation, StartFailed
<1>3. CASE RecordExpiry(q)
  <2>1. proc' \in [Procs -> Locals]
    BY <1>0, <1>3, ReturnType DEF RecordExpiry, StoreCall, Results
  <2>2. StoreTypeOK'
    <3>1. CASE TransitionPlan(Plan(q), "stale")
      BY <1>0, <3>1, TransitionPlanType DEF PlanStates
    <3>2. CASE UNCHANGED storeVars
      BY <1>0, <3>2, StoreUnchanged
    <3>3. QED
      BY <1>3, <3>1, <3>2 DEF RecordExpiry, StoreCall
  <2>3. QED
    BY <1>3, <2>1, <2>2, StepType DEF RecordExpiry, StoreCall
<1>4. CASE Gate(q)
  BY <1>0, <1>4, GotoType, StoreUnchanged, StepType DEF Gate
<1>5. CASE Start(q)
  <2>0. fencing + 1 \in Nat
    BY <1>0 DEF StoreTypeOK
  <2>1. [Blank EXCEPT !.pc = "started", !.plan = Plan(q), !.token = fencing + 1] \in Locals
    BY <1>0, <2>0, BlankType DEF Locals
  <2>2. proc' \in [Procs -> Locals]
    <3>1. CASE Goto(q, "startfailed")
      BY <1>0, <3>1, GotoType
    <3>2. CASE Become(q, [Blank EXCEPT !.pc = "started", !.plan = Plan(q), !.token = fencing + 1])
      BY <1>0, <2>1, <3>2, BecomeType
    <3>3. QED
      BY <1>5, <3>1, <3>2 DEF Start, StoreCall
  <2>3. StoreTypeOK'
    <3>1. CASE StartApprovedOperation(Plan(q), q, proc[q].signed)
      BY <1>0, <3>1, StartApprovedOperationType
    <3>2. CASE UNCHANGED storeVars
      BY <1>0, <3>2, StoreUnchanged
    <3>3. QED
      BY <1>5, <3>1, <3>2 DEF Start, StoreCall
  <2>4. QED
    BY <1>5, <2>2, <2>3, StepType DEF Start, StoreCall
<1>6. CASE replayApply(q)
  <2>1. Attempted(Plan(q), proc[q].record) \in BOOLEAN
    BY <1>0 DEF Attempted, StoreTypeOK
  <2>2. proc' \in [Procs -> Locals]
    BY <1>0, <1>6, <2>1, ReturnType DEF replayApply, Results
  <2>3. QED
    BY <1>0, <1>6, <2>2, StoreUnchanged, StepType DEF replayApply
<1>7. QED
  BY <1>1, <1>2, <1>3, <1>4, <1>5, <1>6
\* Counting one more call keeps a function of counts one.
LEMMA CountType ==
    ASSUME NEW S, NEW f \in [S -> Nat], NEW i
    PROVE  [f EXCEPT ![i] = f[i] + 1] \in [S -> Nat]
<1>1. CASE i \in S
  BY <1>1
<1>2. CASE i \notin S
  <2>1. \A j \in S : [f EXCEPT ![i] = f[i] + 1][j] = f[j]
    BY <1>2
  <2>2. QED
    BY <2>1
<1>3. QED
  BY <1>1, <1>2

\* The handler of a recovery keeps the store's type.
LEMMA ApplyRecoveryType ==
    ASSUME TypeOK, NEW r \in Recoveries, ApplyRecovery(r)
    PROVE  StoreTypeOK'
BY RecoverOperationType, TargetAssumption DEF TypeOK, ApplyRecovery

\* Going to the next step, or to finalization, keeps the type of the locals.
LEMMA NextStepType ==
    ASSUME TypeOK, NEW q \in Procs, NextStep(q)
    PROVE  proc' \in [Procs -> Locals]
<1>1. proc[q] \in Locals /\ Plan(q) \in AllPlans /\ proc[q].succeeded + 1 \in Nat
  BY DEF TypeOK, Locals, Plan
<1>2. CASE Current(q) < Len(Steps[Plan(q)])
  <2>1. [proc[q] EXCEPT !.pc = "step", !.succeeded = proc[q].succeeded + 1] \in Locals
    BY <1>1 DEF Locals, Labels, Running
  <2>2. QED
    BY <1>2, <2>1, BecomeType DEF NextStep, TypeOK
<1>3. CASE ~(Current(q) < Len(Steps[Plan(q)]))
  <2> DEFINE keep == [i \in StepIds(Plan(q)) |-> "keep"]
             fin == [Fin("succeeded", "succeeded", "applying", 0, TRUE) EXCEPT !.moves = keep]
  <2>0. keep \in UNION {[StepIds(p) -> {"keep", "pending", "applying"}] : p \in AllPlans}
    BY <1>1
  <2> HIDE DEF keep
  <2>1. fin \in FinSet
    BY <2>0 DEF Fin, FinSet, OpStates, PlanStates
  <2> HIDE DEF fin
  <2>2. [proc[q] EXCEPT !.pc = "finalize", !.succeeded = @ + 1, !.fin = fin] \in Locals
    BY <1>1, <2>1 DEF Locals, Labels, Running
  <2>3. QED
    BY <1>3, <2>2, BecomeType DEF NextStep, TypeOK, fin, keep
<1>4. QED
  BY <1>2, <1>3

\* Steps of a running operation keep the types.
LEMMA RunStepsType ==
    ASSUME TypeOK, NEW q \in Procs,
           \/ checkPreconditions(q) \/ BeginApplying(q) \/ RecheckRepository(q) \/ BeginStep(q)
           \/ HeartbeatBeforeHandler(q) \/ CallHandler(q) \/ HeartbeatAfterHandler(q)
           \/ VerifyStep(q) \/ RecordStep(q)
    PROVE  TypeOK'
<1>0. /\ StoreTypeOK /\ proc \in [Procs -> Locals] /\ proc[q] \in Locals
      /\ Plan(q) \in AllPlans /\ Current(q) \in Nat
      /\ {"verified", "step", "rechecked", "heartbeat", "handler", "handled", "verify",
          "record"} \subseteq Labels
      /\ {"stale", "failed", "applying"} \subseteq PlanStates
  BY DEF TypeOK, Plan, Current, Locals, Labels, Running, PlanStates
<1>1. CASE checkPreconditions(q)
  <2>1. proc' \in [Procs -> Locals]
    BY <1>0, <1>1, GotoType, ErrorPathType DEF checkPreconditions
  <2>2. QED
    BY <1>0, <1>1, <2>1, StoreUnchanged, StepType DEF checkPreconditions
<1>2. CASE BeginApplying(q)
  <2>1. proc' \in [Procs -> Locals]
    BY <1>0, <1>2, GotoType, ErrorPathType DEF BeginApplying, StoreCall, AppendEvent
  <2>2. StoreTypeOK'
    <3>1. CASE TransitionPlan(Plan(q), "applying")
      BY <1>0, <3>1, TransitionPlanType
    <3>2. CASE UNCHANGED storeVars
      BY <1>0, <3>2, StoreUnchanged
    <3>3. QED
      BY <1>2, <3>1, <3>2 DEF BeginApplying, StoreCall, AppendEvent
  <2>3. QED
    BY <1>2, <2>1, <2>2, StepType DEF BeginApplying, StoreCall, AppendEvent
<1>3. CASE RecheckRepository(q)
  <2>1. proc' \in [Procs -> Locals]
    BY <1>0, <1>3, GotoType, ErrorPathType DEF RecheckRepository, AppendEvent
  <2>2. QED
    BY <1>0, <1>3, <2>1, StoreUnchanged, StepType DEF RecheckRepository, AppendEvent
<1>4. CASE BeginStep(q)
  <2>1. proc' \in [Procs -> Locals]
    BY <1>0, <1>4, GotoType, ErrorPathType DEF BeginStep, StoreCall, AppendEvent
  <2>2. StoreTypeOK'
    <3>1. CASE TransitionStep(Plan(q), Current(q), "applying")
      BY <1>0, <3>1, TransitionStepType DEF StepStates
    <3>2. CASE UNCHANGED storeVars
      BY <1>0, <3>2, StoreUnchanged
    <3>3. QED
      BY <1>4, <3>1, <3>2 DEF BeginStep, StoreCall, AppendEvent
  <2>3. QED
    BY <1>4, <2>1, <2>2, StepType DEF BeginStep, StoreCall, AppendEvent
<1>5. CASE HeartbeatBeforeHandler(q)
  <2>1. proc' \in [Procs -> Locals]
    BY <1>0, <1>5, GotoType, ErrorPathType DEF HeartbeatBeforeHandler, heartbeatLocks, StoreCall
  <2>2. StoreTypeOK'
    <3>1. CASE HeartbeatLocks(Plan(q))
      BY <1>0, <3>1, HeartbeatLocksType
    <3>2. CASE UNCHANGED storeVars
      BY <1>0, <3>2, StoreUnchanged
    <3>3. QED
      BY <1>5, <3>1, <3>2 DEF HeartbeatBeforeHandler, heartbeatLocks, StoreCall
  <2>3. QED
    BY <1>5, <2>1, <2>2, StepType DEF HeartbeatBeforeHandler, heartbeatLocks, StoreCall
<1>6. CASE CallHandler(q)
  <2>1. proc' \in [Procs -> Locals]
    BY <1>0, <1>6, GotoType, ErrorPathType DEF CallHandler, StoreCall
  <2>2. StoreTypeOK'
    <3>1. CASE Plan(q) \in Recoveries /\ ApplyRecovery(Plan(q))
      BY <1>0, <3>1, ApplyRecoveryType DEF TypeOK
    <3>2. CASE UNCHANGED storeVars
      BY <1>0, <3>2, StoreUnchanged
    <3>3. QED
      BY <1>6, <3>1, <3>2 DEF CallHandler, StoreCall
  <2>3. DOMAIN called' = AllPlans /\ \A p \in AllPlans : called'[p] \in [StepIds(p) -> Nat]
    <3> DEFINE calls == called[Plan(q)]
               counted == [calls EXCEPT ![Current(q)] = calls[Current(q)] + 1]
    <3>1. calls \in [StepIds(Plan(q)) -> Nat]
      BY <1>0 DEF TypeOK
    <3>2. counted \in [StepIds(Plan(q)) -> Nat]
      BY <3>1, CountType
    <3>3. called' = [called EXCEPT ![Plan(q)] = counted]
      BY <1>6 DEF CallHandler
    <3>4. QED
      <4> HIDE DEF counted
      <4>1. QED
        BY <3>2, <3>3 DEF TypeOK
  <2>4. faults' \in 0..MaxFaults
    BY <1>6, FaultType DEF CallHandler, StoreCall, TypeOK
  <2>5. QED
    BY <1>6, <2>1, <2>2, <2>3, <2>4, RecoveryUnchanged DEF CallHandler, TypeOK
<1>7. CASE HeartbeatAfterHandler(q)
  <2>1. proc' \in [Procs -> Locals]
    BY <1>0, <1>7, GotoType, ErrorPathType DEF HeartbeatAfterHandler, heartbeatLocks, StoreCall
  <2>2. StoreTypeOK'
    <3>1. CASE HeartbeatLocks(Plan(q))
      BY <1>0, <3>1, HeartbeatLocksType
    <3>2. CASE UNCHANGED storeVars
      BY <1>0, <3>2, StoreUnchanged
    <3>3. QED
      BY <1>7, <3>1, <3>2 DEF HeartbeatAfterHandler, heartbeatLocks, StoreCall
  <2>3. QED
    BY <1>7, <2>1, <2>2, StepType DEF HeartbeatAfterHandler, heartbeatLocks, StoreCall
<1>8. CASE VerifyStep(q)
  <2>1. proc' \in [Procs -> Locals]
    BY <1>0, <1>8, GotoType, ErrorPathType DEF VerifyStep
  <2>2. QED
    BY <1>0, <1>8, <2>1, StoreUnchanged, StepType DEF VerifyStep
<1>9. CASE RecordStep(q)
  <2>1. proc' \in [Procs -> Locals]
    BY <1>0, <1>9, NextStepType, ErrorPathType DEF RecordStep, StoreCall, AppendEvent
  <2>2. StoreTypeOK'
    <3>1. CASE TransitionStep(Plan(q), Current(q), "succeeded")
      BY <1>0, <3>1, TransitionStepType DEF StepStates
    <3>2. CASE UNCHANGED storeVars
      BY <1>0, <3>2, StoreUnchanged
    <3>3. QED
      BY <1>9, <3>1, <3>2 DEF RecordStep, StoreCall, AppendEvent
  <2>3. QED
    BY <1>9, <2>1, <2>2, StepType DEF RecordStep, StoreCall, AppendEvent
<1>10. QED
  BY <1>1, <1>2, <1>3, <1>4, <1>5, <1>6, <1>7, <1>8, <1>9
\* Compensation and finalization keep the types.
LEMMA CloseStepsType ==
    ASSUME TypeOK, NEW q \in Procs,
           \/ Compensate(q) \/ BeginUndo(q) \/ CallCompensation(q) \/ RecordCompensation(q)
           \/ RecordCompensationFailure(q)
           \/ terminalStepTransitions(q) \/ Finalize(q)
    PROVE  TypeOK'
<1>0. /\ StoreTypeOK /\ proc \in [Procs -> Locals] /\ proc[q] \in Locals
      /\ Plan(q) \in AllPlans /\ proc[q].fin \in FinSet /\ proc[q].fin.attempted \in BOOLEAN
      /\ {"compensate", "undo", "undoing", "undone", "undofailed", "close",
          "finalize"} \subseteq Labels
  BY DEF TypeOK, Plan, Locals, Labels, Running, FinSet
<1>1. CASE Compensate(q)
  <2>0. \A i \in Int : [proc[q] EXCEPT !.pc = "undo", !.undo = i] \in Locals
    BY <1>0 DEF Locals
  <2> PICK i \in 0..proc[q].undo :
         IF i = 0
         THEN Goto(q, "close") /\ UNCHANGED <<storeVars, faults>>
         ELSE heartbeatLocks(q, Become(q, [proc[q] EXCEPT !.pc = "undo", !.undo = i]),
                             Goto(q, "close"))
    BY <1>1 DEF Compensate
  <2>1. [proc[q] EXCEPT !.pc = "undo", !.undo = i] \in Locals
    <3>1. i \in Int
      BY <1>0 DEF Locals
    <3>2. QED
      BY <2>0, <3>1
  <2>2. proc' \in [Procs -> Locals]
    <3>1. CASE Goto(q, "close")
      BY <1>0, <3>1, GotoType
    <3>2. CASE Become(q, [proc[q] EXCEPT !.pc = "undo", !.undo = i])
      BY <1>0, <2>1, <3>2, BecomeType
    <3>3. QED
      BY <3>1, <3>2 DEF heartbeatLocks, StoreCall
  <2>3. StoreTypeOK'
    <3>1. CASE HeartbeatLocks(Plan(q))
      BY <1>0, <3>1, HeartbeatLocksType
    <3>2. CASE UNCHANGED storeVars
      BY <1>0, <3>2, StoreUnchanged
    <3>3. QED
      BY <3>1, <3>2 DEF heartbeatLocks, StoreCall
  <2>4. Fault \/ UNCHANGED faults
    BY DEF heartbeatLocks, StoreCall
  <2>5. QED
    BY <1>1, <2>2, <2>3, <2>4, StepType DEF Compensate
<1>2. CASE BeginUndo(q)
  <2>1. proc' \in [Procs -> Locals]
    BY <1>0, <1>2, GotoType DEF BeginUndo, StoreCall
  <2>2. StoreTypeOK'
    <3>1. CASE TransitionStep(Plan(q), proc[q].undo, "compensating")
      BY <1>0, <3>1, TransitionStepType DEF StepStates
    <3>2. CASE UNCHANGED storeVars
      BY <1>0, <3>2, StoreUnchanged
    <3>3. QED
      BY <1>2, <3>1, <3>2 DEF BeginUndo, StoreCall
  <2>3. QED
    BY <1>2, <2>1, <2>2, StepType DEF BeginUndo, StoreCall
<1>3. CASE CallCompensation(q)
  <2>1. proc' \in [Procs -> Locals]
    BY <1>0, <1>3, GotoType DEF CallCompensation
  <2>2. QED
    BY <1>0, <1>3, <2>1, StoreUnchanged, StepType DEF CallCompensation
<1>4. CASE RecordCompensation(q)
  <2>1. [proc[q] EXCEPT !.pc = "compensate", !.undo = proc[q].undo - 1] \in Locals
    <3>1. proc[q].undo - 1 \in Int
      BY <1>0 DEF Locals
    <3>2. QED
      BY <1>0, <3>1 DEF Locals
  <2>2. proc' \in [Procs -> Locals]
    <3>1. CASE Goto(q, "close")
      BY <1>0, <3>1, GotoType
    <3>2. CASE Become(q, [proc[q] EXCEPT !.pc = "compensate", !.undo = @ - 1])
      BY <1>0, <2>1, <3>2, BecomeType
    <3>3. QED
      BY <1>4, <3>1, <3>2 DEF RecordCompensation, StoreCall, AppendEvent
  <2>3. StoreTypeOK'
    <3>1. CASE TransitionStep(Plan(q), proc[q].undo, "compensated")
      BY <1>0, <3>1, TransitionStepType DEF StepStates
    <3>2. CASE UNCHANGED storeVars
      BY <1>0, <3>2, StoreUnchanged
    <3>3. QED
      BY <1>4, <3>1, <3>2 DEF RecordCompensation, StoreCall, AppendEvent
  <2>4. QED
    BY <1>4, <2>2, <2>3, StepType DEF RecordCompensation, StoreCall, AppendEvent
<1>5. CASE RecordCompensationFailure(q)
  <2>1. proc' \in [Procs -> Locals]
    BY <1>0, <1>5, GotoType DEF RecordCompensationFailure, StoreCall
  <2>2. StoreTypeOK'
    <3>1. CASE TransitionStep(Plan(q), proc[q].undo, "failed")
      BY <1>0, <3>1, TransitionStepType DEF StepStates
    <3>2. CASE UNCHANGED storeVars
      BY <1>0, <3>2, StoreUnchanged
    <3>3. QED
      BY <1>5, <3>1, <3>2 DEF RecordCompensationFailure, StoreCall
  <2>3. QED
    BY <1>5, <2>1, <2>2, StepType DEF RecordCompensationFailure, StoreCall
<1>6. CASE terminalStepTransitions(q)
  <2> DEFINE moves == Moves(Plan(q))
  <2>1. moves \in UNION {[StepIds(p) -> {"keep", "pending", "applying"}] : p \in AllPlans}
    BY <1>0 DEF Moves
  <2> HIDE DEF moves
  <2>2. [proc[q].fin EXCEPT !.moves = moves] \in FinSet
    BY <1>0, <2>1 DEF FinSet
  <2>3. [proc[q] EXCEPT !.pc = "finalize", !.fin = [proc[q].fin EXCEPT !.moves = moves]] \in Locals
    BY <1>0, <2>2 DEF Locals
  <2>4. proc' \in [Procs -> Locals]
    <3>1. CASE Return(q, "finalization-failed", proc[q].fin.attempted)
      BY <1>0, <3>1, ReturnType DEF Results
    <3>2. CASE Become(q, [proc[q] EXCEPT !.pc = "finalize", !.fin.moves = Moves(Plan(q))])
      BY <1>0, <2>3, <3>2, BecomeType DEF moves
    <3>3. QED
      BY <1>6, <3>1, <3>2 DEF terminalStepTransitions
  <2>5. QED
    BY <1>0, <1>6, <2>4, StoreUnchanged, StepType DEF terminalStepTransitions
<1>7. CASE Finalize(q)
  <2>1. proc' \in [Procs -> Locals]
    BY <1>0, <1>7, ReturnType DEF Finalize, StoreCall, Results
  <2>2. StoreTypeOK'
    <3>1. CASE FinalizeOperation(Plan(q), proc[q].fin)
      <4>1. proc[q].fin.op \in OpStates /\ proc[q].fin.plan \in PlanStates
        BY <1>0 DEF FinSet
      <4>2. QED
        BY <1>0, <3>1, <4>1, FinalizeOperationType
    <3>2. CASE UNCHANGED storeVars
      BY <1>0, <3>2, StoreUnchanged
    <3>3. QED
      BY <1>7, <3>1, <3>2 DEF Finalize, StoreCall
  <2>3. QED
    BY <1>7, <2>1, <2>2, StepType DEF Finalize, StoreCall
<1>8. QED
  BY <1>1, <1>2, <1>3, <1>4, <1>5, <1>6, <1>7
-----------------------------------------------------------------------------
\* The whole specification.

\* The initial state has its type.
LEMMA InitType == Init => TypeOK
<1> SUFFICES ASSUME Init PROVE TypeOK
  OBVIOUS
<1>1. StoreTypeOK
  BY StoreInitType DEF Init
<1>2. RecoveryTypeOK
  BY DEF Init, RecoveryInit, RecoveryTypeOK
<1>3. proc \in [Procs -> Locals]
  BY BlankType DEF Init, EngineInit
<1>4. QED
  BY <1>1, <1>2, <1>3, BoundsAssumption DEF Init, EngineInit, TypeOK

\* Calling Apply keeps the types.
LEMMA ApplyType ==
    ASSUME TypeOK, NEW q \in Procs, NEW p \in AllPlans, NEW signed \in BOOLEAN,
           Apply(q, p, signed)
    PROVE  TypeOK'
<1>1. proc[q] \in Locals /\ planStatus[p] \in PlanStates /\ age[p] \in 0..2
  BY DEF TypeOK, StoreTypeOK
<1>2. [proc[q] EXCEPT !.pc = "loaded", !.plan = p, !.signed = signed,
                      !.record = planStatus[p], !.now = age[p]] \in Locals
  <2> DEFINE record == planStatus[p]
             now == age[p]
  <2> HIDE DEF record, now
  <2>1. [proc[q] EXCEPT !.pc = "loaded", !.plan = p, !.signed = signed,
                        !.record = record, !.now = now] \in Locals
    BY <1>1 DEF Locals, Labels, record, now
  <2>2. QED
    BY <2>1 DEF record, now
<1>3. proc' \in [Procs -> Locals]
  BY <1>2, BecomeType DEF Apply, TypeOK
<1>4. QED
  BY <1>3, StoreUnchanged, StepType DEF Apply, TypeOK

\* A crash keeps the types.
LEMMA CrashType ==
    ASSUME TypeOK, NEW q \in Procs, Crash(q)
    PROVE  TypeOK'
<1>1. [Blank EXCEPT !.pc = "dead"] \in Locals
  BY BlankType DEF Locals, Labels, Ended
<1>2. proc' \in [Procs -> Locals]
  BY <1>1, BecomeType DEF Crash, TypeOK
<1>3. crashes' \in 0..MaxCrashes
  BY BoundsAssumption DEF Crash, TypeOK
<1>4. StoreTypeOK' /\ RecoveryTypeOK'
  BY StoreUnchanged, RecoveryUnchanged DEF Crash, TypeOK
<1>5. QED
  BY <1>2, <1>3, <1>4 DEF Crash, TypeOK

\* Planning, enabling and the passing of time keep the types.
LEMMA EnvironmentType ==
    ASSUME TypeOK, NEW p \in AllPlans,
           PlanOperation(p) \/ EnableSigned(p) \/ TimePasses(p) \/ (p \in Recoveries /\ PlanRecovery(p))
    PROVE  TypeOK'
<1>0. StoreTypeOK /\ RecoveryTypeOK
  BY DEF TypeOK
<1>1. StoreTypeOK'
  <2>1. CASE PlanOperation(p)
    BY <1>0, <2>1, PutPlanType DEF PlanOperation
  <2>2. CASE EnableSigned(p)
    BY <1>0, <2>2, CreatePlanEnablementType DEF EnableSigned
  <2>3. CASE TimePasses(p)
    BY <1>0, <2>3, TimeType DEF TimePasses
  <2>4. CASE p \in Recoveries /\ PlanRecovery(p)
    BY <1>0, <2>4, PutPlanType DEF PlanRecovery, PlanOperationRecovery
  <2>5. QED
    BY <2>1, <2>2, <2>3, <2>4
<1>2. RecoveryTypeOK'
  <2>1. CASE UNCHANGED recovery
    BY <1>0, <2>1, RecoveryUnchanged
  <2>2. CASE p \in Recoveries /\ PlanRecovery(p)
    <3> DEFINE snapshot == RecoverySnapshot(Target[p])
               parameters == [snapshot |-> snapshot, mode |-> RecoveryMode(snapshot)]
    <3>1. snapshot \in Snapshots
      BY <1>0, <2>2, SnapshotType, TargetAssumption
    <3>2. RecoveryMode(snapshot) \in RecoveryModes
      BY DEF RecoveryMode, RecoveryModes
    <3>3. recovery' = [recovery EXCEPT ![p] = parameters]
      BY <2>2 DEF PlanRecovery, PlanOperationRecovery
    <3> HIDE DEF snapshot
    <3>4. parameters \in [snapshot : Snapshots, mode : RecoveryModes]
      BY <3>1, <3>2
    <3> HIDE DEF parameters
    <3>5. QED
      BY <1>0, <3>3, <3>4 DEF RecoveryTypeOK
  <2>3. QED
    BY <2>1, <2>2 DEF PlanOperation, EnableSigned, TimePasses
<1>3. UNCHANGED <<proc, called, faults, crashes>>
  BY DEF PlanOperation, EnableSigned, TimePasses, PlanRecovery
<1>4. QED
  BY <1>1, <1>2, <1>3 DEF TypeOK

\* Every step keeps the types.
LEMMA NextType == TypeOK /\ [Next]_vars => TypeOK'
<1> SUFFICES ASSUME TypeOK, [Next]_vars PROVE TypeOK'
  OBVIOUS
<1>1. CASE UNCHANGED vars
  BY <1>1, StoreUnchanged, RecoveryUnchanged DEF vars, TypeOK
<1>2. ASSUME NEW p \in AllPlans,
             PlanOperation(p) \/ EnableSigned(p) \/ TimePasses(p)
      PROVE  TypeOK'
  BY <1>2, EnvironmentType
<1>3. ASSUME NEW r \in Recoveries, PlanRecovery(r) PROVE TypeOK'
  BY <1>3, EnvironmentType DEF AllPlans
<1>4. ASSUME NEW q \in Procs, NEW p \in AllPlans, NEW signed \in BOOLEAN, Apply(q, p, signed)
      PROVE  TypeOK'
  BY <1>4, ApplyType
<1>5. ASSUME NEW q \in Procs, Proceed(q) PROVE TypeOK'
  BY <1>5, GateStepsType, RunStepsType, CloseStepsType DEF Proceed
<1>6. ASSUME NEW q \in Procs, Crash(q) PROVE TypeOK'
  BY <1>6, CrashType
<1>7. QED
  BY <1>1, <1>2, <1>3, <1>4, <1>5, <1>6 DEF Next

\* The rows of the store, the parameters of the recoveries and the locals of
\* every apply always have their types, for any plans, recoveries, processes,
\* faults and crashes (engine.go, operation_lifecycle.go, recovery.go).
THEOREM TypeCorrect == Spec => []TypeOK
BY InitType, NextType, PTL DEF Spec
=============================================================================
