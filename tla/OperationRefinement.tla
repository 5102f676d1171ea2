------------------------ MODULE OperationRefinement -------------------------
(***************************************************************************)
(* The operation engine with its recovery implements the ledger: an        *)
(* operation of the ledger is an operation row, a holder a lock row, and a *)
(* call a call of a step's handler.                                        *)
(***************************************************************************)
EXTENDS OperationProperties

HolderOf == [k \in LockKeys |-> IF locks[k] = NoLock THEN NoLock ELSE locks[k].op]

WriteSets == [p \in AllPlans |-> planWriteSet(p)]
StepSets == [p \in AllPlans |-> StepIds(p)]

Ledger == INSTANCE OperationLedger WITH
    Ops <- AllPlans, Keys <- LockKeys, Free <- NoLock,
    WriteSet <- WriteSets, StepsOf <- StepSets,
    outcome <- opStatus, holder <- HolderOf, calls <- called

\* Apply, failures, crashes and recovery included, behaves like the ledger:
\* one opening per plan, the whole write set held until the operation closes,
\* each handler called at most once and only while it is open, and an outcome
\* that tells what was done.
ImplementsLedger == Ledger!Spec
=============================================================================
