--------------------------- MODULE OperationLedger --------------------------
(***************************************************************************)
(* What plan/apply/recover promises about operations, without processes,   *)
(* approvals, journals or recovery: an operation opens once, only when     *)
(* nothing it writes is held, holds its whole write set until it closes,   *)
(* calls each step's handler at most once and only while open, and closes  *)
(* with an outcome that tells what was done (docs/contracts/               *)
(* operations-v1.md).                                                      *)
(***************************************************************************)
EXTENDS Naturals

CONSTANTS
    Ops,        \* operations
    Keys,       \* lock scopes
    WriteSet,   \* WriteSet[o]: the scopes o writes
    StepsOf,    \* StepsOf[o]: the steps of o
    Free        \* the holder of an unheld scope

VARIABLES
    outcome,    \* "none", "applying", or how the operation closed
    holder,     \* the operation that holds a scope
    calls       \* calls[o][i]: handler calls made for step i of o

ledgerVars == <<outcome, holder, calls>>

Init ==
    /\ outcome = [o \in Ops |-> "none"]
    /\ holder = [k \in Keys |-> Free]
    /\ calls = [o \in Ops |-> [i \in StepsOf[o] |-> 0]]

Open(o) ==
    /\ outcome[o] = "none"
    /\ \A k \in WriteSet[o] : holder[k] = Free
    /\ outcome' = [outcome EXCEPT ![o] = "applying"]
    /\ holder' = [k \in Keys |-> IF k \in WriteSet[o] THEN o ELSE holder[k]]
    /\ UNCHANGED calls

Call(o, i) ==
    /\ outcome[o] = "applying"
    /\ calls[o][i] = 0
    /\ calls' = [calls EXCEPT ![o][i] = 1]
    /\ UNCHANGED <<outcome, holder>>

Called(o) == {i \in StepsOf[o] : calls[o][i] > 0}

\* The outcomes that tell the truth about the handlers called so far.
Truthful(o) ==
    (IF Called(o) = {} THEN {"failed", "blocked"} ELSE {"partial"})
    \cup (IF Called(o) = StepsOf[o] THEN {"succeeded"} ELSE {})

Close(o, result) ==
    /\ outcome[o] = "applying"
    /\ result \in Truthful(o)
    /\ outcome' = [outcome EXCEPT ![o] = result]
    /\ holder' = [k \in Keys |-> IF holder[k] = o THEN Free ELSE holder[k]]
    /\ UNCHANGED calls

\* The handler of a recovery closes the operation it recovers.
CallAndClose(o, i, p, result) ==
    /\ o # p
    /\ outcome[o] = "applying" /\ outcome[p] = "applying"
    /\ calls[o][i] = 0
    /\ calls' = [calls EXCEPT ![o][i] = 1]
    /\ result \in Truthful(p)
    /\ outcome' = [outcome EXCEPT ![p] = result]
    /\ holder' = [k \in Keys |-> IF holder[k] = p THEN Free ELSE holder[k]]

Next ==
    \E o \in Ops :
        \/ Open(o)
        \/ \E i \in StepsOf[o] : Call(o, i)
        \/ \E result \in {"succeeded", "failed", "partial", "blocked"} : Close(o, result)
        \/ \E i \in StepsOf[o], p \in Ops, result \in {"failed", "partial"} :
              CallAndClose(o, i, p, result)

Spec == Init /\ [][Next]_ledgerVars
=============================================================================
