----------------------------- MODULE OperationMC ----------------------------
(***************************************************************************)
(* Small instances of the operation engine for TLC.                        *)
(***************************************************************************)
EXTENDS OperationRefinement, TLC

CONSTANTS
    three,      \* plan: two reversible steps in one repository, one in another
    mixed,      \* plan: a reversible step, one that is not, one elsewhere
    two, rival, \* plans that meet in repository y; rival needs no approval
    one, other, \* plans of one step in one repository
    pair,       \* plan: two reversible steps in one repository
    r, r1, r2,  \* a recovery of pair, and two of one
    Scenes      \* what may happen in a behaviour

\* NewPlan gives a step without a declared write set the target "repository".
Step(repo, auto, approval) ==
    [repo |-> repo, writes |-> {"repository"}, auto |-> auto, approval |-> approval]

MCSteps == [p \in AllPlans |->
    CASE p = three -> <<Step("x", TRUE, TRUE), Step("x", TRUE, TRUE), Step("y", FALSE, TRUE)>>
      [] p = mixed -> <<Step("x", TRUE, TRUE), Step("x", FALSE, TRUE), Step("y", FALSE, TRUE)>>
      [] p = two -> <<Step("x", TRUE, TRUE), Step("y", FALSE, TRUE)>>
      [] p = rival -> <<Step("y", FALSE, FALSE)>>
      [] p = pair -> <<Step("x", TRUE, TRUE), Step("x", TRUE, TRUE)>>
      [] OTHER -> <<Step("x", FALSE, TRUE)>>]

MCTarget == [p \in Recoveries |-> IF p = r THEN pair ELSE one]

\* The plans that are made, those whose deadlines pass, how many processes apply
\* them, how many store calls fail and how many processes die.
VARIABLE scene

Scene(plans, aging, procs, fails, dies) ==
    [plans |-> plans, aging |-> aging, procs |-> procs, faults |-> fails, crashes |-> dies]

ApplyScenes ==
    {Scene({three}, {three}, 2, 2, 1), Scene({mixed}, {mixed}, 1, 1, 1),
     Scene({two, rival}, {two}, 2, 1, 1)}
RecoverScenes ==
    {Scene({pair, r}, {pair, r}, 2, 2, 2), Scene({one, r1, r2}, {one}, 3, 0, 1)}
ContendScenes == {Scene({one, other}, {one, other}, 2, 0, 1)}

\* The scenes of the statements that the code does not keep.
PlainScenes == {Scene({three}, {three}, 2, 0, 0)}
FaultScenes == {Scene({three}, {three}, 1, 1, 0)}
StuckScenes == {Scene({pair, r}, {pair, r}, 2, 0, 2)}

MCInit == scene \in Scenes /\ Init

MCNext ==
    /\ \/ \E p \in scene.plans : PlanOperation(p) \/ EnableSigned(p) \/ TimePasses(p)
       \/ \E p \in scene.plans \cap Recoveries : PlanRecovery(p)
       \/ \E q \in Procs, p \in scene.plans, signed \in BOOLEAN : Apply(q, p, signed)
       \/ \E q \in Procs : Proceed(q) \/ Crash(q)
    /\ Cardinality({q \in Procs : proc'[q].pc # "idle"}) <= scene.procs
    /\ \A p \in AllPlans \ scene.aging : age'[p] = age[p]
    /\ faults' <= scene.faults /\ crashes' <= scene.crashes
    /\ UNCHANGED scene

MCSpec == MCInit /\ [][MCNext]_<<vars, scene>>

\* As FairSpec: a running process is scheduled.
MCFairSpec == MCSpec /\ \A q \in Procs : WF_vars(Proceed(q))

\* Processes are interchangeable, and so are recoveries of the same operation.
MCSymmetry == Permutations(Procs) \cup Permutations({r1, r2} \cap Recoveries)
=============================================================================
