----------------------------- MODULE WebhookMC ------------------------------
(***************************************************************************)
(* Small instances of the webhook queue for TLC.                           *)
(***************************************************************************)
EXTENDS WebhookProperties, TLC

\* What the steps and the properties can still tell apart: available_at is read
\* only of a row that waits, the value of claimed_at only of one in processing,
\* that of finished_at only of a finished one, and a sweep only while it is
\* recent.
Waiting == {"queued", "failed"}

IsSet(t) == IF t = Null THEN Null ELSE 0

RowView(row) ==
    IF row = NoRow THEN row
    ELSE [row EXCEPT !.available = IF row.status \in Waiting THEN @ ELSE 0,
                     !.claimed = IF row.status = "processing" THEN @ ELSE IsSet(@),
                     !.done = IF row.status \in Terminal THEN @ ELSE IsSet(@)]

\* Who takes part in a behaviour, how long it lasts, and how often something
\* goes wrong in it.
CONSTANT Scenes
VARIABLE scene

Sized(n, S) == {T \in SUBSET S : Cardinality(T) = n}

Scene(many, types, controllers, last, errors, deaths, backs) ==
    [deliveries : Sized(many, Deliveries), events : Sized(types, Events),
     payloads : Sized(many, Payloads), workers : Sized(controllers, Workers),
     clock : {last}, faults : {errors}, crashes : {deaths}, setbacks : {backs}]

\* Two deliveries in one controller that crashes and meets a failing store, or
\* with two event types and a failing store; one delivery in two controllers,
\* of which one crashes and whose clock is set back, or whose store fails.
SafetyScenes ==
    Scene(2, 1, 1, 4, 1, 1, 0) \cup Scene(2, 2, 1, 2, 1, 0, 0)
        \cup Scene(1, 1, 2, 4, 0, 1, 1) \cup Scene(1, 1, 2, 5, 1, 0, 0)

ReclaimScenes == Scene(1, 1, 2, 5, 0, 0, 0)
DuplicateScenes == Scene(2, 2, 1, 2, 1, 0, 0)

MCInit == scene \in Scenes /\ Init

MCNext ==
    /\ \/ \E d \in scene.deliveries, v \in scene.events, p \in scene.payloads :
             EnqueueWebhook(d, v, p)
       \/ \E w \in scene.workers : Work(w) \/ StartController(w) \/ Crash(w)
       \/ PruneControllerData
       \/ Tick
       \/ SetBack
    /\ clock' <= scene.clock
    /\ faults' <= scene.faults /\ crashes' <= scene.crashes /\ setbacks' <= scene.setbacks
    /\ UNCHANGED scene

MCSpec == MCInit /\ [][MCNext]_<<vars, scene>>

LocalView(h) ==
    [h EXCEPT !.sweptAt = IF h.sweptLimit # h.limit \/ clock - Delay - scene.setbacks - @ >= Timeout
                          THEN Null ELSE @]

View == <<clock, [d \in Deliveries |-> RowView(rows[d])],
          [w \in Workers |-> LocalView(worker[w])], accepted, faults, crashes, setbacks, scene>>

WebhookSymmetry ==
    Permutations(Deliveries) \cup Permutations(Events) \cup Permutations(Payloads)
        \cup Permutations(Workers)
=============================================================================
