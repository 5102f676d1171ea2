---------------------------- MODULE WebhookQueue ----------------------------
(***************************************************************************)
(* The durable webhook queue of the controller: the receiver that enqueues *)
(* GitHub deliveries, the workers that claim, process and complete them,   *)
(* and the retention that deletes finished ones.  A worker is a controller *)
(* process with its own Store; the tests of core/state open several on one *)
(* database.  Every store call is one SQL transaction.                     *)
(*                                                                         *)
(* Time is counted in half seconds, because formatTime, which writes every *)
(* timestamp the SQL statements compare, is not monotone within a second.  *)
(* Requests the receiver turns away before it enqueues change nothing and  *)
(* are not modelled.                                                       *)
(***************************************************************************)
EXTENDS Integers, FiniteSets

CONSTANTS
    Deliveries,   \* X-GitHub-Delivery identities
    Events,       \* X-GitHub-Event types
    Payloads,     \* bodies, told apart by their digest
    Workers,      \* controller processes
    Limits,       \* values of max_webhook_attempts a process may start with
    Timeout,      \* ProcessingTimeout
    RetainAge,    \* RetentionPolicy.TerminalWebhookAge
    Delay,        \* how far a call can lag behind its clock reading (busy_timeout)
    NoRow,        \* an absent row of table webhook_deliveries
    MaxClock,     \* bound: the last instant
    MaxFaults,    \* bound: errors the store meets
    MaxCrashes,   \* bound: controller processes that die
    MaxSetbacks   \* bound: steps back of the wall clock

\* RunOnce and PruneControllerData reject other policies: the retention age is
\* at least a day, the processing timeout at most one, and both whole seconds.
ASSUME PolicyAssumption ==
    /\ Limits # {} /\ Limits \subseteq Nat \ {0}
    /\ Timeout \in Nat \ {0} /\ Timeout % 2 = 0
    /\ RetainAge \in Nat /\ RetainAge >= Timeout
    /\ Delay \in Nat /\ Delay < Timeout
    /\ {MaxClock, MaxFaults, MaxCrashes, MaxSetbacks} \subseteq Nat

VARIABLES
    clock,     \* wall clock of the machine
    rows,      \* table webhook_deliveries
    worker,    \* what each process holds in memory
    accepted,  \* deliveries answered 202 and not yet retired by retention
    faults,    \* errors the store has met so far
    crashes,   \* processes that died so far
    setbacks   \* steps back of the wall clock so far

vars == <<clock, rows, worker, accepted, faults, crashes, setbacks>>

Null == -1  \* SQL NULL, and the zero time.Time

Live == {"queued", "processing", "failed"}
Terminal == {"succeeded", "dead-letter"}

Rows == [event : Events, payload : Payloads, status : Live \cup Terminal, attempts : Nat,
         available : Nat, claimed : Nat \cup {Null}, done : Nat \cup {Null}]

ASSUME NoRowAssumption == NoRow \notin Rows

\* The instant's rank in the order of its texts: RFC3339Nano drops a zero
\* fraction, and "00:00.5Z" sorts before "00:00Z".
formatTime(t) == 2 * (t \div 2) + (1 - (t % 2))

NotAfter(s, t) == formatTime(s) <= formatTime(t)

\* time.Second << min(attempt-1, 8), which stays below the five minute cap.
BackoffSeconds == <<1, 2, 4, 8, 16, 32, 64, 128, 256>>

boundedBackoff(attempt) ==
    2 * BackoffSeconds[IF attempt < 1 THEN 1 ELSE IF attempt > 9 THEN 9 ELSE attempt]

Down == [pc |-> "down", limit |-> 0, sweptAt |-> Null, sweptLimit |-> 0, now |-> 0,
         delivery |-> NoRow, claimed |-> Null, attempt |-> 0, result |-> "none"]

Init ==
    /\ clock = 0
    /\ rows = [d \in Deliveries |-> NoRow]
    /\ worker = [w \in Workers |-> Down]
    /\ accepted = {}
    /\ faults = 0 /\ crashes = 0 /\ setbacks = 0

Stored == {d \in Deliveries : rows[d] # NoRow}

Up(w) == worker[w].pc # "down"

Become(w, locals) == worker' = [worker EXCEPT ![w] = locals]

\* Back in the worker loop, the delivery forgotten.
Rest(w) == [worker[w] EXCEPT !.pc = "idle", !.now = 0, !.delivery = NoRow,
                             !.claimed = Null, !.attempt = 0, !.result = "none"]

(***************************************************************************)
(* A commit that makes rows the value new, after met errors so far.  It    *)
(* may fail, and so may the check of the database authority that follows   *)
(* it: the caller sees an error with the change lost, or with it made.     *)
(***************************************************************************)
Commit(met, new, Success, Failure) ==
    \/ rows' = new /\ Success /\ faults' = met
    \/ /\ met < MaxFaults
       /\ faults' = met + 1
       /\ rows' \in {rows, new}
       /\ Failure

\* A store call that makes rows the value new.
StoreCall(new, Success, Failure) == Commit(faults, new, Success, Failure)

(***************************************************************************)
(* The receiver, in any process that is up.                                *)
(***************************************************************************)

\* Mistake: a failed delivery that waits for its retry is not a duplicate.
Twin_FailedForgotten(d, p) ==
    \E e \in Stored \ {d} : rows[e].payload = p /\ rows[e].status \in {"queued", "processing"}

\* Another delivery with this body is under way, of whatever event type.
Twin(d, p) == \E e \in Stored \ {d} : rows[e].payload = p /\ rows[e].status \in Live

Enqueued(v, p) ==
    [event |-> v, payload |-> p, status |-> "queued", attempts |-> 0, available |-> clock,
     claimed |-> Null, done |-> Null]

\* The insert of a new delivery is kept.
Accept(d, v, p, met) ==
    Commit(met, [rows EXCEPT ![d] = Enqueued(v, p)],
           accepted' = accepted \cup {d}, UNCHANGED accepted)

\* The delivery is already in the table: the same event and body are answered
\* 202, others 409.  The code reads the row after it has rolled back, which is
\* this action taken at that later time.
KnownDelivery(d, v, p) ==
    /\ rows[d] # NoRow
    /\ accepted' = IF rows[d].event = v /\ rows[d].payload = p
                   THEN accepted \cup {d} ELSE accepted
    /\ UNCHANGED <<rows, faults>>

\* A new delivery is inserted, and deleted in the same transaction and answered
\* 409 when its body is already under way.  An error of the lookup for that
\* duplicate is taken for "none", and the insert is committed.
EnqueueWebhook(d, v, p) ==
    /\ \E w \in Workers : Up(w)
    /\ \/ rows[d] = NoRow /\ ~Twin(d, p) /\ Accept(d, v, p, faults)
       \/ rows[d] = NoRow /\ Twin(d, p) /\ UNCHANGED <<rows, accepted, faults>>
       \/ /\ rows[d] = NoRow /\ Twin(d, p)
          /\ faults < MaxFaults
          /\ Accept(d, v, p, faults + 1)
       \/ KnownDelivery(d, v, p)
    /\ UNCHANGED <<clock, worker, crashes, setbacks>>

(***************************************************************************)
(* The worker.                                                             *)
(***************************************************************************)

\* RunOnce reads the clock once, before the claim.
RunOnce(w) ==
    /\ worker[w].pc = "idle"
    /\ Become(w, [worker[w] EXCEPT !.pc = "claim", !.now = clock])
    /\ UNCHANGED <<clock, rows, accepted, faults, crashes, setbacks>>

\* Mistake: a process sweeps only once.
needsMaintenance_Once(w) == worker[w].sweptAt = Null

needsMaintenance(w) ==
    \/ worker[w].sweptAt = Null
    \/ worker[w].sweptLimit # worker[w].limit
    \/ worker[w].now < worker[w].sweptAt
    \/ worker[w].now - worker[w].sweptAt >= Timeout

\* Mistake: a claim counts as stale from the moment it is made.
Stale_Always(row, now) == row.status = "processing"

Stale(row, now) == row.status = "processing" /\ NotAfter(row.claimed, now - Timeout)

\* Rows that have used their attempts: failed ones, and abandoned claims.
Exhausted(row, now, limit) ==
    /\ row.attempts >= limit
    /\ row.status = "failed" \/ Stale(row, now)

Swept(now, limit) ==
    [d \in Deliveries |->
        IF rows[d] # NoRow /\ Exhausted(rows[d], now, limit)
        THEN [rows[d] EXCEPT !.status = "dead-letter", !.done = now]
        ELSE rows[d]]

\* The first of S by the text of a timestamp.  Ties are broken by received_at,
\* which is not kept, and by the delivery identity: their order is left open.
First(S, at) == {d \in S : \A e \in S : NotAfter(at[d], at[e])}

claimReadyWebhookTx(table, now, limit) ==
    LET ready == {d \in Stored : /\ table[d].status \in {"queued", "failed"}
                                 /\ table[d].attempts < limit
                                 /\ NotAfter(table[d].available, now)}
    IN  First(ready, [d \in ready |-> table[d].available])

claimStaleWebhookTx(table, now, limit) ==
    LET stale == {d \in Stored : table[d].attempts < limit /\ Stale(table[d], now)}
    IN  First(stale, [d \in stale |-> table[d].claimed])

\* Mistake: a new claim leaves the previous attempt's finished_at.
Claimed_KeepsFinishedAt(row, now) ==
    [row EXCEPT !.status = "processing", !.attempts = row.attempts + 1, !.claimed = now]

Claimed(row, now) ==
    [row EXCEPT !.status = "processing", !.attempts = row.attempts + 1,
                !.claimed = now, !.done = Null]

\* recordWebhookMaintenance, when the sweep ran and left no stale claim.
Recorded(w, locals, swept) ==
    IF swept THEN [locals EXCEPT !.sweptAt = worker[w].now, !.sweptLimit = worker[w].limit]
             ELSE locals

ClaimWebhook(w) ==
    LET now   == worker[w].now
        limit == worker[w].limit
        due   == needsMaintenance(w)
        table == IF due THEN Swept(now, limit) ELSE rows
        ready == claimReadyWebhookTx(table, now, limit)
        stale == claimStaleWebhookTx(table, now, limit)
        staleFirst == stale # {} /\ (due \/ ready = {})
        chosen == IF staleFirst THEN stale ELSE ready
        record == due /\ ~staleFirst
        Hold(d) == [worker[w] EXCEPT !.pc = "process", !.now = 0, !.delivery = d,
                                     !.claimed = now, !.attempt = table[d].attempts + 1]
    IN  /\ worker[w].pc = "claim"
        /\ \/ /\ chosen = {}
              /\ StoreCall(table, Become(w, Recorded(w, Rest(w), record)), Become(w, Rest(w)))
           \/ \E d \in chosen :
                 StoreCall([table EXCEPT ![d] = Claimed(table[d], now)],
                           Become(w, Recorded(w, Hold(d), record)), Become(w, Rest(w)))
        /\ UNCHANGED <<clock, accepted, crashes, setbacks>>

\* The processor returns nil, an error to retry, or a PermanentError.
ProcessWebhook(w) ==
    /\ worker[w].pc = "process"
    /\ \E result \in {"ok", "transient", "permanent"} :
          Become(w, [worker[w] EXCEPT !.pc = "complete", !.now = clock, !.result = result])
    /\ UNCHANGED <<clock, rows, accepted, faults, crashes, setbacks>>

\* Mistake: completion does not compare the claim timestamp.
Holds_AnyClaim(w) ==
    /\ worker[w].delivery \in Stored
    /\ rows[worker[w].delivery].status = "processing"

\* Mistake: completion does not require the row to be in processing.
Holds_AnyStatus(w) ==
    /\ worker[w].delivery \in Stored
    /\ rows[worker[w].delivery].claimed = worker[w].claimed

Holds(w) ==
    /\ worker[w].delivery \in Stored
    /\ rows[worker[w].delivery].status = "processing"
    /\ rows[worker[w].delivery].claimed = worker[w].claimed

\* A permanent error passes the attempt itself as the limit.
Completed(w) ==
    LET h == worker[w]
        row == rows[h.delivery]
        limit == IF h.result = "permanent" THEN h.attempt ELSE h.limit
    IN  IF h.result = "ok"
        THEN [row EXCEPT !.status = "succeeded", !.done = h.now]
        ELSE IF row.attempts >= limit
        THEN [row EXCEPT !.status = "dead-letter", !.done = h.now]
        ELSE [row EXCEPT !.status = "failed", !.done = h.now,
                         !.available = h.now + boundedBackoff(h.attempt)]

\* A completion before the claim is invalid; one of a lost claim conflicts.
CompleteWebhook(w) ==
    /\ worker[w].pc = "complete"
    /\ \/ /\ worker[w].now < worker[w].claimed \/ ~Holds(w)
          /\ Become(w, Rest(w))
          /\ UNCHANGED <<rows, faults>>
       \/ /\ worker[w].now >= worker[w].claimed /\ Holds(w)
          /\ StoreCall([rows EXCEPT ![worker[w].delivery] = Completed(w)],
                       Become(w, Rest(w)), Become(w, Rest(w)))
    /\ UNCHANGED <<clock, accepted, crashes, setbacks>>

(***************************************************************************)
(* Retention, after a backup in a process that is up.  julianday compares  *)
(* instants, not texts.                                                    *)
(***************************************************************************)

\* Mistake: retention goes by the age of the last attempt alone.
Retired_AnyStatus(d) == rows[d].done # Null /\ rows[d].done < clock - RetainAge

Retired(d) ==
    /\ rows[d].status \in Terminal
    /\ rows[d].done # Null
    /\ rows[d].done < clock - RetainAge

PruneControllerData ==
    LET retired == {d \in Stored : Retired(d)}
    IN  /\ \E w \in Workers : Up(w)
        /\ retired # {}
        /\ StoreCall([d \in Deliveries |-> IF d \in retired THEN NoRow ELSE rows[d]],
                     TRUE, TRUE)
        /\ accepted' = {d \in accepted : rows'[d] = NoRow => rows[d].status \notin Terminal}
        /\ UNCHANGED <<clock, worker, crashes, setbacks>>

(***************************************************************************)
(* Time, crashes and restarts.                                             *)
(***************************************************************************)

\* No call waits for the database longer than Delay; the processor may take
\* any time.
Tick ==
    /\ clock < MaxClock
    /\ \A w \in Workers : worker[w].pc \in {"claim", "complete"} => clock < worker[w].now + Delay
    /\ clock' = clock + 1
    /\ UNCHANGED <<rows, worker, accepted, faults, crashes, setbacks>>

SetBack ==
    /\ setbacks < MaxSetbacks
    /\ clock > 0
    /\ clock' = clock - 1
    /\ setbacks' = setbacks + 1
    /\ UNCHANGED <<rows, worker, accepted, faults, crashes>>

\* The attempt limit is read from the runtime configuration at startup.
StartController(w) ==
    /\ ~Up(w)
    /\ \E limit \in Limits : Become(w, [Down EXCEPT !.pc = "idle", !.limit = limit])
    /\ UNCHANGED <<clock, rows, accepted, faults, crashes, setbacks>>

Crash(w) ==
    /\ Up(w)
    /\ crashes < MaxCrashes
    /\ crashes' = crashes + 1
    /\ Become(w, Down)
    /\ UNCHANGED <<clock, rows, accepted, faults, setbacks>>

Work(w) == RunOnce(w) \/ ClaimWebhook(w) \/ ProcessWebhook(w) \/ CompleteWebhook(w)

Next ==
    \/ \E d \in Deliveries, v \in Events, p \in Payloads : EnqueueWebhook(d, v, p)
    \/ \E w \in Workers : Work(w) \/ StartController(w) \/ Crash(w)
    \/ PruneControllerData
    \/ Tick
    \/ SetBack

Spec == Init /\ [][Next]_vars
=============================================================================
