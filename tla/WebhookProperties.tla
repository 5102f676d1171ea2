------------------------- MODULE WebhookProperties --------------------------
(***************************************************************************)
(* What the webhook queue promises.                                        *)
(***************************************************************************)
EXTENDS WebhookQueue

Locals == [pc : {"down", "idle", "claim", "process", "complete"},
           limit : Limits \cup {0}, sweptAt : Nat \cup {Null}, sweptLimit : Nat,
           now : Nat, delivery : Deliveries \cup {NoRow},
           claimed : Nat \cup {Null}, attempt : Nat,
           result : {"none", "ok", "transient", "permanent"}]

\* The types of the table webhook_deliveries, with the columns that the status
\* determines, and of a worker's memory.
TypeOK ==
    /\ clock \in Nat
    /\ rows \in [Deliveries -> Rows \cup {NoRow}]
    /\ \A d \in Stored : /\ rows[d].attempts > 0 <=> rows[d].claimed # Null
                         /\ rows[d].status \in Terminal \cup {"failed"} <=> rows[d].done # Null
    /\ worker \in [Workers -> Locals]
    /\ accepted \subseteq Deliveries
    /\ faults \in Nat /\ crashes \in Nat /\ setbacks \in Nat

\* Two unfinished rows with the same body.
Duplicates(d, e) ==
    /\ d # e /\ {d, e} \subseteq Stored
    /\ rows[d].status \in Live /\ rows[e].status \in Live
    /\ rows[d].payload = rows[e].payload

\* EnqueueWebhook's deduplication: whatever is retried, reclaimed, dead-lettered,
\* pruned or sent again in the meantime, two unfinished rows come to carry the
\* same body in one way only, by the insert of one of them in a transaction that
\* met an error.
DuplicatesComeFromErrors ==
    [][\A d, e \in Deliveries : Duplicates(d, e)' /\ ~Duplicates(d, e) =>
          faults' > faults /\ NoRow \in {rows[d], rows[e]}]_vars

Working(w) == worker[w].pc \in {"process", "complete"}

\* claimed_at identifies an attempt: no two workers hold the same claim of a
\* delivery, and a worker whose claim timestamp is that of a row in processing
\* holds the row's latest attempt.  CompleteWebhook compares nothing else.
ClaimIdentity ==
    /\ \A v, w \in Workers :
          /\ Working(v) /\ Working(w)
          /\ worker[v].delivery = worker[w].delivery
          /\ worker[v].claimed = worker[w].claimed
          => v = w
    /\ \A w \in Workers :
          /\ Working(w)
          /\ worker[w].delivery \in Stored
          /\ rows[worker[w].delivery].status = "processing"
          /\ rows[worker[w].delivery].claimed = worker[w].claimed
          => rows[worker[w].delivery].attempts = worker[w].attempt

\* A delivery answered 202 stays in the table until retention deletes its
\* finished row: no deduplication, retry or sweep loses it.
AcceptedIsKept == accepted \subseteq Stored

\* Worker w completes the latest attempt of d, as a success exactly when the
\* attempt's processor returned nil.
SettledBy(w, d) ==
    /\ worker[w].pc = "complete" /\ worker[w].delivery = d
    /\ worker[w].attempt = rows[d].attempts
    /\ rows'[d].status = "succeeded" <=> worker[w].result = "ok"

\* Worker w gives d up: its last permitted attempt was abandoned.
SweptBy(w, d) ==
    /\ worker[w].pc = "claim" /\ rows'[d].status = "dead-letter"
    /\ rows[d].attempts >= worker[w].limit /\ Stale(rows[d], worker[w].now)

\* A worker that comes late changes nothing: only the worker of the latest
\* attempt turns a row in processing into succeeded, failed or dead-letter, and
\* a sweep turns it into dead-letter only when no further attempt is permitted.
LatestAttemptSettles ==
    [][\A d \in Stored :
          /\ rows[d].status = "processing"
          /\ rows'[d] # NoRow /\ rows'[d].status # "processing"
          => \E w \in Workers : SettledBy(w, d) \/ SweptBy(w, d)]_vars

\* A finished row is never reopened or rewritten; retention may delete it.
TerminalIsFinal ==
    [][\A d \in Stored : rows[d].status \in Terminal => rows'[d] \in {rows[d], NoRow}]_vars

-----------------------------------------------------------------------------
\* Statements of the repository that the code does not keep.

\* controller-v1.md:117: the database stores "deduplicated webhook deliveries":
\* no two unfinished rows carry the same body.
OneLiveRowPerPayload == \A d, e \in Deliveries : ~Duplicates(d, e)

\* controller-v1.md: "A claim is stale when claimed_at <= now -
\* webhook_processing_timeout_seconds."  A claim is taken over only then.
ReclaimedOnlyWhenStale ==
    [][\A d \in Stored :
          /\ rows[d].status = "processing"
          /\ rows'[d].status = "processing"
          /\ rows'[d].attempts # rows[d].attempts
          => rows[d].claimed <= rows'[d].claimed - Timeout]_vars
=============================================================================
