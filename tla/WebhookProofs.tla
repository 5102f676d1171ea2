--------------------------- MODULE WebhookProofs ----------------------------
(***************************************************************************)
(* Theorems about the webhook queue, for every set of deliveries, events,  *)
(* payloads and workers and every policy.  The argument goes through one   *)
(* lemma: a step either inserts one new row, which has no unfinished twin  *)
(* unless the step met an error, or keeps every stored row's payload,      *)
(* leaves finished rows alone and deletes only finished ones.              *)
(***************************************************************************)
EXTENDS WebhookProperties, TLAPS

RowOK(row) ==
    /\ row \in Rows
    /\ row.attempts > 0 <=> row.claimed # Null
    /\ row.status \in Terminal \cup {"failed"} <=> row.done # Null

\* A table of well-formed rows.
TableOK(table) ==
    /\ table \in [Deliveries -> Rows \cup {NoRow}]
    /\ \A d \in Deliveries : table[d] # NoRow => RowOK(table[d])

\* What a step may make of a stored row: keep its payload, and the whole row
\* when it is finished.
Keeps(row, new) ==
    /\ new # NoRow
    /\ new.payload = row.payload
    /\ row.status \in Terminal => new = row

\* A table that may replace rows in a step that inserts nothing.
Evolves(table) ==
    /\ TableOK(table)
    /\ \A d \in Deliveries :
          IF rows[d] = NoRow THEN table[d] = NoRow
          ELSE \/ Keeps(rows[d], table[d])
               \/ table[d] = NoRow /\ rows[d].status \in Terminal

\* EnqueueWebhook inserts a row.
Inserts(d, v, p) ==
    /\ d \in Deliveries /\ v \in Events /\ p \in Payloads
    /\ rows[d] = NoRow
    /\ Twin(d, p) => faults' > faults
    /\ rows' = [rows EXCEPT ![d] = Enqueued(v, p)]

\* The memory of a worker that has claimed a row holds its identity.
LocalOK(h) ==
    /\ h \in Locals
    /\ h.pc \in {"process", "complete"} => h.delivery \in Deliveries /\ h.claimed \in Nat

QueueInv ==
    /\ clock \in Nat
    /\ TableOK(rows)
    /\ worker \in [Workers -> Locals]
    /\ \A w \in Workers : LocalOK(worker[w])
    /\ accepted \subseteq Deliveries
    /\ faults \in Nat /\ crashes \in Nat /\ setbacks \in Nat

\* The invariant is the type invariant, with the identity of held claims.
LEMMA QueueInvTypes == QueueInv => TypeOK
  BY DEF QueueInv, TypeOK, TableOK, RowOK, Stored

\* The empty queue, with every process down.
LEMMA InitQueueInv == Init => QueueInv
<1> SUFFICES ASSUME Init PROVE QueueInv
  OBVIOUS
<1>1. Down \in Locals
  BY DEF Down, Locals, Null
<1>2. LocalOK(Down)
  BY <1>1 DEF LocalOK, Down
<1>3. TableOK(rows)
  BY DEF Init, TableOK
<1> QED
  BY <1>1, <1>2, <1>3 DEF Init, QueueInv

\* The row EnqueueWebhook inserts.
LEMMA EnqueuedRow ==
  ASSUME NEW v \in Events, NEW p \in Payloads, clock \in Nat
  PROVE  RowOK(Enqueued(v, p)) /\ Enqueued(v, p) # NoRow
<1>1. Enqueued(v, p) \in Rows
  BY DEF Enqueued, Rows, Live, Null
<1> QED
  BY <1>1, NoRowAssumption DEF RowOK, Enqueued, Null, Terminal

\* The sweep of exhausted rows.
LEMMA SweptTable ==
  ASSUME QueueInv, NEW now \in Nat, NEW limit
  PROVE  /\ Evolves(Swept(now, limit))
         /\ \A d \in Stored : Swept(now, limit)[d] # NoRow
<1> DEFINE T == Swept(now, limit)
<1>1. ASSUME NEW d \in Deliveries, rows[d] # NoRow, Exhausted(rows[d], now, limit)
      PROVE  RowOK(T[d]) /\ Keeps(rows[d], T[d]) /\ T[d] # NoRow
  <2>1. T[d] = [rows[d] EXCEPT !.status = "dead-letter", !.done = now]
    BY <1>1 DEF Swept
  <2>2. RowOK(rows[d])
    BY <1>1 DEF QueueInv, TableOK
  <2>3. rows[d].status \in {"failed", "processing"}
    BY <1>1 DEF Exhausted, Stale
  <2>4. T[d] \in Rows
    BY <2>1, <2>2 DEF RowOK, Rows, Terminal
  <2>5. /\ T[d].status = "dead-letter" /\ T[d].done = now
        /\ T[d].attempts = rows[d].attempts /\ T[d].claimed = rows[d].claimed
        /\ T[d].payload = rows[d].payload
    BY <2>1, <2>2 DEF RowOK, Rows
  <2> HIDE DEF T
  <2>6. RowOK(T[d])
    BY <2>2, <2>4, <2>5 DEF RowOK, Terminal, Null
  <2>7. T[d] # NoRow
    BY <2>4, NoRowAssumption
  <2> QED
    BY <2>3, <2>5, <2>6, <2>7 DEF Keeps, Terminal
<1>2. ASSUME NEW d \in Deliveries, ~(rows[d] # NoRow /\ Exhausted(rows[d], now, limit))
      PROVE  T[d] = rows[d]
  BY <1>2 DEF Swept
<1>3. ASSUME NEW d \in Deliveries
      PROVE  /\ T[d] \in Rows \cup {NoRow}
             /\ T[d] # NoRow => RowOK(T[d])
             /\ IF rows[d] = NoRow THEN T[d] = NoRow ELSE Keeps(rows[d], T[d])
  BY <1>1, <1>2 DEF QueueInv, TableOK, RowOK, Keeps
<1>4. T \in [Deliveries -> Rows \cup {NoRow}]
  BY <1>3 DEF Swept
<1>5. \A d \in Stored : T[d] # NoRow
  BY <1>3 DEF Keeps, Stored
<1> QED
  BY <1>3, <1>4, <1>5 DEF Evolves, TableOK

\* The table as it stands.
LEMMA SameTable == QueueInv => Evolves(rows)
<1> SUFFICES ASSUME QueueInv PROVE Evolves(rows)
  OBVIOUS
<1> QED
  BY DEF QueueInv, TableOK, Evolves, Keeps

\* Replacing one unfinished row by a well-formed one with its payload.
LEMMA ReplacedRow ==
  ASSUME QueueInv, NEW table, Evolves(table), NEW d \in Deliveries, NEW row,
         table[d] # NoRow, table[d].status \notin Terminal,
         RowOK(row), row.payload = table[d].payload
  PROVE  Evolves([table EXCEPT ![d] = row])
<1> DEFINE T == [table EXCEPT ![d] = row]
<1>1. row \in Rows /\ row # NoRow
  BY NoRowAssumption DEF RowOK
<1>2. table \in [Deliveries -> Rows \cup {NoRow}]
  BY DEF Evolves, TableOK
<1>3. T \in [Deliveries -> Rows \cup {NoRow}]
  BY <1>1, <1>2
<1>4. T[d] = row /\ \A e \in Deliveries \ {d} : T[e] = table[e]
  BY <1>2
<1>5. rows[d] # NoRow /\ row.payload = rows[d].payload /\ rows[d].status \notin Terminal
  BY DEF Evolves, Keeps
<1>6. Keeps(rows[d], row)
  BY <1>1, <1>5 DEF Keeps
<1> HIDE DEF T
<1>7. TableOK(T)
  BY <1>3, <1>4 DEF TableOK, Evolves
<1> QED
  BY <1>4, <1>5, <1>6, <1>7 DEF Evolves, T

\* The claim of a waiting or stale row.
LEMMA ClaimedRow ==
  ASSUME NEW row, RowOK(row), NEW now \in Nat
  PROVE  RowOK(Claimed(row, now)) /\ Claimed(row, now).payload = row.payload
<1> DEFINE new == Claimed(row, now)
<1>1. row \in Rows /\ row.attempts \in Nat /\ row.attempts + 1 \in Nat
  BY DEF RowOK, Rows
<1>2. /\ new.status = "processing" /\ new.attempts = row.attempts + 1
      /\ new.claimed = now /\ new.done = Null /\ new.payload = row.payload
  BY <1>1 DEF Claimed, Rows
<1>3. new \in Rows
  BY <1>1 DEF Claimed, Rows, Live
<1> HIDE DEF new
<1>4. RowOK(new)
  BY <1>1, <1>2, <1>3 DEF RowOK, Terminal, Null
<1> QED
  BY <1>2, <1>4 DEF new

\* The completion of a row in processing.
LEMMA CompletedRow ==
  ASSUME QueueInv, NEW w \in Workers, worker[w].pc = "complete", Holds(w)
  PROVE  LET row == rows[worker[w].delivery]
         IN  RowOK(Completed(w)) /\ Completed(w).payload = row.payload
<1> DEFINE h == worker[w]
           row == rows[h.delivery]
           late == h.now + boundedBackoff(h.attempt)
<1>1. h \in Locals
  BY DEF QueueInv, LocalOK
<1>2. h.now \in Nat /\ h.attempt \in Nat
  BY <1>1 DEF Locals
<1>3. RowOK(row) /\ row.status = "processing"
  BY DEF Holds, Stored, QueueInv, TableOK
<1>4. late \in Nat
  <2>1. ASSUME NEW i \in 1..9 PROVE BackoffSeconds[i] \in Nat
    BY <2>1 DEF BackoffSeconds
  <2> HIDE DEF h
  <2>2. boundedBackoff(h.attempt) \in Nat
    BY <1>2, <2>1 DEF boundedBackoff
  <2> QED
    BY <1>2, <2>2
<1> DEFINE new == Completed(w)
           limit == IF h.result = "permanent" THEN h.attempt ELSE h.limit
           Finished == /\ new \in Rows
                       /\ new.status \in Terminal \cup {"failed"} /\ new.done = h.now
                       /\ new.payload = row.payload
                       /\ new.attempts = row.attempts /\ new.claimed = row.claimed
<1>5. ASSUME h.result = "ok" PROVE Finished
  <2>1. new = [row EXCEPT !.status = "succeeded", !.done = h.now]
    BY <1>5 DEF Completed
  <2> HIDE DEF new, h, row
  <2> QED
    BY <1>2, <1>3, <2>1 DEF RowOK, Rows, Terminal
<1>6. ASSUME h.result # "ok", row.attempts >= limit PROVE Finished
  <2>1. new = [row EXCEPT !.status = "dead-letter", !.done = h.now]
    BY <1>6 DEF Completed
  <2> HIDE DEF new, h, row
  <2> QED
    BY <1>2, <1>3, <2>1 DEF RowOK, Rows, Terminal
<1>7. ASSUME h.result # "ok", ~(row.attempts >= limit) PROVE Finished
  <2>1. new = [row EXCEPT !.status = "failed", !.done = h.now, !.available = late]
    BY <1>7 DEF Completed
  <2> HIDE DEF new, h, row, late
  <2> QED
    BY <1>2, <1>3, <1>4, <2>1 DEF RowOK, Rows, Live, Terminal
<1>8. Finished
  BY <1>5, <1>6, <1>7
<1> HIDE DEF new, h, row
<1>9. RowOK(new)
  BY <1>2, <1>3, <1>8 DEF RowOK, Terminal, Null
<1> QED
  BY <1>8, <1>9 DEF new, h, row
\* A worker's memory after it returns to its loop.
LEMMA RestLocal ==
  ASSUME QueueInv, NEW w \in Workers
  PROVE  LocalOK(Rest(w))
<1>1. worker[w] \in Locals
  BY DEF QueueInv
<1>2. Rest(w) \in Locals /\ Rest(w).pc = "idle"
  BY <1>1 DEF Rest, Locals, Null
<1> QED
  BY <1>2 DEF LocalOK

\* The same with the sweep recorded.
LEMMA RecordedLocal ==
  ASSUME QueueInv, NEW w \in Workers, NEW locals, LocalOK(locals), NEW swept
  PROVE  LocalOK(Recorded(w, locals, swept))
<1>1. worker[w] \in Locals
  BY DEF QueueInv
<1>2. worker[w].now \in Nat /\ worker[w].limit \in Nat
  <2>1. worker[w].now \in Nat /\ worker[w].limit \in Limits \cup {0}
    BY <1>1 DEF Locals
  <2>2. Limits \cup {0} \subseteq Nat
    BY PolicyAssumption
  <2> QED
    BY <2>1, <2>2, Zenon
<1>3. locals \in Locals
  BY DEF LocalOK
<1> DEFINE new == [locals EXCEPT !.sweptAt = worker[w].now, !.sweptLimit = worker[w].limit]
<1>4. new \in Locals
  BY <1>2, <1>3 DEF Locals
<1>5. new.pc = locals.pc /\ new.delivery = locals.delivery /\ new.claimed = locals.claimed
  BY <1>3 DEF Locals
<1>6. Recorded(w, locals, swept) = IF swept THEN new ELSE locals
  BY DEF Recorded
<1> HIDE DEF new
<1>7. LocalOK(new)
  BY <1>4, <1>5 DEF LocalOK
<1> QED
  BY <1>6, <1>7

\* A step of one worker leaves the memories well formed.
LEMMA BecomeLocal ==
  ASSUME QueueInv, NEW w \in Workers, NEW locals, LocalOK(locals), Become(w, locals)
  PROVE  worker' \in [Workers -> Locals] /\ \A v \in Workers : LocalOK(worker'[v])
<1>1. locals \in Locals /\ worker \in [Workers -> Locals]
  BY DEF LocalOK, QueueInv
<1>2. worker' = [worker EXCEPT ![w] = locals]
  BY DEF Become
<1>3. \A v \in Workers : worker'[v] = IF v = w THEN locals ELSE worker[v]
  BY <1>1, <1>2
<1> QED
  BY <1>1, <1>2, <1>3 DEF QueueInv

\* What a step may do to the table.
Inserted == \E d \in Deliveries, v \in Events, p \in Payloads : Inserts(d, v, p)

TableStep == Evolves(rows') \/ Inserted

\* Inserting a row keeps the table well formed.
LEMMA InsertedTable == QueueInv /\ Inserted => TableOK(rows')
<1> SUFFICES ASSUME QueueInv, NEW d \in Deliveries, NEW v \in Events, NEW p \in Payloads,
                    Inserts(d, v, p)
             PROVE  TableOK(rows')
  BY DEF Inserted
<1>1. RowOK(Enqueued(v, p)) /\ Enqueued(v, p) # NoRow
  BY EnqueuedRow DEF QueueInv
<1> DEFINE row == Enqueued(v, p)
<1> HIDE DEF row
<1>2. rows' = [rows EXCEPT ![d] = row]
  BY DEF Inserts, row
<1>3. RowOK(row) /\ row \in Rows
  BY <1>1 DEF row, RowOK
<1> QED
  BY <1>2, <1>3 DEF QueueInv, TableOK

\* EnqueueWebhook.
LEMMA EnqueueStep ==
  ASSUME QueueInv, NEW d \in Deliveries, NEW v \in Events, NEW p \in Payloads,
         EnqueueWebhook(d, v, p)
  PROVE  QueueInv' /\ TableStep
<1>1. rows' = rows \/ Inserts(d, v, p)
  BY DEF EnqueueWebhook, Accept, KnownDelivery, Commit, Inserts, QueueInv
<1>2. TableStep
  BY <1>1, SameTable DEF TableStep, Inserted
<1>3. TableOK(rows')
  BY <1>2, InsertedTable DEF TableStep, Evolves
<1>4. accepted' \subseteq Deliveries /\ faults' \in Nat
  BY DEF EnqueueWebhook, Accept, KnownDelivery, Commit, QueueInv
<1>5. UNCHANGED <<clock, worker, crashes, setbacks>>
  BY DEF EnqueueWebhook
<1> QED
  BY <1>2, <1>3, <1>4, <1>5 DEF QueueInv
\* RunOnce and ProcessWebhook touch only the worker's memory.
LEMMA RunStep ==
  ASSUME QueueInv, NEW w \in Workers, RunOnce(w) \/ ProcessWebhook(w)
  PROVE  QueueInv' /\ TableStep
<1>1. worker[w] \in Locals /\ LocalOK(worker[w])
  BY DEF QueueInv
<1>2. PICK locals : LocalOK(locals) /\ Become(w, locals)
  <2>1. CASE RunOnce(w)
    <3> DEFINE new == [worker[w] EXCEPT !.pc = "claim", !.now = clock]
    <3>1. new \in Locals /\ new.pc = "claim"
      BY <1>1 DEF Locals, QueueInv
    <3>2. Become(w, new)
      BY <2>1 DEF RunOnce
    <3> HIDE DEF new
    <3>3. LocalOK(new)
      BY <3>1 DEF LocalOK
    <3> QED
      BY <3>2, <3>3
  <2>2. CASE ProcessWebhook(w)
    <3>1. PICK result \in {"ok", "transient", "permanent"} :
             Become(w, [worker[w] EXCEPT !.pc = "complete", !.now = clock, !.result = result])
      BY <2>2 DEF ProcessWebhook
    <3> DEFINE new == [worker[w] EXCEPT !.pc = "complete", !.now = clock, !.result = result]
    <3>2. new \in Locals
      BY <1>1 DEF Locals, QueueInv
    <3>3. new.delivery = worker[w].delivery /\ new.claimed = worker[w].claimed
      BY <1>1 DEF Locals
    <3>4. Become(w, new)
      BY <3>1
    <3> HIDE DEF new
    <3>5. LocalOK(new)
      BY <1>1, <2>2, <3>2, <3>3 DEF LocalOK, ProcessWebhook
    <3> QED
      BY <3>4, <3>5
  <2> QED
    BY <2>1, <2>2
<1>3. worker' \in [Workers -> Locals] /\ \A v \in Workers : LocalOK(worker'[v])
  BY <1>2, BecomeLocal
<1>4. UNCHANGED <<clock, rows, accepted, faults, crashes, setbacks>>
  BY DEF RunOnce, ProcessWebhook
<1>5. TableStep
  BY <1>4, SameTable DEF TableStep
<1> QED
  BY <1>3, <1>4, <1>5 DEF QueueInv

\* CompleteWebhook.
LEMMA CompleteStep ==
  ASSUME QueueInv, NEW w \in Workers, CompleteWebhook(w)
  PROVE  QueueInv' /\ TableStep
<1> DEFINE d == worker[w].delivery
           new == [rows EXCEPT ![d] = Completed(w)]
<1>1. Become(w, Rest(w)) /\ UNCHANGED <<clock, accepted, crashes, setbacks>> /\ faults' \in Nat
  BY DEF CompleteWebhook, StoreCall, Commit, QueueInv
<1>2. rows' = rows \/ (rows' = new /\ Holds(w))
  BY DEF CompleteWebhook, StoreCall, Commit
<1>3. ASSUME Holds(w) PROVE Evolves(new)
  <2>1. RowOK(Completed(w)) /\ Completed(w).payload = rows[d].payload
    BY <1>3, CompletedRow DEF CompleteWebhook
  <2>2. d \in Deliveries /\ rows[d] # NoRow /\ rows[d].status \notin Terminal
    BY <1>3 DEF Holds, Stored, Terminal
  <2>3. Evolves(rows)
    BY SameTable
  <2> QED
    BY <2>1, <2>2, <2>3, ReplacedRow
<1>4. Evolves(rows')
  BY <1>2, <1>3, SameTable
<1>5. TableOK(rows')
  BY <1>4 DEF Evolves
<1>6. worker' \in [Workers -> Locals] /\ \A v \in Workers : LocalOK(worker'[v])
  BY <1>1, RestLocal, BecomeLocal
<1> QED
  BY <1>1, <1>4, <1>5, <1>6 DEF QueueInv, TableStep

\* PruneControllerData.
LEMMA PruneStep ==
  ASSUME QueueInv, PruneControllerData
  PROVE  QueueInv' /\ TableStep
<1> DEFINE new == [d \in Deliveries |-> IF d \in {e \in Stored : Retired(e)} THEN NoRow ELSE rows[d]]
<1>1. rows' = rows \/ rows' = new
  BY DEF PruneControllerData, StoreCall, Commit
<1>2. UNCHANGED <<clock, worker, crashes, setbacks>> /\ faults' \in Nat /\ accepted' \subseteq Deliveries
  BY DEF PruneControllerData, StoreCall, Commit, QueueInv
<1>3. TableOK(new)
  BY DEF QueueInv, TableOK
<1>4. Evolves(new)
  BY <1>3 DEF Evolves, Retired, Stored, QueueInv, TableOK, Keeps
<1>5. Evolves(rows')
  BY <1>1, <1>4, SameTable
<1>6. TableOK(rows')
  BY <1>5 DEF Evolves
<1> QED
  BY <1>2, <1>5, <1>6 DEF QueueInv, TableStep
\* The table a claim works on: swept when maintenance is due.
ClaimTable(w) ==
    IF needsMaintenance(w) THEN Swept(worker[w].now, worker[w].limit) ELSE rows

\* A row that ClaimWebhook may choose is stored and unfinished.
Choosable(w, d) ==
    /\ d \in Stored
    /\ ClaimTable(w)[d].status \in {"queued", "failed", "processing"}

\* The table ClaimWebhook chooses from, swept or not.
LEMMA ClaimTableEvolves ==
  ASSUME QueueInv, NEW w \in Workers
  PROVE  Evolves(ClaimTable(w)) /\ \A d \in Stored : ClaimTable(w)[d] # NoRow
<1>1. worker[w].now \in Nat
  BY DEF QueueInv, Locals
<1>2. Evolves(rows) /\ \A d \in Stored : rows[d] # NoRow
  BY SameTable DEF Stored
<1> QED
  BY <1>1, <1>2, SweptTable DEF ClaimTable

\* What the claim holds in memory after the commit.
Held(w, d) ==
    [worker[w] EXCEPT !.pc = "process", !.now = 0, !.delivery = d,
                      !.claimed = worker[w].now, !.attempt = ClaimTable(w)[d].attempts + 1]

\* A worker's memory after its claim.
LEMMA HeldLocal ==
  ASSUME QueueInv, NEW w \in Workers, NEW d, Choosable(w, d)
  PROVE  LocalOK(Held(w, d))
<1>1. worker[w] \in Locals
  BY DEF QueueInv
<1>2. worker[w].now \in Nat
  BY <1>1 DEF Locals
<1>3. d \in Deliveries
  BY DEF Choosable, Stored
<1>4. RowOK(ClaimTable(w)[d])
  BY <1>3, ClaimTableEvolves DEF Choosable, Evolves, TableOK
<1>5. ClaimTable(w)[d].attempts + 1 \in Nat
  BY <1>4 DEF RowOK, Rows
<1> DEFINE new == Held(w, d)
<1>6. new \in Locals /\ new.delivery = d /\ new.claimed = worker[w].now
  BY <1>1, <1>2, <1>3, <1>5 DEF Held, Locals
<1> HIDE DEF new
<1>7. LocalOK(new)
  BY <1>2, <1>3, <1>6 DEF LocalOK
<1> QED
  BY <1>7 DEF new

\* The table after the claim of a chosen row.
LEMMA ClaimedTable ==
  ASSUME QueueInv, NEW w \in Workers, NEW d, Choosable(w, d)
  PROVE  Evolves([ClaimTable(w) EXCEPT ![d] = Claimed(ClaimTable(w)[d], worker[w].now)])
<1> DEFINE table == ClaimTable(w)
           row == Claimed(table[d], worker[w].now)
<1>1. Evolves(table) /\ table[d] # NoRow /\ d \in Deliveries
  BY ClaimTableEvolves DEF Choosable, Stored
<1>2. RowOK(table[d])
  BY <1>1 DEF Evolves, TableOK
<1>3. worker[w].now \in Nat
  BY DEF QueueInv, Locals
<1>4. RowOK(row) /\ row.payload = table[d].payload
  BY <1>2, <1>3, ClaimedRow
<1>5. table[d].status \notin Terminal
  BY DEF Choosable, Terminal
<1> HIDE DEF table, row
<1>6. Evolves([table EXCEPT ![d] = row])
  BY <1>1, <1>4, <1>5, ReplacedRow
<1> QED
  BY <1>6 DEF table, row

\* ClaimWebhook, in the terms above.
LEMMA ClaimOutcomes ==
  ASSUME QueueInv, NEW w \in Workers, ClaimWebhook(w)
  PROVE  /\ UNCHANGED <<clock, accepted, crashes, setbacks>> /\ faults' \in Nat
         /\ \/ /\ rows' \in {rows, ClaimTable(w)}
               /\ \/ Become(w, Rest(w))
                  \/ \E swept \in BOOLEAN : Become(w, Recorded(w, Rest(w), swept))
            \/ \E d : /\ Choosable(w, d)
                      /\ rows' \in {rows, [ClaimTable(w) EXCEPT
                                       ![d] = Claimed(ClaimTable(w)[d], worker[w].now)]}
                      /\ \/ Become(w, Rest(w))
                         \/ \E swept \in BOOLEAN : Become(w, Recorded(w, Held(w, d), swept))
<1> DEFINE now   == worker[w].now
           limit == worker[w].limit
           due   == needsMaintenance(w)
           table == IF due THEN Swept(now, limit) ELSE rows
           ready == claimReadyWebhookTx(table, now, limit)
           stale == claimStaleWebhookTx(table, now, limit)
           staleFirst == stale # {} /\ (due \/ ready = {})
           chosen == IF staleFirst THEN stale ELSE ready
           record == due /\ ~staleFirst
<1>1. table = ClaimTable(w)
  BY DEF ClaimTable
<1>2. ASSUME NEW d \in chosen PROVE Choosable(w, d)
  <2>1. d \in ready \/ d \in stale
    BY <1>2
  <2>2. ASSUME d \in ready PROVE d \in Stored /\ table[d].status \in {"queued", "failed"}
    BY <2>2 DEF claimReadyWebhookTx, First
  <2>3. ASSUME d \in stale PROVE d \in Stored /\ table[d].status = "processing"
    BY <2>3 DEF claimStaleWebhookTx, First, Stale
  <2> HIDE DEF table, ready, stale, chosen
  <2> QED
    BY <1>1, <2>1, <2>2, <2>3 DEF Choosable
<1>3. record \in BOOLEAN
  OBVIOUS
<1>4. \/ StoreCall(table, Become(w, Recorded(w, Rest(w), record)), Become(w, Rest(w)))
      \/ \E d \in chosen :
            StoreCall([table EXCEPT ![d] = Claimed(table[d], now)],
                      Become(w, Recorded(w, Held(w, d), record)), Become(w, Rest(w)))
  BY <1>1 DEF ClaimWebhook, Held
<1>5. UNCHANGED <<clock, accepted, crashes, setbacks>>
  BY DEF ClaimWebhook
<1> HIDE DEF table, chosen, record, due, staleFirst, ready, stale
<1>6. faults' \in Nat
  BY <1>4 DEF StoreCall, Commit, QueueInv
<1>7. \/ /\ rows' \in {rows, table}
         /\ \/ Become(w, Rest(w))
            \/ Become(w, Recorded(w, Rest(w), record))
      \/ \E d \in chosen :
            /\ rows' \in {rows, [table EXCEPT ![d] = Claimed(table[d], now)]}
            /\ \/ Become(w, Rest(w))
               \/ Become(w, Recorded(w, Held(w, d), record))
  BY <1>4 DEF StoreCall, Commit
<1> QED
  BY <1>1, <1>2, <1>3, <1>5, <1>6, <1>7

\* ClaimWebhook keeps the invariant and evolves the table.
LEMMA ClaimStep ==
  ASSUME QueueInv, NEW w \in Workers, ClaimWebhook(w)
  PROVE  QueueInv' /\ TableStep
<1>1. UNCHANGED <<clock, accepted, crashes, setbacks>> /\ faults' \in Nat
  BY ClaimOutcomes
<1>2. Evolves(rows')
  BY ClaimOutcomes, SameTable, ClaimTableEvolves, ClaimedTable
<1>3. PICK locals : LocalOK(locals) /\ Become(w, locals)
  BY ClaimOutcomes, RestLocal, RecordedLocal, HeldLocal
<1>4. worker' \in [Workers -> Locals] /\ \A v \in Workers : LocalOK(worker'[v])
  BY <1>3, BecomeLocal
<1>5. TableOK(rows')
  BY <1>2 DEF Evolves
<1> QED
  BY <1>1, <1>2, <1>4, <1>5 DEF QueueInv, TableStep

\* Time, crashes and restarts do not touch the table.
LEMMA EnvironmentStep ==
  ASSUME QueueInv, Tick \/ SetBack \/ \E w \in Workers : StartController(w) \/ Crash(w)
  PROVE  QueueInv' /\ TableStep
<1>1. rows' = rows /\ accepted' = accepted /\ faults' = faults
  BY DEF Tick, SetBack, StartController, Crash
<1>2. TableStep
  BY <1>1, SameTable DEF TableStep
<1>3. clock' \in Nat /\ crashes' \in Nat /\ setbacks' \in Nat
  <2>1. clock \in Nat /\ crashes \in Nat /\ setbacks \in Nat
    BY DEF QueueInv
  <2>2. /\ clock' = clock \/ clock' = clock + 1 \/ (clock > 0 /\ clock' = clock - 1)
        /\ crashes' = crashes \/ crashes' = crashes + 1
        /\ setbacks' = setbacks \/ setbacks' = setbacks + 1
    BY DEF Tick, SetBack, StartController, Crash
  <2> QED
    BY <2>1, <2>2
<1>4. worker' \in [Workers -> Locals] /\ \A v \in Workers : LocalOK(worker'[v])
  <2>1. CASE Tick \/ SetBack
    BY <2>1 DEF Tick, SetBack, QueueInv
  <2>2. CASE \E w \in Workers : StartController(w) \/ Crash(w)
    <3>1. PICK w \in Workers : StartController(w) \/ Crash(w)
      BY <2>2
    <3>2. Down \in Locals
      BY DEF Down, Locals, Null
    <3>3. ASSUME NEW limit \in Limits PROVE LocalOK([Down EXCEPT !.pc = "idle", !.limit = limit])
      BY <3>2, <3>3 DEF LocalOK, Down, Locals, Null
    <3>4. LocalOK(Down)
      BY <3>2 DEF LocalOK, Down
    <3>5. PICK locals : LocalOK(locals) /\ Become(w, locals)
      BY <3>1, <3>3, <3>4 DEF StartController, Crash
    <3> QED
      BY <3>5, BecomeLocal
  <2> QED
    BY <2>1, <2>2
<1> QED
  BY <1>1, <1>2, <1>3, <1>4 DEF QueueInv

\* Every step keeps the invariant and inserts one row or evolves the table.
LEMMA NextStep == QueueInv /\ [Next]_vars => QueueInv' /\ TableStep
<1> SUFFICES ASSUME QueueInv, [Next]_vars PROVE QueueInv' /\ TableStep
  OBVIOUS
<1>1. ASSUME NEW d \in Deliveries, NEW v \in Events, NEW p \in Payloads,
             EnqueueWebhook(d, v, p)
      PROVE  QueueInv' /\ TableStep
  BY <1>1, EnqueueStep
<1>2. ASSUME NEW w \in Workers, Work(w) PROVE QueueInv' /\ TableStep
  BY <1>2, RunStep, ClaimStep, CompleteStep DEF Work
<1>3. CASE PruneControllerData
  BY <1>3, PruneStep
<1>4. CASE Tick \/ SetBack \/ \E w \in Workers : StartController(w) \/ Crash(w)
  BY <1>4, EnvironmentStep
<1>5. CASE UNCHANGED vars
  <2>1. TableStep
    BY <1>5, SameTable DEF vars, TableStep
  <2> QED
    BY <1>5, <2>1 DEF vars, QueueInv, TableOK, LocalOK
<1> QED
  BY <1>1, <1>2, <1>3, <1>4, <1>5 DEF Next

\* The invariant holds always.
LEMMA QueueInvariant == Spec => []QueueInv
<1>1. QueueInv /\ [Next]_vars => QueueInv'
  BY NextStep
<1> QED
  BY InitQueueInv, <1>1, PTL DEF Spec

\* Type correctness of the queue, with the columns a status determines.
THEOREM QueueTypes == Spec => []TypeOK
  BY QueueInvariant, QueueInvTypes, PTL

\* Deduplication: however claims, retries, sweeps, crashes, failed commits and
\* retention interleave, two unfinished rows come to carry the same body only by
\* an insert that met an error; a behaviour without errors has no such rows.
THEOREM Deduplicated == Spec => DuplicatesComeFromErrors
<1>1. QueueInv /\ [Next]_vars =>
         [\A d, e \in Deliveries : Duplicates(d, e)' /\ ~Duplicates(d, e) =>
             faults' > faults /\ NoRow \in {rows[d], rows[e]}]_vars
  <2> SUFFICES ASSUME QueueInv, TableStep, NEW d \in Deliveries, NEW e \in Deliveries,
                      Duplicates(d, e)', ~Duplicates(d, e)
               PROVE  faults' > faults /\ NoRow \in {rows[d], rows[e]}
    BY NextStep
  <2>1. /\ d # e /\ rows'[d] # NoRow /\ rows'[e] # NoRow
        /\ rows'[d].status \in Live /\ rows'[e].status \in Live
        /\ rows'[d].payload = rows'[e].payload
    BY DEF Duplicates, Stored
  <2>2. CASE Evolves(rows')
    <3>1. ASSUME NEW x \in Deliveries, rows'[x] # NoRow, rows'[x].status \in Live
          PROVE  /\ x \in Stored /\ rows[x].status \in Live
                 /\ rows[x].payload = rows'[x].payload
      <4>1. rows[x] # NoRow /\ Keeps(rows[x], rows'[x])
        BY <2>2, <3>1 DEF Evolves
      <4>2. rows[x] \in Rows
        BY <4>1 DEF QueueInv, TableOK
      <4>3. rows[x].status \notin Terminal
        BY <3>1, <4>1 DEF Keeps, Live, Terminal
      <4> QED
        BY <4>1, <4>2, <4>3 DEF Keeps, Rows, Stored
    <3> QED
      BY <2>1, <3>1 DEF Duplicates
  <2>3. ASSUME NEW x \in Deliveries, NEW v \in Events, NEW p \in Payloads, Inserts(x, v, p)
        PROVE  faults' > faults /\ NoRow \in {rows[d], rows[e]}
    <3>1. rows'[x].payload = p /\ rows[x] = NoRow
      BY <2>3 DEF Inserts, Enqueued, QueueInv, TableOK
    <3>2. \A y \in Deliveries \ {x} : rows'[y] = rows[y]
      BY <2>3 DEF Inserts, QueueInv, TableOK
    <3>3. x \in {d, e}
      BY <2>1, <3>2 DEF Duplicates, Stored
    <3>4. Twin(x, p)
      BY <2>1, <3>1, <3>2, <3>3 DEF Twin, Stored
    <3> QED
      BY <2>3, <3>1, <3>3, <3>4 DEF Inserts
  <2> QED
    BY <2>2, <2>3 DEF TableStep, Inserted
<1> QED
  BY <1>1, QueueInvariant, PTL DEF Spec, DuplicatesComeFromErrors

\* A finished delivery is never reopened: a late completion, a sweep or a
\* claim leaves its row as it is, and only retention deletes it.
THEOREM FinishedStaysFinished == Spec => TerminalIsFinal
<1>1. QueueInv /\ [Next]_vars =>
         [\A d \in Stored : rows[d].status \in Terminal => rows'[d] \in {rows[d], NoRow}]_vars
  <2> SUFFICES ASSUME QueueInv, TableStep, NEW d \in Stored, rows[d].status \in Terminal
               PROVE  rows'[d] \in {rows[d], NoRow}
    BY NextStep
  <2>1. d \in Deliveries /\ rows[d] # NoRow
    BY DEF Stored
  <2>2. CASE Evolves(rows')
    BY <2>1, <2>2 DEF Evolves, Keeps
  <2>3. CASE Inserted
    BY <2>1, <2>3 DEF Inserted, Inserts, QueueInv, TableOK
  <2> QED
    BY <2>2, <2>3 DEF TableStep
<1> QED
  BY <1>1, QueueInvariant, PTL DEF Spec, TerminalIsFinal
=============================================================================
