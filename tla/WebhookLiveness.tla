-------------------------- MODULE WebhookLiveness ---------------------------
(***************************************************************************)
(* Liveness of the webhook queue over unbounded time.  Only differences of *)
(* timestamps and their fractions matter, so when the clock reaches the    *)
(* end of its window every timestamp is moved back by one second; one that *)
(* would leave the window stays at its start, longer ago than any timeout. *)
(***************************************************************************)
EXTENDS WebhookProperties

ASSUME WindowAssumption == MaxClock >= RetainAge + Delay + 4 /\ MaxSetbacks <= Delay

Back(t) == IF t >= 2 THEN t - 2 ELSE t

Rebase ==
    /\ clock = MaxClock
    /\ clock' = Back(clock)
    /\ rows' = [d \in Deliveries |->
         IF rows[d] = NoRow THEN NoRow
         ELSE [rows[d] EXCEPT !.available = Back(@), !.claimed = Back(@), !.done = Back(@)]]
    /\ worker' = [w \in Workers |->
         [worker[w] EXCEPT !.now = Back(@), !.claimed = Back(@), !.sweptAt = Back(@)]]
    /\ UNCHANGED <<accepted, faults, crashes, setbacks>>

LiveNext == Next \/ Rebase

\* Time passes; the ticker of workerLoop calls RunOnce again and again, the
\* processor and the store calls return; a dead controller is started again.
Fairness ==
    /\ WF_vars(Tick \/ Rebase)
    /\ \A w \in Workers : WF_vars(Work(w)) /\ WF_vars(StartController(w))

LiveSpec == Init /\ [][LiveNext]_vars /\ Fairness

\* Every delivery answered 202 is eventually succeeded, dead-lettered or
\* deleted by retention: no crash, store error, lowered attempt limit or
\* abandoned claim leaves it in the queue for ever.
EveryDeliveryEnds ==
    \A d \in Deliveries :
        d \in accepted ~> (d \notin Stored \/ rows[d].status \in Terminal)
=============================================================================
